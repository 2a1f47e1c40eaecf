------------------------ MODULE DelegationLaunchProofs ------------------------
(* The inductive invariant of Delegation, the lemmas about the projection    *)
(* and the writer that its proof rests on, and the proof that every step of  *)
(* a launch (runtime/child-launcher.ts) preserves it. DelegationProofs       *)
(* treats the other steps and states the theorems.                           *)
EXTENDS Delegation, FiniteSetTheorems, WellFoundedInduction, TLAPS

-----------------------------------------------------------------------------
(* Induction over the naturals as a fact about sets. *)

LEMMA SetInduction ==
  ASSUME NEW S, 0 \in S, \A n \in Nat : n \in S => n + 1 \in S
  PROVE  \A n \in Nat : n \in S
  <1> DEFINE T == {n \in Nat : n \notin S}
  <1> SUFFICES ASSUME T # {} PROVE FALSE OBVIOUS
  <1>1. PICK x \in T : \A y \in T : ~(<<y, x>> \in OpToRel(<, Nat))
    BY NatLessThanWellFounded, WFMin, Zenon
  <1>2. \A y \in T : ~(y < x) BY <1>1 DEF OpToRel
  <1>3. x \in Nat /\ x # 0 /\ x - 1 \in Nat /\ (x - 1) + 1 = x OBVIOUS
  <1>4. x - 1 \in S BY <1>2, <1>3
  <1> QED BY <1>3, <1>4

LEMMA ConcatFacts ==
  ASSUME NEW E, NEW p \in Seq(E), NEW r \in Seq(E)
  PROVE  /\ p \o r \in Seq(E)
         /\ Len(p) \in Nat /\ Len(r) \in Nat /\ Len(p \o r) = Len(p) + Len(r)
         /\ \A k \in 1 .. Len(p) : (p \o r)[k] = p[k]
         /\ \A k \in 1 .. Len(r) : (p \o r)[Len(p) + k] = r[k]
  <1>1. Len(p) \in Nat /\ Len(r) \in Nat /\ Len(p \o r) = Len(p) + Len(r) OBVIOUS
  <1>2. p \o r \in Seq(E) OBVIOUS
  <1>3. ASSUME NEW k \in 1 .. Len(p) PROVE (p \o r)[k] = p[k] BY <1>1
  <1>4. ASSUME NEW k \in 1 .. Len(r) PROVE (p \o r)[Len(p) + k] = r[k] BY <1>1
  <1> QED BY <1>1, <1>2, <1>3, <1>4

\* f is the first m rounds of the loop over q, and has all that they append.
Rounds(f, q, E, m) ==
  /\ f = [i \in 0 .. m |-> f[i]] /\ f[0] = <<>>
  /\ \A i \in 1 .. m : f[i] = f[i - 1] \o q[i]
  /\ \A i \in 0 .. m : f[i] \in Seq(E)
  /\ \A i \in 1 .. m : \A j \in 1 .. Len(q[i]) :
       \E k \in 1 .. Len(f[m]) : f[m][k] = q[i][j]

LEMMA NextRound ==
  ASSUME NEW E, NEW q \in Seq(Seq(E)), NEW m \in Nat, m + 1 <= Len(q),
         NEW f, Rounds(f, q, E, m)
  PROVE  \E h : Rounds(h, q, E, m + 1)
  <1> DEFINE p == f[m]
             r == q[m + 1]
             c == p \o r
             h == [i \in 0 .. m + 1 |-> IF i = m + 1 THEN c ELSE f[i]]
  <1>1. p \in Seq(E) /\ r \in Seq(E) BY DEF Rounds
  <1>a. /\ c \in Seq(E) /\ Len(p) \in Nat /\ Len(r) \in Nat /\ Len(c) = Len(p) + Len(r)
        /\ \A k \in 1 .. Len(p) : c[k] = p[k]
        /\ \A k \in 1 .. Len(r) : c[Len(p) + k] = r[k]
    <2> HIDE DEF p, r
    <2> QED BY <1>1, ConcatFacts
  <1> HIDE DEF c
  <1>2. h = [i \in 0 .. m + 1 |-> h[i]] /\ h[0] = <<>> BY DEF Rounds
  <1>3. h[m + 1] = c /\ \A i \in 0 .. m : h[i] = f[i] OBVIOUS
  <1> HIDE DEF h
  <1>4. ASSUME NEW i \in 1 .. m + 1 PROVE h[i] = h[i - 1] \o q[i]
    <2>1. CASE i = m + 1
      <3>1. i - 1 = m /\ m \in 0 .. m BY <2>1
      <3> QED BY <1>3, <2>1, <3>1 DEF c
    <2>2. CASE i # m + 1
      <3>1. i \in 1 .. m /\ i - 1 \in 0 .. m BY <2>2
      <3>2. f[i] = f[i - 1] \o q[i] BY <3>1 DEF Rounds
      <3>3. h[i] = f[i] /\ h[i - 1] = f[i - 1] BY <1>3, <3>1
      <3> QED BY <3>2, <3>3
    <2> QED BY <2>1, <2>2
  <1>5. ASSUME NEW i \in 0 .. m + 1 PROVE h[i] \in Seq(E)
    <2>1. i = m + 1 \/ i \in 0 .. m OBVIOUS
    <2> QED BY <1>3, <1>a, <2>1 DEF Rounds
  <1>6. ASSUME NEW i \in 1 .. m + 1, NEW j \in 1 .. Len(q[i])
        PROVE  \E k \in 1 .. Len(h[m + 1]) : h[m + 1][k] = q[i][j]
    <2>1. CASE i = m + 1
      <3>0. j \in 1 .. Len(r) BY <2>1
      <3>1. Len(p) + j \in 1 .. Len(c)
        <4> HIDE DEF p, r
        <4> QED BY <1>a, <3>0
      <3>2. c[Len(p) + j] = r[j] BY <1>a, <2>1
      <3> QED BY <1>3, <2>1, <3>1, <3>2
    <2>2. CASE i # m + 1
      <3>1. i \in 1 .. m BY <2>2
      <3>2. PICK k \in 1 .. Len(f[m]) : f[m][k] = q[i][j] BY <3>1 DEF Rounds
      <3>3. k \in 1 .. Len(p) /\ p[k] = q[i][j] BY <3>2
      <3>4. k \in 1 .. Len(c) /\ c[k] = p[k]
        <4> HIDE DEF p, r
        <4> QED BY <1>a, <3>3
      <3> QED BY <1>3, <3>3, <3>4
    <2> QED BY <2>1, <2>2
  <1>7. Rounds(h, q, E, m + 1) BY <1>2, <1>4, <1>5, <1>6 DEF Rounds
  <1> QED BY <1>7

\* What the loops that append events return: a sequence of what the rounds
\* append, with everything each round appends.
LEMMA FlattenSeq ==
  ASSUME NEW E, NEW q \in Seq(Seq(E))
  PROVE  /\ Flatten(q) \in Seq(E)
         /\ \A i \in 1 .. Len(q) : \A j \in 1 .. Len(q[i]) :
              \E k \in 1 .. Len(Flatten(q)) : Flatten(q)[k] = q[i][j]
  <1> DEFINE S == {m \in Nat : m <= Len(q) => \E f : Rounds(f, q, E, m)}
  <1>1. 0 \in S
    <2> DEFINE f == [i \in 0 .. 0 |-> <<>>]
    <2>1. f[0] = <<>> /\ <<>> \in Seq(E) /\ f = [i \in 0 .. 0 |-> f[i]] OBVIOUS
    <2> HIDE DEF f
    <2>2. \A i \in 0 .. 0 : i = 0 OBVIOUS
    <2>3. \A i \in 1 .. 0 : FALSE OBVIOUS
    <2>4. Rounds(f, q, E, 0) BY <2>1, <2>2, <2>3 DEF Rounds
    <2> QED BY <2>4
  <1>2. ASSUME NEW m \in Nat, m \in S PROVE m + 1 \in S
    <2>1. m + 1 <= Len(q) => m <= Len(q) OBVIOUS
    <2> QED BY <1>2, <2>1, NextRound
  <1>3. \A m \in Nat : m \in S
    <2> HIDE DEF S
    <2> QED BY <1>1, <1>2, SetInduction
  <1>4. PICK f : Rounds(f, q, E, Len(q)) BY <1>3
  <1> DEFINE g == CHOOSE h : h = [i \in 0 .. Len(q) |-> IF i = 0 THEN <<>> ELSE h[i - 1] \o q[i]]
  <1>5. Flatten(q) = g[Len(q)] BY DEF Flatten
  <1>6. f = [i \in 0 .. Len(q) |-> IF i = 0 THEN <<>> ELSE f[i - 1] \o q[i]]
    <2>1. \A i \in 0 .. Len(q) : i = 0 \/ i \in 1 .. Len(q) OBVIOUS
    <2>2. \A i \in 0 .. Len(q) : f[i] = IF i = 0 THEN <<>> ELSE f[i - 1] \o q[i]
      BY <1>4, <2>1 DEF Rounds
    <2>3. f = [i \in 0 .. Len(q) |-> f[i]] BY <1>4 DEF Rounds
    <2> QED BY <2>2, <2>3
  <1>7. g = [i \in 0 .. Len(q) |-> IF i = 0 THEN <<>> ELSE g[i - 1] \o q[i]] BY <1>6
  <1> HIDE DEF g
  <1> DEFINE U == {m \in Nat : m <= Len(q) => g[m] = f[m]}
  <1>8. 0 \in U
    <2>1. 0 \in 0 .. Len(q) OBVIOUS
    <2>2. g[0] = <<>> BY <1>7, <2>1
    <2>3. f[0] = <<>> BY <1>4 DEF Rounds
    <2> QED BY <2>2, <2>3
  <1>9. ASSUME NEW m \in Nat, m \in U PROVE m + 1 \in U
    <2> SUFFICES ASSUME m + 1 <= Len(q) PROVE g[m + 1] = f[m + 1] OBVIOUS
    <2>1. m + 1 \in 0 .. Len(q) /\ m + 1 # 0 /\ (m + 1) - 1 = m OBVIOUS
    <2>2. g[m + 1] = g[m] \o q[m + 1] BY <1>7, <2>1
    <2>3. f[m + 1] = f[m] \o q[m + 1] BY <1>6, <2>1
    <2>4. g[m] = f[m] BY <1>9
    <2> QED BY <2>2, <2>3, <2>4
  <1>10. \A m \in Nat : m \in U
    <2> HIDE DEF U
    <2> QED BY <1>8, <1>9, SetInduction
  <1>11. Flatten(q) = f[Len(q)] BY <1>5, <1>10
  <1>12. Len(q) \in 0 .. Len(q) OBVIOUS
  <1>13. f[Len(q)] \in Seq(E) BY <1>4, <1>12 DEF Rounds
  <1>14. \A i \in 1 .. Len(q) : \A j \in 1 .. Len(q[i]) :
           \E k \in 1 .. Len(f[Len(q)]) : f[Len(q)][k] = q[i][j]
    BY <1>4 DEF Rounds
  <1> HIDE DEF S, U
  <1>15. Flatten(q) \in Seq(E) BY <1>11, <1>13
  <1>16. \A i \in 1 .. Len(q) : \A j \in 1 .. Len(q[i]) :
           \E k \in 1 .. Len(Flatten(q)) : Flatten(q)[k] = q[i][j]
    BY <1>11, <1>14
  <1> QED BY <1>15, <1>16
(* The events a hold may append. *)
Steps == CommandSteps \cup LaunchSteps \cup {"none"}
DecideEvent == [type : {"decided"}, d : Delegations, kind : {"approved", "rejected"}]
OfEvent == [type : {"queued", "prepared", "accepted", "blocked", "cancel"}, d : Delegations]
AttemptEvent ==
  [type : {"reserved", "launch_requested", "started", "settled", "pre_effect_cancelled"},
   d : Delegations, n : 0..2]
KindEvent == [type : {"terminal", "ready"}, d : Delegations, n : 1..2,
              kind : Terminals \cup Known]
GrantEvent == [type : {"claim_granted"}, d : Delegations, n : 1..2, group : Commands]
HeldEvent == [type : {"claim_released", "slot_released"},
              d : Delegations, n : 1..2, group : 0..MaxCommands]
SlotEvent == [type : {"slot_claimed"}, d : Delegations, n : 1..2, group : Commands, slot : 1..2]
OpenEvent == [type : {"lease_acquired", "barrier_suspended"}, group : Commands]
BarrierEvent == [type : {"barrier_requested"}, group : Commands, required : SUBSET Delegations]
ReleaseEvent == [type : {"barrier_released"}, group : Commands,
                 kind : {"completed", "cancelled", "blocked"}]
TakeoverEvent == [type : {"takeover"}, group : Commands, from : 0..MaxCommands, to : Commands]
Event ==
  UNION {DecideEvent, OfEvent, AttemptEvent, KindEvent, GrantEvent, HeldEvent, SlotEvent, OpenEvent, BarrierEvent,
         ReleaseEvent, TakeoverEvent}

AttemptRecord ==
  [actor : 1..2, bound : BOOLEAN, started : BOOLEAN, terminal : Terminals, settled : BOOLEAN]
SessionType ==
  [ status : [Delegations -> Statuses], envelopes : [Delegations -> 0..2],
    attempts : [Delegations -> Seq(AttemptRecord)],
    receipt : [Delegations -> {"none"} \cup Known], cancels : SUBSET Delegations,
    slots : SUBSET [actor : Actors, group : Commands, slot : 1..2],
    claims : SUBSET [actor : Actors, group : Commands],
    claimed : [Delegations -> [1..2 -> 0..MaxCommands]],
    barriers : [Commands ->
      [status : {"none", "requested", "suspended", "completed", "cancelled", "blocked"},
       required : SUBSET Delegations]],
    nonce : [Commands -> 0..MaxCommands] ]
LaunchType ==
  [pc : LaunchSteps, n : 0..2, first : 0..2, slot : 0..2, seen : BOOLEAN,
   err : {"none", "infra", "cancelled", "stale"}]
CommandType ==
  [pc : CommandSteps, sel : 0..NDelegations, n : 0..2, adm : SUBSET Delegations,
   aborted : {"no", "cancel", "fatal"}, grp : 0..MaxCommands, from : 0..MaxCommands]
WriterType ==
  [by : 0..MaxCommands, of : 0..NDelegations, todo : Seq(Event), then : Steps, refused : Steps]
OpType == [state : OpStates, failure : {"none", "infra", "cancelled", "unknown"}]
ChildType == [state : ChildStates, result : {"none"} \cup Outcomes]

Types ==
  /\ session \in SessionType
  /\ lease \in [state : {"none", "active", "released"}, group : 0..MaxCommands,
                owner : 0..MaxCommands, nonce : 0..MaxCommands]
  /\ op \in [Actors -> OpType]
  /\ child \in [Actors -> ChildType]
  /\ cmd \in [Commands -> CommandType]
  /\ thr \in [Commands -> [Delegations -> LaunchType]]
  /\ writer \in WriterType
  /\ gone \subseteq Commands /\ crashes \in 0..MaxCrashes

-----------------------------------------------------------------------------
(* What the projection says by itself. *)
Early == {"draft", "approved", "rejected", "queued"}

DelegationOK(s, d) ==
  /\ Len(s.attempts[d]) <= MaxAttempts
  /\ d \in s.cancels => s.status[d] \notin Early
  /\ s.status[d] \in Early => \A i \in DOMAIN s.attempts[d] : ~s.attempts[d][i].started
  /\ \A i, j \in DOMAIN s.attempts[d] :
       s.attempts[d][i].started /\ s.attempts[d][j].started => i = j
  /\ \A i \in DOMAIN s.attempts[d] :
       s.attempts[d][i].settled => s.attempts[d][i].terminal # "none"
  /\ s.status[d] = "receipt_ready" => s.receipt[d] # "none"
  /\ \A i \in DOMAIN s.attempts[d] :
       /\ s.claimed[d][s.attempts[d][i].actor] # 0
       /\ s.envelopes[d] >= s.attempts[d][i].actor
SessionOK(s) ==
  /\ \A d \in Delegations : DelegationOK(s, d)
  /\ \A x \in s.slots : s.claimed[x.actor[1]][x.actor[2]] # 0

(* Facts about an actor's attempt, all of them for good. *)
HasAttempt(s, a) == Has(s, a[1], a[2])
IsBound(s, a) == HasAttempt(s, a) /\ Attempt(s, a[1], a[2]).bound
IsStarted(s, a) == HasAttempt(s, a) /\ Attempt(s, a[1], a[2]).started
IsSettled(s, a) == HasAttempt(s, a) /\ Attempt(s, a[1], a[2]).settled
IsClaimed(s, a) == s.claimed[a[1]][a[2]] # 0

(* The operation proves that the attempt ended without effect. *)
Proven(o, a) == o[a].failure \in {"infra", "cancelled"}

(* A launch that may still touch its actor's process or operation. *)
Danger(g, d) ==
  \/ thr[g][d].pc \in {"spawn", "handshake", "start", "sending", "fail", "wait"}
  \/ thr[g][d].pc = "holding" /\ writer.then = "sending"

ProvenIsOver ==
  \A a \in Actors : Proven(op, a) =>
    /\ child[a].state \in {"none", "dead"}
    /\ \A g \in Commands : Danger(g, a[1]) => thr[g][a[1]].n # a[2]

ActedIsStarted ==
  \A a \in Actors :
    child[a].state \in {"told", "running", "finished", "killed"} => IsStarted(session, a)

UnboundIsNew ==
  \A a \in Actors : ~IsBound(session, a) => child[a].state = "none" /\ ~Proven(op, a)

OperationOK ==
  \A a \in Actors :
    /\ op[a].state = "pre_effect_terminal" => Proven(op, a)
    /\ op[a].state = "reconciled" => IsSettled(session, a)

OneDanger ==
  \A g, h \in Commands, d \in Delegations :
    Danger(g, d) /\ Danger(h, d) /\ thr[g][d].n = thr[h][d].n => g = h

NoEffect(t) == t.terminal = "pre_effect" \/ (t.terminal = "cancelled_clean" /\ ~t.started)

NoEffectIsProven ==
  \A d \in Delegations : \A i \in DOMAIN session.attempts[d] :
    NoEffect(session.attempts[d][i]) => Proven(op, <<d, session.attempts[d][i].actor>>)

(* What a launch knows at each of its steps. *)
AfterLaunch == {"recover", "reconcile", "blocked", "lost", "import", "receipt", "settle"}

LaunchOK(g, d) ==
  LET t == thr[g][d]
      a == <<d, t.n>>
  IN
  /\ t.pc # "idle" =>
       /\ cmd[g].pc \in {"run", "holding", "release"} /\ d \in cmd[g].adm
       /\ t.n \in 1..2 /\ t.n <= session.envelopes[d]
       /\ cmd[g].pc = "run" => \/ IsClaimed(session, a) \/ t.pc = "rejected"
                               \/ t.pc = "holding" /\ writer.then = "launch"
  /\ t.pc = "holding" => writer.by = g /\ writer.of = d /\ writer.todo # <<>>
  /\ t.pc = "sending" => /\ writer.by = g /\ writer.of = d /\ writer.todo = <<>>
                         /\ IsStarted(session, a) /\ d \notin session.cancels
  /\ Danger(g, d) => IsBound(session, a)
  /\ t.pc \in AfterLaunch \/ (t.pc = "holding" /\ writer.then \in AfterLaunch) => HasAttempt(session, a)
  /\ t.pc \in {"reconcile", "settle"} => IsSettled(session, a)

(* What a command knows. *)
CommandOK(g) ==
  LET c == cmd[g]
      a == <<c.sel, c.n>>
      going(S) == c.pc \in S \/ (c.pc = "holding" /\ writer.then \in S)
  IN
  /\ c.pc \notin {"unused", "done"} => c.sel \in Delegations
  /\ c.pc = "holding" => writer.by = g /\ writer.of = 0 /\ writer.todo # <<>>
  /\ going({"recover", "reclaim"}) => c.n \in 1..2 /\ HasAttempt(session, a)
  /\ c.pc = "reclaim" => IsSettled(session, a)
  /\ c.pc = "takeover" => session.attempts[c.sel] # <<>>
  /\ going({"seize", "adopt", "yield"}) => c.grp \in Commands
  /\ c.pc \in {"fence", "acquire", "admit"} =>
       Cardinality(c.adm) <= 2 /\ \A d \in c.adm : session.envelopes[d] > 0

(* What the writer is about to append. *)
Pending(todo, type, a) ==
  \E i \in DOMAIN todo : todo[i].type = type /\ todo[i].d = a[1] /\ todo[i].n = a[2]

EventOK(w, s, o, e) ==
  /\ e.type \in {"reserved", "launch_requested"} => w.then = "spawn" /\ w.of # 0
  /\ e.type = "started" => w.then = "sending" /\ w.of # 0
  /\ e.type \in {"terminal", "ready", "settled"} => Has(s, e.d, e.n)
  /\ e.type = "pre_effect_cancelled" /\ e.n # 0 => Has(s, e.d, e.n) /\ Proven(o, <<e.d, e.n>>)
  /\ e.type = "terminal" =>
       e.kind \in Terminals /\ (e.kind = "pre_effect" => Proven(o, <<e.d, e.n>>))
  /\ e.type = "ready" => e.kind \in Known

CommandHolds(g) ==
  /\ writer.then \in {"run", "release", "done", "read", "reclaim", "yield"} /\ writer.refused = "done"
  /\ cmd[g].pc = "holding"
  /\ writer.then \in {"read", "reclaim", "yield"} => \A e \in Delegations : thr[g][e].pc = "idle"
  /\ writer.then = "run" => \A e \in cmd[g].adm :
       /\ thr[g][e].n \in 1..2
       /\ \/ IsClaimed(session, <<e, thr[g][e].n>>)
          \/ Pending(writer.todo, "slot_claimed", <<e, thr[g][e].n>>)
  /\ writer.then = "reclaim" =>
       IsSettled(session, <<cmd[g].sel, cmd[g].n>>) \/ Pending(writer.todo, "settled", <<cmd[g].sel, cmd[g].n>>)

LaunchHolds(g, d) ==
  LET a == <<d, thr[g][d].n>> IN
  /\ writer.then \in LaunchSteps \ {"holding", "idle"} /\ writer.refused \in {"fail", "rejected"}
  /\ writer.refused = "fail" => writer.then = "sending"
  /\ cmd[g].pc = "run"
  /\ thr[g][d].pc = IF writer.todo = <<>> THEN "sending" ELSE "holding"
  /\ writer.todo = <<>> => writer.then = "sending"
  /\ writer.then \notin {"handshake", "start", "fail", "wait"}
  /\ writer.then = "launch" => IsClaimed(session, a) \/ Pending(writer.todo, "slot_claimed", a)
  /\ writer.then = "spawn" =>
       \/ writer.todo = <<OfAttempt("reserved", a), OfAttempt("launch_requested", a)>>
       \/ HasAttempt(session, a) /\ writer.todo = <<OfAttempt("launch_requested", a)>>
  /\ writer.then = "sending" /\ writer.todo # <<>> => writer.todo = <<OfAttempt("started", a)>>
  /\ writer.then \in {"reconcile", "settle"} => IsSettled(session, a) \/ Pending(writer.todo, "settled", a)

WriterOK ==
  /\ writer.by = 0 => writer = Free
  /\ \A g \in Commands : writer.by = g /\ writer.of = 0 => CommandHolds(g)
  /\ \A g \in Commands, d \in Delegations : writer.by = g /\ writer.of = d => LaunchHolds(g, d)
  /\ \A i \in DOMAIN writer.todo : EventOK(writer, session, op, writer.todo[i])

Inv ==
  /\ Types
  /\ SessionOK(session)
  /\ ProvenIsOver
  /\ ActedIsStarted
  /\ UnboundIsNew
  /\ OperationOK
  /\ OneDanger
  /\ NoEffectIsProven
  /\ \A g \in Commands, d \in Delegations : LaunchOK(g, d)
  /\ \A g \in Commands : CommandOK(g)
  /\ WriterOK

-----------------------------------------------------------------------------
(* Attempts of one delegation. *)

LEMMA UpdateAttempt ==
  ASSUME NEW q \in Seq(AttemptRecord), NEW i \in DOMAIN q, NEW r \in AttemptRecord
  PROVE  /\ [q EXCEPT ![i] = r] \in Seq(AttemptRecord)
         /\ Len([q EXCEPT ![i] = r]) = Len(q)
         /\ DOMAIN [q EXCEPT ![i] = r] = DOMAIN q
         /\ \A j \in DOMAIN q : [q EXCEPT ![i] = r][j] = IF j = i THEN r ELSE q[j]
  <1> HIDE DEF AttemptRecord
  <1> QED OBVIOUS

LEMMA AtFacts ==
  ASSUME NEW s \in SessionType, NEW d \in Delegations, NEW n \in 1..2,
         Len(s.attempts[d]) <= 2, Has(s, d, n)
  PROVE  /\ At(s, d, n) \in DOMAIN s.attempts[d]
         /\ s.attempts[d][At(s, d, n)].actor = n
         /\ \A j \in 1 .. At(s, d, n) - 1 : s.attempts[d][j].actor # n
  <1> DEFINE q == s.attempts[d]
  <1>1. q \in Seq(AttemptRecord) /\ DOMAIN q = 1 .. Len(q) /\ Len(q) \in Nat BY DEF SessionType
  <1>2. \E i \in DOMAIN q : q[i].actor = n BY DEF Has
  <1>3. \E i \in DOMAIN q : q[i].actor = n /\ \A j \in 1 .. i - 1 : q[j].actor # n
    <2> HIDE DEF q
    <2>1. PICK i \in DOMAIN q : q[i].actor = n BY <1>2
    <2>2. i = 1 \/ i = 2 BY <1>1, <2>1 DEF q
    <2>3. 1 \in DOMAIN q BY <1>1, <2>1
    <2>4. CASE q[1].actor = n BY <2>3, <2>4
    <2>5. CASE q[1].actor # n BY <2>1, <2>2, <2>5
    <2> QED BY <2>4, <2>5
  <1> QED BY <1>3 DEF At

LEMMA AtIs ==
  ASSUME NEW s \in SessionType, NEW d \in Delegations, NEW n \in 1..2,
         Len(s.attempts[d]) <= 2,
         NEW i \in DOMAIN s.attempts[d], s.attempts[d][i].actor = n,
         \A j \in 1 .. i - 1 : s.attempts[d][j].actor # n
  PROVE  Has(s, d, n) /\ At(s, d, n) = i
  <1>1. Has(s, d, n) BY DEF Has
  <1>2. /\ At(s, d, n) \in DOMAIN s.attempts[d] /\ s.attempts[d][At(s, d, n)].actor = n
        /\ \A j \in 1 .. At(s, d, n) - 1 : s.attempts[d][j].actor # n
    BY <1>1, AtFacts
  <1>3. DOMAIN s.attempts[d] \subseteq Nat \ {0} BY DEF SessionType
  <1>4. ~(At(s, d, n) < i) BY <1>2, <1>3
  <1>5. ~(i < At(s, d, n)) BY <1>2, <1>3
  <1> QED BY <1>1, <1>2, <1>3, <1>4, <1>5

\* What a session never takes back.
GrowAt(s, t, d) ==
  /\ s.envelopes[d] <= t.envelopes[d]
  /\ \A n \in 1..2 : s.claimed[d][n] # 0 => t.claimed[d][n] # 0
  /\ Len(s.attempts[d]) <= Len(t.attempts[d])
  /\ \A i \in DOMAIN s.attempts[d] :
       /\ t.attempts[d][i].actor = s.attempts[d][i].actor
       /\ s.attempts[d][i].bound => t.attempts[d][i].bound
       /\ s.attempts[d][i].started => t.attempts[d][i].started
       /\ s.attempts[d][i].settled => t.attempts[d][i].settled
       /\ s.attempts[d][i].terminal # "none" => t.attempts[d][i].terminal # "none"
Grow(s, t) == \A d \in Delegations : GrowAt(s, t, d)

LEMMA SessionFields ==
  ASSUME NEW s \in SessionType, NEW d \in Delegations
  PROVE  /\ s.status[d] \in Statuses /\ s.envelopes[d] \in 0..2 /\ s.receipt[d] \in {"none"} \cup Known
         /\ s.attempts[d] \in Seq(AttemptRecord) /\ Len(s.attempts[d]) \in Nat
         /\ DOMAIN s.attempts[d] = 1 .. Len(s.attempts[d])
         /\ \A i \in DOMAIN s.attempts[d] : s.attempts[d][i] \in AttemptRecord
         /\ s.claimed[d] \in [1..2 -> 0..MaxCommands]
  BY DEF SessionType

LEMMA GrowSame ==
  ASSUME NEW s \in SessionType, NEW t, NEW d \in Delegations,
         t.envelopes[d] = s.envelopes[d], t.claimed[d] = s.claimed[d], t.attempts[d] = s.attempts[d]
  PROVE  GrowAt(s, t, d)
  <1>1. s.envelopes[d] \in 0..2 /\ Len(s.attempts[d]) \in Nat BY SessionFields
  <1> QED BY <1>1 DEF GrowAt

LEMMA GrowKeeps ==
  ASSUME NEW s \in SessionType, NEW t \in SessionType, Grow(s, t),
         NEW d \in Delegations, NEW n \in 1..2, Len(t.attempts[d]) <= 2, Has(s, d, n)
  PROVE  /\ Has(t, d, n) /\ At(t, d, n) = At(s, d, n)
         /\ Attempt(s, d, n).bound => Attempt(t, d, n).bound
         /\ Attempt(s, d, n).started => Attempt(t, d, n).started
         /\ Attempt(s, d, n).settled => Attempt(t, d, n).settled
  <1> DEFINE i == At(s, d, n)
  <1>1. /\ s.attempts[d] \in Seq(AttemptRecord) /\ t.attempts[d] \in Seq(AttemptRecord)
        /\ Len(s.attempts[d]) <= Len(t.attempts[d])
    BY DEF SessionType, Grow, GrowAt
  <1>2. /\ i \in DOMAIN s.attempts[d] /\ s.attempts[d][i].actor = n
        /\ \A j \in 1 .. i - 1 : s.attempts[d][j].actor # n
    <2>1. Len(s.attempts[d]) <= 2 BY <1>1
    <2>2. /\ At(s, d, n) \in DOMAIN s.attempts[d] /\ s.attempts[d][At(s, d, n)].actor = n
          /\ \A j \in 1 .. At(s, d, n) - 1 : s.attempts[d][j].actor # n
      <3> HIDE DEF i
      <3> QED BY <2>1, AtFacts
    <2> QED BY <2>2
  <1> HIDE DEF i
  <1>3. i \in DOMAIN t.attempts[d] /\ \A j \in 1 .. i - 1 : j \in DOMAIN s.attempts[d]
    BY <1>1, <1>2
  <1>4. \A j \in DOMAIN s.attempts[d] : t.attempts[d][j].actor = s.attempts[d][j].actor BY DEF Grow, GrowAt
  <1>5. Has(t, d, n) /\ At(t, d, n) = i
    <2>1. t.attempts[d][i].actor = n /\ \A j \in 1 .. i - 1 : t.attempts[d][j].actor # n
      BY <1>2, <1>3, <1>4
    <2> QED BY <1>3, <2>1, AtIs, ZenonT(60)
  <1> QED BY <1>2, <1>5 DEF Attempt, Grow, GrowAt, i

-----------------------------------------------------------------------------
(* What an event does to the projection. *)

\* What an event needs besides the projector's own conditions.
Fits(s, e) ==
  /\ e.type \in {"launch_requested", "started", "terminal", "ready", "settled"} =>
       e.n \in 1..2 /\ Has(s, e.d, e.n)
  /\ e.type = "reserved" =>
       e.n \in 1..2 /\ s.claimed[e.d][e.n] # 0 /\ e.n <= s.envelopes[e.d]
  /\ e.type = "pre_effect_cancelled" /\ e.n # 0 => Has(s, e.d, e.n)
  /\ e.type = "terminal" => e.kind \in Terminals
  /\ e.type = "ready" => e.kind \in Known

\* The projection t may follow s.
Follows(s, t) == t \in SessionType /\ SessionOK(t) /\ Grow(s, t)

LEMMA EventFields ==
  ASSUME NEW e \in Event
  PROVE  /\ e.type \in {"decided", "queued", "prepared", "accepted", "blocked", "cancel", "reserved",
              "launch_requested", "started", "settled", "pre_effect_cancelled", "terminal", "ready",
              "claim_granted", "claim_released", "slot_released", "slot_claimed"} => e.d \in Delegations
         /\ e.type = "decided" => e.kind \in {"approved", "rejected"}
         /\ e.type \in {"reserved", "launch_requested", "started", "settled", "pre_effect_cancelled"}
              => e.n \in 0..2
         /\ e.type \in {"terminal", "ready", "slot_claimed", "claim_granted", "claim_released",
                        "slot_released"} => e.n \in 1..2
         /\ e.type \in {"slot_claimed", "claim_granted"} => e.group \in Commands
         /\ e.type = "slot_claimed" => e.slot \in 1..2
         /\ e.type \in {"lease_acquired", "barrier_suspended", "barrier_requested", "barrier_released",
                        "takeover"} => e.group \in Commands
         /\ e.type = "barrier_requested" => e.required \subseteq Delegations
         /\ e.type = "barrier_released" => e.kind \in {"completed", "cancelled", "blocked"}
         /\ e.type = "takeover" => e.to \in Commands
         /\ e.type \in {"decided", "queued", "prepared", "accepted", "blocked", "cancel", "reserved",
              "launch_requested", "started", "settled", "pre_effect_cancelled", "terminal", "ready",
              "claim_granted", "claim_released", "slot_released", "slot_claimed", "lease_acquired",
              "barrier_suspended", "barrier_requested", "barrier_released", "takeover"}
  <1>1. CASE e \in DecideEvent BY <1>1 DEF DecideEvent
  <1>2. CASE e \in OfEvent BY <1>2 DEF OfEvent
  <1>3. CASE e \in AttemptEvent BY <1>3 DEF AttemptEvent
  <1>4. CASE e \in KindEvent BY <1>4 DEF KindEvent
  <1>0. CASE e \in GrantEvent BY <1>0 DEF GrantEvent
  <1>5. CASE e \in HeldEvent BY <1>5 DEF HeldEvent
  <1>6. CASE e \in SlotEvent BY <1>6 DEF SlotEvent
  <1>7. CASE e \in OpenEvent BY <1>7 DEF OpenEvent
  <1>8. CASE e \in BarrierEvent BY <1>8 DEF BarrierEvent
  <1>9. CASE e \in ReleaseEvent BY <1>9 DEF ReleaseEvent
  <1>10. CASE e \in TakeoverEvent BY <1>10 DEF TakeoverEvent
  <1> QED BY <1>0, <1>1, <1>2, <1>3, <1>4, <1>5, <1>6, <1>7, <1>8, <1>9, <1>10 DEF Event

LEMMA OneDelegation ==
  ASSUME NEW s \in SessionType, SessionOK(s), NEW t \in SessionType, NEW d \in Delegations,
         t.slots = s.slots, t.claimed = s.claimed, DelegationOK(t, d), GrowAt(s, t, d),
         \A c \in Delegations : c # d =>
           /\ t.status[c] = s.status[c] /\ t.envelopes[c] = s.envelopes[c]
           /\ t.attempts[c] = s.attempts[c] /\ t.receipt[c] = s.receipt[c]
           /\ c \in t.cancels => c \in s.cancels
  PROVE  Follows(s, t)
  <1>1. ASSUME NEW c \in Delegations PROVE DelegationOK(t, c)
    <2>1. CASE c = d BY <2>1
    <2>2. CASE c # d
      <3>1. DelegationOK(s, c) BY DEF SessionOK
      <3> QED BY <2>2, <3>1 DEF DelegationOK
    <2> QED BY <2>1, <2>2
  <1>2. ASSUME NEW c \in Delegations PROVE GrowAt(s, t, c)
    <2>1. CASE c = d BY <2>1
    <2>2. CASE c # d BY <2>2, GrowSame
    <2> QED BY <2>1, <2>2
  <1>3. SessionOK(t) BY <1>1 DEF SessionOK
  <1> QED BY <1>2, <1>3 DEF Follows, Grow

\* An event that changes the status, the receipt or the cancellation only.
StatusChange(s, t, d, v, r, C) == t = [s EXCEPT !.status[d] = v, !.receipt[d] = r, !.cancels = C]

LEMMA StatusEvent ==
  ASSUME NEW s \in SessionType, SessionOK(s), NEW d \in Delegations, NEW t,
         NEW v \in Statuses, NEW r \in {"none"} \cup Known, NEW C \in {s.cancels, s.cancels \cup {d}},
         StatusChange(s, t, d, v, r, C),
         d \in C => v \notin Early,
         v \in Early => s.status[d] \in Early,
         v = "receipt_ready" => r # "none"
  PROVE  Follows(s, t)
  <1>1. t \in SessionType BY DEF SessionType, StatusChange
  <1>2. /\ t.slots = s.slots /\ t.claimed = s.claimed /\ t.attempts = s.attempts
        /\ t.envelopes = s.envelopes /\ t.cancels = C
        /\ t.status[d] = v /\ t.receipt[d] = r
        /\ \A c \in Delegations : c # d => t.status[c] = s.status[c] /\ t.receipt[c] = s.receipt[c]
    BY DEF SessionType, StatusChange
  <1>3. DelegationOK(s, d) BY DEF SessionOK
  <1>4. DelegationOK(t, d) BY <1>2, <1>3 DEF DelegationOK
  <1>5. GrowAt(s, t, d) BY <1>2, GrowSame
  <1>6. \A c \in Delegations : c # d => (c \in t.cancels => c \in s.cancels) BY <1>2
  <1> QED BY <1>1, <1>2, <1>4, <1>5, <1>6, OneDelegation

\* An event that changes the actor's attempt and the status.
AttemptChange(s, t, d, i, r, v) == t = [s EXCEPT !.attempts[d][i] = r, !.status[d] = v]
Advances(s, d, i, r, v) ==
  LET o == s.attempts[d][i] IN
  /\ r.actor = o.actor
  /\ o.bound => r.bound
  /\ o.started => r.started
  /\ r.started => o.started \/ (s.status[d] \in Early /\ v \notin Early)
  /\ o.settled => r.settled
  /\ r.settled => r.terminal # "none"
  /\ o.terminal # "none" => r.terminal # "none"
  /\ d \in s.cancels => v \notin Early
  /\ v \in Early => s.status[d] \in Early
  /\ v = "receipt_ready" => s.status[d] = "receipt_ready"

LEMMA AttemptUpdate ==
  ASSUME NEW s \in SessionType, SessionOK(s), NEW d \in Delegations, NEW t,
         NEW i \in DOMAIN s.attempts[d], NEW r \in AttemptRecord, NEW v \in Statuses,
         AttemptChange(s, t, d, i, r, v), Advances(s, d, i, r, v)
  PROVE  Follows(s, t)
  <1> DEFINE q == s.attempts[d]
             p == [q EXCEPT ![i] = r]
  <1>0. q \in Seq(AttemptRecord) BY DEF SessionType
  <1>1. /\ p \in Seq(AttemptRecord) /\ Len(p) = Len(q) /\ DOMAIN p = DOMAIN q
        /\ \A j \in DOMAIN q : p[j] = IF j = i THEN r ELSE q[j]
    <2> HIDE DEF q
    <2> QED BY <1>0, UpdateAttempt DEF q
  <1> DEFINE A == [s.attempts EXCEPT ![d] = p]
             S == [s.status EXCEPT ![d] = v]
  <1> USE DEF Advances
  <1>2. t = [s EXCEPT !.attempts = A, !.status = S] BY DEF SessionType, AttemptChange
  <1> HIDE DEF p
  <1>a. /\ A \in [Delegations -> Seq(AttemptRecord)] /\ A[d] = p
        /\ \A c \in Delegations : c # d => A[c] = s.attempts[c]
    BY <1>1 DEF SessionType
  <1>b. /\ S \in [Delegations -> Statuses] /\ S[d] = v
        /\ \A c \in Delegations : c # d => S[c] = s.status[c]
    BY DEF SessionType
  <1> HIDE DEF A, S
  <1>3. t \in SessionType BY <1>a, <1>b, <1>2 DEF SessionType
  <1>4. /\ t.slots = s.slots /\ t.claimed = s.claimed /\ t.envelopes = s.envelopes
        /\ t.cancels = s.cancels /\ t.receipt = s.receipt
        /\ t.status[d] = v /\ t.attempts[d] = p
        /\ \A c \in Delegations : c # d => t.status[c] = s.status[c] /\ t.attempts[c] = s.attempts[c]
    BY <1>a, <1>b, <1>2 DEF SessionType
  <1>5. DelegationOK(s, d) BY DEF SessionOK
  <1>6. DelegationOK(t, d)
    <2>1. Len(t.attempts[d]) <= MaxAttempts BY <1>1, <1>4, <1>5 DEF DelegationOK
    <2>2. d \in t.cancels => t.status[d] \notin Early BY <1>4
    <2>3. t.status[d] \in Early => \A j \in DOMAIN t.attempts[d] : ~t.attempts[d][j].started
      BY <1>1, <1>4, <1>5 DEF DelegationOK
    <2>4. \A j, k \in DOMAIN t.attempts[d] :
             t.attempts[d][j].started /\ t.attempts[d][k].started => j = k
      BY <1>1, <1>4, <1>5 DEF DelegationOK
    <2>5. \A j \in DOMAIN t.attempts[d] : t.attempts[d][j].settled => t.attempts[d][j].terminal # "none"
      BY <1>1, <1>4, <1>5 DEF DelegationOK
    <2>6. t.status[d] = "receipt_ready" => t.receipt[d] # "none" BY <1>4, <1>5 DEF DelegationOK
    <2>7. \A j \in DOMAIN t.attempts[d] :
            /\ t.claimed[d][t.attempts[d][j].actor] # 0
            /\ t.envelopes[d] >= t.attempts[d][j].actor
      BY <1>1, <1>4, <1>5 DEF DelegationOK
    <2> QED BY <2>1, <2>2, <2>3, <2>4, <2>5, <2>6, <2>7 DEF DelegationOK
  <1>7. GrowAt(s, t, d)
    <2>1. s.envelopes[d] \in 0..2 /\ Len(s.attempts[d]) \in Nat BY SessionFields
    <2> QED BY <1>1, <1>4, <2>1 DEF GrowAt
  <1>8. \A c \in Delegations : c # d =>
          /\ t.status[c] = s.status[c] /\ t.envelopes[c] = s.envelopes[c]
          /\ t.attempts[c] = s.attempts[c] /\ t.receipt[c] = s.receipt[c]
          /\ c \in t.cancels => c \in s.cancels
    BY <1>4
  <1>9. t.slots = s.slots /\ t.claimed = s.claimed BY <1>4
  <1> QED BY <1>3, <1>6, <1>7, <1>8, <1>9, OneDelegation, Zenon

LEMMA StatusOnly ==
  ASSUME NEW s \in SessionType, SessionOK(s), NEW d \in Delegations, NEW v \in Statuses,
         d \in s.cancels => v \notin Early, v \in Early => s.status[d] \in Early,
         v # "receipt_ready"
  PROVE  Follows(s, [s EXCEPT !.status[d] = v])
  <1> DEFINE t == [s EXCEPT !.status[d] = v]
  <1>1. StatusChange(s, t, d, v, s.receipt[d], s.cancels) BY DEF SessionType, StatusChange
  <1>2. s.receipt[d] \in {"none"} \cup Known BY SessionFields
  <1> HIDE DEF t
  <1>3. Follows(s, t) BY <1>1, <1>2, StatusEvent
  <1> QED BY <1>3 DEF t

LEMMA DecidedEvents ==
  ASSUME NEW s \in SessionType, SessionOK(s), NEW e \in Event, Admissible(s, e),
         e.type \in {"decided", "queued", "accepted", "blocked"}
  PROVE  Follows(s, Apply(s, e))
  <1>1. e.d \in Delegations BY EventFields
  <1>2. DelegationOK(s, e.d) BY <1>1 DEF SessionOK
  <1>3. CASE e.type = "decided"
    <2>1. Apply(s, e) = [s EXCEPT !.status[e.d] = e.kind] BY <1>3 DEF Apply
    <2>2. s.status[e.d] = "draft" BY <1>3 DEF Admissible
    <2>3. e.kind \in {"approved", "rejected"} BY <1>3, EventFields
    <2>4. e.kind \in Statuses /\ e.kind # "receipt_ready" BY <2>3 DEF Statuses
    <2>5. s.status[e.d] \in Early /\ e.d \notin s.cancels BY <1>2, <2>2 DEF DelegationOK, Early
    <2> QED BY <1>1, <2>1, <2>4, <2>5, StatusOnly
  <1>4. CASE e.type = "queued"
    <2>1. Apply(s, e) = [s EXCEPT !.status[e.d] = "queued"] BY <1>4 DEF Apply
    <2>2. s.status[e.d] = "approved" BY <1>4 DEF Admissible
    <2> QED BY <1>1, <1>2, <2>1, <2>2, StatusOnly DEF DelegationOK, Early, Statuses
  <1>5. CASE e.type = "accepted"
    <2>1. Apply(s, e) = [s EXCEPT !.status[e.d] = s.receipt[e.d]] BY <1>5 DEF Apply
    <2>2. s.status[e.d] = "receipt_ready" BY <1>5 DEF Admissible
    <2>3. s.receipt[e.d] \in {"none"} \cup Known BY <1>1, SessionFields
    <2>4. s.receipt[e.d] \in Known BY <1>2, <2>2, <2>3 DEF DelegationOK
    <2>5. /\ s.receipt[e.d] \in Statuses /\ s.receipt[e.d] \notin Early
          /\ s.receipt[e.d] # "receipt_ready"
      BY <2>4 DEF Known, Early, Statuses
    <2> QED BY <1>1, <2>1, <2>5, StatusOnly
  <1>6. CASE e.type = "blocked"
    <2>1. Apply(s, e) = [s EXCEPT !.status[e.d] = "blocked"] BY <1>6 DEF Apply
    <2>2. "blocked" \in Statuses /\ "blocked" \notin Early BY DEF Statuses, Early
    <2> QED BY <1>1, <2>1, <2>2, StatusOnly
  <1> QED BY <1>3, <1>4, <1>5, <1>6

LEMMA CancelEvent ==
  ASSUME NEW s \in SessionType, SessionOK(s), NEW e \in Event, Admissible(s, e), e.type = "cancel"
  PROVE  Follows(s, Apply(s, e))
  <1>1. e.d \in Delegations BY EventFields
  <1>2. Apply(s, e) = [s EXCEPT !.cancels = @ \cup {e.d}, !.status[e.d] = "cancelling"]
    BY DEF Apply
  <1>3. StatusChange(s, Apply(s, e), e.d, "cancelling", s.receipt[e.d], s.cancels \cup {e.d})
    BY <1>1, <1>2, ZenonT(60) DEF SessionType, StatusChange
  <1>4. "cancelling" \in Statuses \ Early BY DEF Statuses, Early
  <1>5. s.receipt[e.d] \in {"none"} \cup Known BY <1>1, SessionFields
  <1> HIDE DEF Apply
  <1> QED BY <1>1, <1>3, <1>4, <1>5, StatusEvent, ZenonT(60)

LEMMA ReadyEvent ==
  ASSUME NEW s \in SessionType, SessionOK(s), NEW e \in Event, Admissible(s, e), Fits(s, e),
         e.type = "ready"
  PROVE  Follows(s, Apply(s, e))
  <1>1. e.d \in Delegations BY EventFields
  <1>2. Apply(s, e) = [s EXCEPT !.receipt[e.d] = e.kind, !.status[e.d] = "receipt_ready"]
    BY DEF Apply
  <1>3. StatusChange(s, Apply(s, e), e.d, "receipt_ready", e.kind, s.cancels)
    BY <1>1, <1>2 DEF SessionType, StatusChange
  <1>4. "receipt_ready" \in Statuses \ Early BY DEF Statuses, Early
  <1>5. e.kind \in Known /\ e.kind # "none" BY DEF Fits, Known
  <1> QED BY <1>1, <1>3, <1>4, <1>5, StatusEvent

LEMMA PreparedEvent ==
  ASSUME NEW s \in SessionType, SessionOK(s), NEW e \in Event, Admissible(s, e), e.type = "prepared"
  PROVE  Follows(s, Apply(s, e))
  <1> DEFINE t == Apply(s, e)
             d == e.d
  <1>1. d \in Delegations BY EventFields
  <1> DEFINE E == [s.envelopes EXCEPT ![d] = @ + 1]
  <1>2. t = [s EXCEPT !.envelopes = E] BY DEF Apply
  <1>3. s.envelopes[d] \in {0, 1} BY DEF Admissible
  <1>a. /\ E \in [Delegations -> 0..2] /\ E[d] = s.envelopes[d] + 1
        /\ \A c \in Delegations : c # d => E[c] = s.envelopes[c]
    BY <1>1, <1>3 DEF SessionType
  <1> HIDE DEF t, E
  <1>4. t \in SessionType BY <1>2, <1>a DEF SessionType
  <1>5. /\ t.slots = s.slots /\ t.claimed = s.claimed /\ t.attempts = s.attempts
        /\ t.status = s.status /\ t.cancels = s.cancels /\ t.receipt = s.receipt
        /\ t.envelopes[d] = s.envelopes[d] + 1
        /\ \A c \in Delegations : c # d => t.envelopes[c] = s.envelopes[c]
    BY <1>2, <1>a DEF SessionType
  <1>6. DelegationOK(s, d) BY <1>1 DEF SessionOK
  <1>7. \A i \in DOMAIN s.attempts[d] : s.attempts[d][i].actor \in 1..2
    <2>1. \A i \in DOMAIN s.attempts[d] : s.attempts[d][i] \in AttemptRecord BY <1>1, SessionFields
    <2> QED BY <2>1 DEF AttemptRecord
  <1>8. DelegationOK(t, d) BY <1>3, <1>5, <1>6, <1>7, SMTT(30) DEF DelegationOK
  <1>9. GrowAt(s, t, d)
    <2>1. Len(s.attempts[d]) \in Nat BY <1>1, SessionFields
    <2> QED BY <1>3, <1>5, <2>1 DEF GrowAt
  <1>10. \A c \in Delegations : c # d =>
          /\ t.status[c] = s.status[c] /\ t.envelopes[c] = s.envelopes[c]
          /\ t.attempts[c] = s.attempts[c] /\ t.receipt[c] = s.receipt[c]
          /\ c \in t.cancels => c \in s.cancels
    BY <1>5
  <1>11. Follows(s, t) BY <1>1, <1>4, <1>5, <1>8, <1>9, <1>10, OneDelegation
  <1> QED BY <1>11 DEF t

LEMMA ReservedEvent ==
  ASSUME NEW s \in SessionType, SessionOK(s), NEW e \in Event, Admissible(s, e), Fits(s, e),
         e.type = "reserved"
  PROVE  Follows(s, Apply(s, e))
  <1> DEFINE t == Apply(s, e)
             d == e.d
             q == s.attempts[d]
             p == Append(q, NewAttempt(e.n))
  <1>1. d \in Delegations /\ e.n \in 1..2 BY EventFields DEF Fits
  <1>2. t = [s EXCEPT !.attempts[d] = p] BY DEF Apply
  <1>3. q \in Seq(AttemptRecord) /\ Len(q) \in Nat /\ DOMAIN q = 1 .. Len(q) BY <1>1, SessionFields
  <1>4. NewAttempt(e.n) \in AttemptRecord BY <1>1 DEF NewAttempt, AttemptRecord, Terminals
  <1>5. /\ p \in Seq(AttemptRecord) /\ Len(p) = Len(q) + 1 /\ DOMAIN p = 1 .. Len(q) + 1
        /\ p[Len(q) + 1] = NewAttempt(e.n)
        /\ \A i \in 1 .. Len(q) : p[i] = q[i]
    <2> HIDE DEF q, AttemptRecord
    <2> QED BY <1>3, <1>4
  <1> HIDE DEF p, t
  <1>6. t \in SessionType BY <1>1, <1>2, <1>5 DEF SessionType
  <1>7. /\ t.slots = s.slots /\ t.claimed = s.claimed /\ t.envelopes = s.envelopes
        /\ t.status = s.status /\ t.cancels = s.cancels /\ t.receipt = s.receipt
        /\ t.attempts[d] = p
        /\ \A c \in Delegations : c # d => t.attempts[c] = s.attempts[c]
    BY <1>1, <1>2 DEF SessionType
  <1>8. DelegationOK(s, d) BY <1>1 DEF SessionOK
  <1>9. s.status[d] = "queued" /\ Len(q) < MaxAttempts BY DEF Admissible
  <1>10. /\ NewAttempt(e.n).actor = e.n /\ ~NewAttempt(e.n).started /\ ~NewAttempt(e.n).settled
         /\ s.claimed[d][e.n] # 0 /\ s.envelopes[d] >= e.n
    BY <1>1, SessionFields DEF NewAttempt, Fits
  <1>11. DelegationOK(t, d)
    <2>1. \A j \in DOMAIN p : j \in DOMAIN q \/ j = Len(q) + 1 BY <1>3, <1>5
    <2>2. Len(p) <= MaxAttempts BY <1>3, <1>5, <1>9, DelegationAssumption
    <2>3. \A j \in DOMAIN p : ~p[j].started
      BY <1>3, <1>5, <1>8, <1>9, <1>10, <2>1 DEF DelegationOK, Early
    <2>4. \A j \in DOMAIN p : p[j].settled => p[j].terminal # "none"
      BY <1>3, <1>5, <1>8, <1>10, <2>1 DEF DelegationOK
    <2>5. \A j \in DOMAIN p : s.claimed[d][p[j].actor] # 0 /\ s.envelopes[d] >= p[j].actor
      BY <1>3, <1>5, <1>8, <1>10, <2>1 DEF DelegationOK
    <2>6. (d \in s.cancels => s.status[d] \notin Early) /\ s.status[d] # "receipt_ready"
      BY <1>8, <1>9 DEF DelegationOK
    <2> QED BY <1>7, <2>2, <2>3, <2>4, <2>5, <2>6 DEF DelegationOK
  <1>12. GrowAt(s, t, d)
    <2>1. s.envelopes[d] \in 0..2 BY <1>1, SessionFields
    <2> QED BY <1>3, <1>5, <1>7, <2>1 DEF GrowAt
  <1>13. \A c \in Delegations : c # d =>
          /\ t.status[c] = s.status[c] /\ t.envelopes[c] = s.envelopes[c]
          /\ t.attempts[c] = s.attempts[c] /\ t.receipt[c] = s.receipt[c]
          /\ c \in t.cancels => c \in s.cancels
    BY <1>7
  <1>14. Follows(s, t) BY <1>1, <1>6, <1>7, <1>11, <1>12, <1>13, OneDelegation
  <1> QED BY <1>14 DEF t

\* The events about an attempt that is there.
LEMMA AttemptEvents ==
  ASSUME NEW s \in SessionType, SessionOK(s), NEW e \in Event, Admissible(s, e), Fits(s, e),
         \/ e.type \in {"launch_requested", "started", "terminal", "settled"}
         \/ e.type = "pre_effect_cancelled" /\ e.n # 0
  PROVE  Follows(s, Apply(s, e))
  <1> DEFINE d == e.d
             i == At(s, d, e.n)
             o == s.attempts[d][i]
  <1>1. d \in Delegations /\ e.n \in 1..2 /\ Has(s, d, e.n) BY EventFields DEF Fits
  <1>2. DelegationOK(s, d) BY <1>1 DEF SessionOK
  <1>3. Len(s.attempts[d]) \in Nat /\ Len(s.attempts[d]) <= 2
    BY <1>1, <1>2, SessionFields, DelegationAssumption DEF DelegationOK
  <1>4. i \in DOMAIN s.attempts[d]
    <2> HIDE DEF d
    <2> QED BY <1>1, <1>3, AtFacts
  <1>5. /\ o \in AttemptRecord /\ s.status[d] \in Statuses
        /\ o.settled => o.terminal # "none"
        /\ d \in s.cancels => s.status[d] \notin Early
    <2> HIDE DEF d, i
    <2> QED BY <1>1, <1>2, <1>4, SessionFields DEF DelegationOK
  <1>a. Attempt(s, d, e.n) = o BY DEF Attempt
  <1>b. /\ o = [actor |-> o.actor, bound |-> o.bound, started |-> o.started,
                terminal |-> o.terminal, settled |-> o.settled]
        /\ o.actor \in 1..2 /\ o.bound \in BOOLEAN /\ o.started \in BOOLEAN
        /\ o.terminal \in Terminals /\ o.settled \in BOOLEAN
    <2> HIDE DEF o
    <2> QED BY <1>5 DEF AttemptRecord
  <1>6. CASE e.type = "launch_requested"
    <2> DEFINE r == [o EXCEPT !.bound = TRUE]
    <2>1. Apply(s, e) = [s EXCEPT !.attempts[d][i].bound = TRUE] BY <1>6 DEF Apply
    <2>2. AttemptChange(s, Apply(s, e), d, i, r, s.status[d])
      BY <1>1, <1>4, <2>1, ZenonT(60) DEF SessionType, AttemptChange
    <2>3. /\ r \in AttemptRecord /\ r.actor = o.actor /\ r.started = o.started
          /\ r.settled = o.settled /\ r.terminal = o.terminal /\ r.bound
      <3> HIDE DEF o
      <3> QED BY <1>b DEF AttemptRecord
    <2> HIDE DEF r, i
    <2>8. Advances(s, d, i, r, s.status[d])
      <3> HIDE DEF d
      <3> QED BY <1>5, <2>3 DEF Advances
    <2> HIDE DEF d, o
    <2> QED BY <1>1, <1>4, <1>5, <2>2, <2>3, <2>8, AttemptUpdate
  <1>7. CASE e.type = "started"
    <2> DEFINE r == [o EXCEPT !.started = TRUE]
    <2>1. Apply(s, e) = [s EXCEPT !.attempts[d][i].started = TRUE, !.status[d] = "active"]
      BY <1>7 DEF Apply
    <2>2. AttemptChange(s, Apply(s, e), d, i, r, "active")
      BY <1>1, <1>4, <2>1 DEF SessionType, AttemptChange
    <2>3. /\ r \in AttemptRecord /\ r.actor = o.actor /\ r.bound = o.bound
          /\ r.settled = o.settled /\ r.terminal = o.terminal /\ r.started
      <3> HIDE DEF o
      <3> QED BY <1>b DEF AttemptRecord
    <2>4. "active" \in Statuses \ Early /\ s.status[d] \in Early
      BY <1>7 DEF Statuses, Early, Admissible
    <2> HIDE DEF r, i
    <2>8. Advances(s, d, i, r, "active")
      <3> HIDE DEF d
      <3> QED BY <1>5, <2>3, <2>4 DEF Advances
    <2> HIDE DEF d, o
    <2> QED BY <1>1, <1>4, <1>5, <2>2, <2>3, <2>4, <2>8, AttemptUpdate
  <1>8. CASE e.type = "settled"
    <2> DEFINE r == [o EXCEPT !.settled = TRUE]
    <2>1. Apply(s, e) = [s EXCEPT !.attempts[d][i].settled = TRUE] BY <1>8 DEF Apply
    <2>2. AttemptChange(s, Apply(s, e), d, i, r, s.status[d])
      BY <1>1, <1>4, <2>1, ZenonT(60) DEF SessionType, AttemptChange
    <2>3. /\ r \in AttemptRecord /\ r.actor = o.actor /\ r.started = o.started
          /\ r.bound = o.bound /\ r.terminal = o.terminal /\ r.settled
      <3> HIDE DEF o
      <3> QED BY <1>b DEF AttemptRecord
    <2>4. o.terminal # "none" BY <1>8, <1>a DEF Admissible
    <2> HIDE DEF r, i
    <2>8. Advances(s, d, i, r, s.status[d])
      <3> HIDE DEF d
      <3> QED BY <1>5, <2>3, <2>4 DEF Advances
    <2> HIDE DEF d, o
    <2> QED BY <1>1, <1>4, <1>5, <2>2, <2>3, <2>4, <2>8, AttemptUpdate
  <1>9. CASE e.type = "pre_effect_cancelled"
    <2> DEFINE r == [o EXCEPT !.terminal = "cancelled_clean"]
    <2>1. Apply(s, e) = [s EXCEPT !.status[d] = "cancelled",
                                  !.attempts[d] = [@ EXCEPT ![i].terminal = "cancelled_clean"]]
      BY <1>9 DEF Apply
    <2>2. AttemptChange(s, Apply(s, e), d, i, r, "cancelled")
      BY <1>1, <1>4, <2>1 DEF SessionType, AttemptChange
    <2>3. /\ r \in AttemptRecord /\ r.actor = o.actor /\ r.started = o.started
          /\ r.bound = o.bound /\ r.settled = o.settled /\ r.terminal = "cancelled_clean"
      <3> HIDE DEF o
      <3> QED BY <1>b DEF AttemptRecord, Terminals
    <2>4. "cancelled" \in Statuses \ Early BY DEF Statuses, Early
    <2> HIDE DEF r, i
    <2>8. Advances(s, d, i, r, "cancelled")
      <3> HIDE DEF d
      <3> QED BY <1>5, <2>3, <2>4 DEF Advances
    <2> HIDE DEF d, o
    <2> QED BY <1>1, <1>4, <1>5, <2>2, <2>3, <2>4, <2>8, AttemptUpdate
  <1>10. CASE e.type = "terminal"
    <2> DEFINE r == [o EXCEPT !.terminal = e.kind]
               v == AfterTerminal(s, d, e.kind)
    <2>1. Apply(s, e) = [s EXCEPT !.attempts[d][i].terminal = e.kind, !.status[d] = v]
      BY <1>10 DEF Apply
    <2>2. AttemptChange(s, Apply(s, e), d, i, r, v)
      <3> HIDE DEF v
      <3> QED BY <1>1, <1>4, <2>1 DEF SessionType, AttemptChange
    <2>3. /\ r \in AttemptRecord /\ r.actor = o.actor /\ r.started = o.started
          /\ r.bound = o.bound /\ r.settled = o.settled
      <3>1. e.kind \in Terminals BY <1>10 DEF Fits
      <3> HIDE DEF o
      <3> QED BY <1>b, <3>1 DEF AttemptRecord
    <2>4. o.terminal = "none" /\ ~o.settled BY <1>10, <1>a, <1>5 DEF Admissible
    <2>5. e.kind = "pre_effect" => s.status[d] = "queued" BY <1>10 DEF Admissible
    <2>6. v \in {"queued", "failed", "cancelled", "reconciling"} /\ (v = "queued" => e.kind = "pre_effect")
      BY DEF AfterTerminal
    <2>7. v \in Statuses /\ (v \in Early => s.status[d] \in Early) /\ v # "receipt_ready"
          /\ (d \in s.cancels => v \notin Early)
      <3> HIDE DEF v
      <3> QED BY <2>5, <2>6, <1>5 DEF Statuses, Early
    <2> HIDE DEF r, i, v
    <2>8. Advances(s, d, i, r, v)
      <3> HIDE DEF d
      <3> QED BY <1>5, <2>3, <2>4, <2>7 DEF Advances
    <2> HIDE DEF d, o
    <2> QED BY <1>1, <1>4, <1>5, <2>2, <2>3, <2>4, <2>7, <2>8, AttemptUpdate
  <1> QED BY <1>6, <1>7, <1>8, <1>9, <1>10

LEMMA UnlaunchedEvent ==
  ASSUME NEW s \in SessionType, SessionOK(s), NEW e \in Event, Admissible(s, e),
         e.type = "pre_effect_cancelled", e.n = 0
  PROVE  Follows(s, Apply(s, e))
  <1>1. e.d \in Delegations BY EventFields
  <1>2. Apply(s, e) = [s EXCEPT !.status[e.d] = "cancelled", !.attempts[e.d] = @] BY DEF Apply
  <1>3. Apply(s, e) = [s EXCEPT !.status[e.d] = "cancelled"] BY <1>1, <1>2, ZenonT(60) DEF SessionType
  <1>4. "cancelled" \in Statuses \ Early BY DEF Statuses, Early
  <1> QED BY <1>1, <1>3, <1>4, StatusOnly

\* The events about slots, claims, barriers and leases.
LEMMA BookFollows ==
  ASSUME NEW s \in SessionType, SessionOK(s), NEW t \in SessionType,
         t.status = s.status, t.envelopes = s.envelopes, t.attempts = s.attempts,
         t.receipt = s.receipt, t.cancels = s.cancels,
         \A d \in Delegations : \A n \in 1..2 : s.claimed[d][n] # 0 => t.claimed[d][n] # 0,
         \A x \in t.slots : t.claimed[x.actor[1]][x.actor[2]] # 0
  PROVE  Follows(s, t)
  <1>1. ASSUME NEW d \in Delegations PROVE DelegationOK(t, d) /\ GrowAt(s, t, d)
    <2>1. DelegationOK(s, d) BY DEF SessionOK
    <2>2. /\ \A i \in DOMAIN s.attempts[d] : s.attempts[d][i] \in AttemptRecord
          /\ s.envelopes[d] \in 0..2 /\ Len(s.attempts[d]) \in Nat
      BY SessionFields
    <2>3. \A i \in DOMAIN s.attempts[d] : s.attempts[d][i].actor \in 1..2 BY <2>2 DEF AttemptRecord
    <2>4. DelegationOK(t, d) BY <2>1, <2>3 DEF DelegationOK
    <2>5. GrowAt(s, t, d) BY <2>2 DEF GrowAt
    <2> QED BY <2>4, <2>5
  <1> QED BY <1>1 DEF Follows, Grow, SessionOK

LEMMA BookEvents ==
  ASSUME NEW s \in SessionType, SessionOK(s), NEW e \in Event, Admissible(s, e),
         e.type \in {"slot_claimed", "slot_released", "claim_granted", "claim_released",
                     "barrier_requested", "barrier_suspended", "barrier_released",
                     "lease_acquired", "takeover"}
  PROVE  Follows(s, Apply(s, e))
  <1> DEFINE t == Apply(s, e)
  <1>0. \A x \in s.slots : x.actor \in Actors /\ s.claimed[x.actor[1]][x.actor[2]] # 0
    BY DEF SessionOK, SessionType
  <1>1. CASE e.type = "slot_claimed"
    <2> DEFINE x == [actor |-> ActorOf(e), group |-> e.group, slot |-> e.slot]
               C == [s.claimed EXCEPT ![e.d][e.n] = e.group]
    <2>1. e.d \in Delegations /\ e.n \in 1..2 /\ e.group \in Commands /\ e.slot \in 1..2
      BY <1>1, EventFields
    <2>2. t = [s EXCEPT !.slots = @ \cup {x}, !.claimed = C] BY <1>1 DEF Apply
    <2>3. ActorOf(e) \in Actors /\ ActorOf(e)[1] = e.d /\ ActorOf(e)[2] = e.n
      BY <2>1 DEF ActorOf, Actors
    <2>4. x \in [actor : Actors, group : Commands, slot : 1..2] /\ x.actor = ActorOf(e) BY <2>1, <2>3
    <2>5. e.group # 0 /\ e.group \in 0..MaxCommands BY <2>1 DEF Commands
    <2>6. /\ C \in [Delegations -> [1..2 -> 0..MaxCommands]] /\ C[e.d][e.n] = e.group
          /\ \A d \in Delegations : \A n \in 1..2 : d # e.d \/ n # e.n => C[d][n] = s.claimed[d][n]
      BY <2>1, <2>5 DEF SessionType
    <2> HIDE DEF x, C, t
    <2>7. t \in SessionType BY <2>2, <2>4, <2>6 DEF SessionType
    <2>8. /\ t.status = s.status /\ t.envelopes = s.envelopes /\ t.attempts = s.attempts
          /\ t.receipt = s.receipt /\ t.cancels = s.cancels /\ t.claimed = C
          /\ t.slots = s.slots \cup {x}
      BY <2>2 DEF SessionType
    <2>9. \A d \in Delegations : \A n \in 1..2 : s.claimed[d][n] # 0 => C[d][n] # 0 BY <2>5, <2>6
    <2>10. ASSUME NEW y \in t.slots PROVE C[y.actor[1]][y.actor[2]] # 0
      <3>1. CASE y = x BY <2>3, <2>4, <2>5, <2>6, <3>1
      <3>2. CASE y \in s.slots BY <1>0, <2>9, <3>2 DEF Actors
      <3> QED BY <2>8, <3>1, <3>2
    <2>11. Follows(s, t) BY <2>7, <2>8, <2>9, <2>10, BookFollows
    <2> QED BY <2>11 DEF t
  <1>2. CASE e.type # "slot_claimed"
    <2>1. /\ t \in SessionType
          /\ t.status = s.status /\ t.envelopes = s.envelopes /\ t.attempts = s.attempts
          /\ t.receipt = s.receipt /\ t.cancels = s.cancels /\ t.claimed = s.claimed
          /\ t.slots \subseteq s.slots
      <3>1. CASE e.type = "slot_released"
        <4>1. t = [s EXCEPT !.slots = {x \in @ : ~(x.actor = ActorOf(e) /\ x.group = e.group)}]
          BY <3>1 DEF Apply
        <4> HIDE DEF t
        <4> QED BY <4>1 DEF SessionType
      <3>2. CASE e.type = "claim_granted"
        <4> DEFINE x == [actor |-> ActorOf(e), group |-> e.group]
        <4>1. t = [s EXCEPT !.claims = @ \cup {x}] BY <3>2 DEF Apply
        <4>2. x \in [actor : Actors, group : Commands]
          BY <3>2, EventFields DEF ActorOf, Actors
        <4> HIDE DEF t, x
        <4> QED BY <4>1, <4>2 DEF SessionType
      <3>3. CASE e.type = "claim_released"
        <4>1. t = [s EXCEPT !.claims = {x \in @ : ~(x.actor = ActorOf(e) /\ x.group = e.group)}]
          BY <3>3 DEF Apply
        <4> HIDE DEF t
        <4> QED BY <4>1 DEF SessionType
      <3>4. CASE e.type \in {"barrier_requested", "barrier_suspended", "barrier_released"}
        <4> DEFINE b == IF e.type = "barrier_requested" THEN [status |-> "requested", required |-> e.required]
                        ELSE [s.barriers[e.group] EXCEPT !.status =
                                IF e.type = "barrier_suspended" THEN "suspended" ELSE e.kind]
        <4>1. e.group \in Commands BY <3>4, EventFields
        <4>2. t = [s EXCEPT !.barriers = [@ EXCEPT ![e.group] = b]] BY <3>4 DEF Apply
        <4>3. b \in [status : {"none", "requested", "suspended", "completed", "cancelled", "blocked"},
                     required : SUBSET Delegations]
          <5>1. s.barriers[e.group] \in
                  [status : {"none", "requested", "suspended", "completed", "cancelled", "blocked"},
                   required : SUBSET Delegations]
            BY <4>1 DEF SessionType
          <5>2. /\ e.type = "barrier_requested" => e.required \subseteq Delegations
                /\ e.type = "barrier_released" => e.kind \in {"completed", "cancelled", "blocked"}
            BY EventFields
          <5> QED BY <3>4, <5>1, <5>2
        <4> HIDE DEF t, b
        <4> QED BY <4>1, <4>2, <4>3 DEF SessionType
      <3>5. CASE e.type \in {"lease_acquired", "takeover"}
        <4> DEFINE v == IF e.type = "takeover" THEN e.to ELSE e.group
        <4>1. e.group \in Commands BY <3>5, EventFields
        <4>2. t = [s EXCEPT !.nonce = [@ EXCEPT ![e.group] = v]] BY <3>5 DEF Apply
        <4>3. v \in 0..MaxCommands BY <3>5, <4>1, EventFields DEF Commands
        <4> HIDE DEF t, v
        <4> QED BY <4>1, <4>2, <4>3 DEF SessionType
      <3> QED BY <1>2, <3>1, <3>2, <3>3, <3>4, <3>5
    <2> HIDE DEF t
    <2>2. \A x \in t.slots : t.claimed[x.actor[1]][x.actor[2]] # 0 BY <1>0, <2>1
    <2>3. Follows(s, t) BY <2>1, <2>2, BookFollows
    <2> QED BY <2>3 DEF t
  <1> QED BY <1>1, <1>2

\* Every event the projector accepts and that fits leaves a sound projection.
LEMMA ApplyFollows ==
  ASSUME NEW s \in SessionType, SessionOK(s), NEW e \in Event, Admissible(s, e), Fits(s, e)
  PROVE  Follows(s, Apply(s, e))
  <1>1. e.type \in {"decided", "queued", "prepared", "accepted", "blocked", "cancel", "reserved",
              "launch_requested", "started", "settled", "pre_effect_cancelled", "terminal", "ready",
              "claim_granted", "claim_released", "slot_released", "slot_claimed", "lease_acquired",
              "barrier_suspended", "barrier_requested", "barrier_released", "takeover"}
    BY EventFields
  <1>2. CASE e.type \in {"decided", "queued", "accepted", "blocked"} BY <1>2, DecidedEvents
  <1>3. CASE e.type \in {"launch_requested", "started", "terminal", "settled"}
    BY <1>3, AttemptEvents
  <1>4. CASE e.type = "pre_effect_cancelled"
    <2>1. e.n = 0 \/ e.n # 0 OBVIOUS
    <2> QED BY <1>4, <2>1, AttemptEvents, UnlaunchedEvent
  <1> QED BY <1>1, <1>2, <1>3, <1>4, CancelEvent, ReadyEvent, PreparedEvent, ReservedEvent, BookEvents

-----------------------------------------------------------------------------
(* What a step of somebody else leaves true. *)

LEMMA GrowRefl ==
  ASSUME NEW s \in SessionType PROVE Grow(s, s)
  BY GrowSame DEF Grow

LEMMA HasInRange ==
  ASSUME NEW s \in SessionType, NEW d \in Delegations, NEW n, Has(s, d, n)
  PROVE  n \in 1..2
  <1>1. \A i \in DOMAIN s.attempts[d] : s.attempts[d][i] \in AttemptRecord BY SessionFields
  <1> QED BY <1>1 DEF Has, AttemptRecord

LEMMA AttemptsBound ==
  ASSUME NEW s \in SessionType, SessionOK(s), NEW d \in Delegations
  PROVE  Len(s.attempts[d]) <= 2
  <1>1. Len(s.attempts[d]) \in Nat BY SessionFields
  <1> QED BY <1>1, DelegationAssumption DEF SessionOK, DelegationOK

\* The session goes on: what it said of attempts and envelopes stays.
Goes == session' \in SessionType /\ SessionOK(session)' /\ Grow(session, session')

LEMMA GoesKeeps ==
  ASSUME Types, Goes, NEW d \in Delegations, NEW n
  PROVE  /\ HasAttempt(session, <<d, n>>) => HasAttempt(session', <<d, n>>)
         /\ IsBound(session, <<d, n>>) => IsBound(session', <<d, n>>)
         /\ IsStarted(session, <<d, n>>) => IsStarted(session', <<d, n>>)
         /\ IsSettled(session, <<d, n>>) => IsSettled(session', <<d, n>>)
         /\ n \in 1..2 /\ IsClaimed(session, <<d, n>>) => IsClaimed(session', <<d, n>>)
         /\ session.envelopes[d] <= session'.envelopes[d]
         /\ session.attempts[d] # <<>> => session'.attempts[d] # <<>>
  <1>1. session \in SessionType BY DEF Types
  <1>2. Len(session'.attempts[d]) <= 2 BY AttemptsBound DEF Goes
  <1>3. ASSUME Has(session, d, n)
        PROVE  /\ Has(session', d, n)
               /\ Attempt(session, d, n).bound => Attempt(session', d, n).bound
               /\ Attempt(session, d, n).started => Attempt(session', d, n).started
               /\ Attempt(session, d, n).settled => Attempt(session', d, n).settled
    <2>1. n \in 1..2 BY <1>1, <1>3, HasInRange
    <2> QED BY <1>1, <1>2, <1>3, <2>1, GrowKeeps DEF Goes
  <1>4. GrowAt(session, session', d) BY DEF Goes, Grow
  <1>5. session.attempts[d] # <<>> => session'.attempts[d] # <<>>
    <2>1. /\ session.attempts[d] \in Seq(AttemptRecord)
          /\ session'.attempts[d] \in Seq(AttemptRecord)
      BY <1>1, SessionFields DEF Goes
    <2>2. Len(session.attempts[d]) <= Len(session'.attempts[d]) BY <1>4 DEF GrowAt
    <2> QED BY <2>1, <2>2
  <1>6. session.envelopes[d] <= session'.envelopes[d] BY <1>4 DEF GrowAt
  <1>7. n \in 1..2 /\ session.claimed[d][n] # 0 => session'.claimed[d][n] # 0 BY <1>4 DEF GrowAt
  <1> QED BY <1>3, <1>5, <1>6, <1>7 DEF HasAttempt, IsBound, IsStarted, IsSettled, IsClaimed

LEMMA StillGoes ==
  ASSUME Inv, UNCHANGED session PROVE Goes
  BY GrowRefl DEF Inv, Types, Goes

LEMMA LaunchFrame ==
  ASSUME Inv, Goes, NEW h \in Commands, NEW e \in Delegations,
         thr'[h][e] = thr[h][e],
         thr[h][e].pc # "idle" => cmd'[h].pc = cmd[h].pc /\ cmd'[h].adm = cmd[h].adm,
         thr[h][e].pc = "holding" => UNCHANGED writer,
         thr[h][e].pc = "sending" => UNCHANGED <<writer, session>>
  PROVE  LaunchOK(h, e)' /\ (Danger(h, e)' <=> Danger(h, e))
  <1> DEFINE n == thr[h][e].n
             a == <<e, n>>
  <1>1. LaunchOK(h, e) BY DEF Inv
  <1>2. /\ HasAttempt(session, a) => HasAttempt(session', a)
        /\ IsBound(session, a) => IsBound(session', a)
        /\ IsStarted(session, a) => IsStarted(session', a)
        /\ IsSettled(session, a) => IsSettled(session', a)
        /\ n \in 1..2 /\ IsClaimed(session, a) => IsClaimed(session', a)
        /\ session.envelopes[e] <= session'.envelopes[e]
    <2> HIDE DEF n
    <2> QED BY GoesKeeps DEF Inv
  <1>3. Danger(h, e)' <=> Danger(h, e) BY DEF Danger
  <1>4. session.envelopes[e] \in 0..2 /\ session'.envelopes[e] \in 0..2
    BY SessionFields DEF Inv, Types, Goes
  <1>5. <<e, thr'[h][e].n>> = a OBVIOUS
  <1> HIDE DEF HasAttempt, IsBound, IsStarted, IsSettled, IsClaimed, Danger
  <1>6. LaunchOK(h, e)' BY <1>1, <1>2, <1>3, <1>4, <1>5 DEF LaunchOK
  <1> QED BY <1>3, <1>6

LEMMA CommandFrame ==
  ASSUME Inv, Goes, NEW h \in Commands,
         cmd'[h].pc = cmd[h].pc, cmd'[h].sel = cmd[h].sel, cmd'[h].n = cmd[h].n,
         cmd'[h].adm = cmd[h].adm, cmd'[h].grp = cmd[h].grp,
         cmd[h].pc = "holding" => UNCHANGED writer
  PROVE  CommandOK(h)'
  <1> DEFINE d == cmd[h].sel
             a == <<d, cmd[h].n>>
  <1>1. CommandOK(h) BY DEF Inv
  <1>2. CASE d \in Delegations
    <2>1. /\ HasAttempt(session, a) => HasAttempt(session', a)
          /\ IsSettled(session, a) => IsSettled(session', a)
          /\ session.attempts[d] # <<>> => session'.attempts[d] # <<>>
      <3> HIDE DEF d
      <3> QED BY <1>2, GoesKeeps DEF Inv
    <2>2. \A c \in cmd[h].adm : session.envelopes[c] > 0 => session'.envelopes[c] > 0
      <3> SUFFICES ASSUME NEW c \in cmd[h].adm PROVE session.envelopes[c] > 0 => session'.envelopes[c] > 0
        OBVIOUS
      <3>1. c \in Delegations BY DEF Inv, Types, CommandType
      <3>2. session.envelopes[c] <= session'.envelopes[c] BY <3>1, GoesKeeps DEF Inv
      <3>3. session.envelopes[c] \in 0..2 /\ session'.envelopes[c] \in 0..2
        BY <3>1, SessionFields DEF Inv, Types, Goes
      <3> QED BY <3>2, <3>3
    <2>3. <<cmd'[h].sel, cmd'[h].n>> = a OBVIOUS
    <2> HIDE DEF HasAttempt, IsSettled
    <2> QED BY <1>1, <2>1, <2>2, <2>3 DEF CommandOK
  <1>3. CASE d \notin Delegations
    <2>1. cmd[h].pc \in {"unused", "done"} BY <1>1, <1>3 DEF CommandOK
    <2> QED BY <2>1 DEF CommandOK
  <1> QED BY <1>2, <1>3

\* What the operations prove stays proven.
ProvenStays == \A a \in Actors : Proven(op, a) => Proven(op', a)

LEMMA EventFrame ==
  ASSUME Inv, Goes, ProvenStays, NEW w, NEW e \in Event, EventOK(w, session, op, e)
  PROVE  EventOK(w, session', op', e)
  <1>1. ASSUME NEW d \in Delegations, NEW n, Has(session, d, n)
        PROVE  /\ Has(session', d, n) /\ <<d, n>> \in Actors
               /\ Proven(op, <<d, n>>) => Proven(op', <<d, n>>)
    <2>1. n \in 1..2 BY <1>1, HasInRange DEF Inv, Types
    <2>2. <<d, n>> \in Actors BY <2>1 DEF Actors
    <2>3. HasAttempt(session, <<d, n>>) => HasAttempt(session', <<d, n>>) BY GoesKeeps DEF Inv
    <2> QED BY <1>1, <2>2, <2>3 DEF HasAttempt, ProvenStays
  <1>2. e.type \in {"terminal", "ready", "settled", "pre_effect_cancelled"} => e.d \in Delegations
    BY EventFields
  <1> QED BY <1>1, <1>2 DEF EventOK

LEMMA WriterFrame ==
  ASSUME Inv, Goes, ProvenStays, UNCHANGED writer,
         \A g \in Commands : writer.by = g =>
           /\ cmd'[g].pc = cmd[g].pc /\ cmd'[g].sel = cmd[g].sel /\ cmd'[g].n = cmd[g].n
           /\ cmd'[g].adm = cmd[g].adm
           /\ \A e \in Delegations : writer.of \in {0, e} => thr'[g][e] = thr[g][e]
  PROVE  WriterOK'
  <1>1. WriterOK BY DEF Inv
  <1>2. writer'.by = 0 => writer' = Free BY <1>1 DEF WriterOK
  <1>3. ASSUME NEW g \in Commands, writer'.by = g, writer'.of = 0 PROVE CommandHolds(g)'
    <2>1. CommandHolds(g) BY <1>1, <1>3 DEF WriterOK
    <2>2. cmd[g].adm \subseteq Delegations BY DEF Inv, Types, CommandType
    <2>3. CommandOK(g) BY DEF Inv
    <2>4. cmd[g].sel \in Delegations BY <2>1, <2>3 DEF CommandOK, CommandHolds
    <2>5. /\ cmd'[g].pc = cmd[g].pc /\ cmd'[g].sel = cmd[g].sel /\ cmd'[g].n = cmd[g].n
          /\ cmd'[g].adm = cmd[g].adm /\ \A e \in Delegations : thr'[g][e] = thr[g][e]
      BY <1>3
    <2>6. IsSettled(session, <<cmd[g].sel, cmd[g].n>>) => IsSettled(session', <<cmd[g].sel, cmd[g].n>>)
      BY <2>4, GoesKeeps DEF Inv
    <2>7. writer.then = "run" => \A e \in cmd[g].adm :
            \/ IsClaimed(session', <<e, thr[g][e].n>>)
            \/ Pending(writer.todo, "slot_claimed", <<e, thr[g][e].n>>)
      <3> SUFFICES ASSUME writer.then = "run", NEW e \in cmd[g].adm,
                          ~Pending(writer.todo, "slot_claimed", <<e, thr[g][e].n>>)
                   PROVE  IsClaimed(session', <<e, thr[g][e].n>>)
        OBVIOUS
      <3>1. IsClaimed(session, <<e, thr[g][e].n>>) BY <2>1 DEF CommandHolds
      <3>2. thr[g][e].n \in 1..2 BY <2>1 DEF CommandHolds
      <3> QED BY <2>2, <3>1, <3>2, GoesKeeps DEF Inv
    <2> HIDE DEF IsSettled, IsClaimed, Pending
    <2> QED BY <2>1, <2>2, <2>5, <2>6, <2>7 DEF CommandHolds
  <1>4. ASSUME NEW g \in Commands, NEW d \in Delegations, writer'.by = g, writer'.of = d
        PROVE  LaunchHolds(g, d)'
    <2>1. LaunchHolds(g, d) BY <1>1, <1>4 DEF WriterOK
    <2>2. cmd'[g].pc = cmd[g].pc /\ thr'[g][d] = thr[g][d] BY <1>4
    <2>3. LaunchOK(g, d) BY DEF Inv
    <2>4. thr[g][d].n \in 1..2 BY <2>1, <2>3 DEF LaunchHolds, LaunchOK
    <2> DEFINE a == <<d, thr[g][d].n>>
    <2>5. /\ HasAttempt(session, a) => HasAttempt(session', a)
          /\ IsSettled(session, a) => IsSettled(session', a)
          /\ IsClaimed(session, a) => IsClaimed(session', a)
      BY <2>4, GoesKeeps DEF Inv
    <2>6. <<d, thr'[g][d].n>> = a BY <2>2
    <2> HIDE DEF HasAttempt, IsSettled, IsClaimed, Pending, a
    <2> QED BY <2>1, <2>2, <2>5, <2>6 DEF LaunchHolds, a
  <1>5. ASSUME NEW i \in DOMAIN writer.todo PROVE EventOK(writer, session', op', writer.todo[i])
    <2>1. writer.todo[i] \in Event BY DEF Inv, Types, WriterType
    <2>2. EventOK(writer, session, op, writer.todo[i]) BY <1>1 DEF WriterOK
    <2> QED BY <2>1, <2>2, EventFrame
  <1> QED BY <1>2, <1>3, <1>4, <1>5 DEF WriterOK

-----------------------------------------------------------------------------
(* Operations and processes. *)

Acted == {"told", "running", "finished", "killed"}

\* What a step may do to an actor's operation and process.
Touched(a) ==
  /\ Proven(op, a) => Proven(op', a)
  /\ Proven(op', a) => child'[a].state \in {"none", "dead"}
  /\ child'[a].state \in Acted => IsStarted(session, a)
  /\ ~IsBound(session, a) => child'[a].state = "none" /\ ~Proven(op', a)
  /\ op'[a].state = "pre_effect_terminal" => Proven(op', a)
  /\ op'[a].state = "reconciled" => IsSettled(session, a)

LEMMA Untouched ==
  ASSUME Inv, NEW a \in Actors, op'[a] = op[a], child'[a] = child[a]
  PROVE  Touched(a)
  <1> HIDE DEF IsStarted, IsBound, IsSettled
  <1> QED BY DEF Inv, ProvenIsOver, ActedIsStarted, UnboundIsNew, OperationOK, Touched, Proven, Acted

LEMMA RecordsKeep ==
  ASSUME Inv, Goes, \A a \in Actors : Touched(a)
  PROVE  /\ ProvenStays /\ ActedIsStarted' /\ UnboundIsNew' /\ OperationOK'
         /\ UNCHANGED session => NoEffectIsProven'
  <1>1. ProvenStays BY DEF Touched, ProvenStays
  <1>2. ASSUME NEW a \in Actors
        PROVE  /\ IsStarted(session, a) => IsStarted(session', a)
               /\ IsBound(session, a) => IsBound(session', a)
               /\ IsSettled(session, a) => IsSettled(session', a)
    <2>1. PICK d \in Delegations, n \in 1..2 : a = <<d, n>> BY DEF Actors
    <2> QED BY <2>1, GoesKeeps DEF Inv
  <1> HIDE DEF IsStarted, IsBound, IsSettled
  <1>3. ActedIsStarted' BY <1>2 DEF ActedIsStarted, Touched, Acted
  <1>4. UnboundIsNew' BY <1>2 DEF UnboundIsNew, Touched
  <1>5. OperationOK' BY <1>2 DEF OperationOK, Touched
  <1>6. ASSUME UNCHANGED session PROVE NoEffectIsProven'
    <2> SUFFICES ASSUME NEW d \in Delegations, NEW i \in DOMAIN session.attempts[d],
                        NoEffect(session.attempts[d][i])
                 PROVE  Proven(op', <<d, session.attempts[d][i].actor>>)
      BY <1>6 DEF NoEffectIsProven
    <2>1. Proven(op, <<d, session.attempts[d][i].actor>>) BY DEF Inv, NoEffectIsProven
    <2>2. session.attempts[d][i].actor \in 1..2 BY SessionFields DEF Inv, Types, AttemptRecord
    <2>3. <<d, session.attempts[d][i].actor>> \in Actors BY <2>2 DEF Actors
    <2> QED BY <1>1, <2>1, <2>3 DEF ProvenStays
  <1> QED BY <1>1, <1>3, <1>4, <1>5, <1>6

\* No launch comes near a process it was not near before.
LEMMA DangerKeeps ==
  ASSUME Inv, \A a \in Actors : Touched(a),
         \A h \in Commands, e \in Delegations :
           Danger(h, e)' => Danger(h, e) /\ thr'[h][e].n = thr[h][e].n,
         \A a \in Actors : Proven(op', a) /\ ~Proven(op, a) =>
           \A h \in Commands : Danger(h, a[1])' => thr'[h][a[1]].n # a[2]
  PROVE  ProvenIsOver' /\ OneDanger'
  <1>1. ASSUME NEW a \in Actors, Proven(op', a)
        PROVE  /\ child'[a].state \in {"none", "dead"}
               /\ \A h \in Commands : Danger(h, a[1])' => thr'[h][a[1]].n # a[2]
    <2>1. child'[a].state \in {"none", "dead"} BY <1>1 DEF Touched
    <2>2. CASE Proven(op, a)
      <3>1. a[1] \in Delegations BY DEF Actors
      <3>2. \A h \in Commands : Danger(h, a[1]) => thr[h][a[1]].n # a[2] BY <2>2 DEF Inv, ProvenIsOver
      <3> HIDE DEF Danger
      <3> QED BY <2>1, <3>1, <3>2
    <2>3. CASE ~Proven(op, a) BY <1>1, <2>1, <2>3
    <2> QED BY <2>2, <2>3
  <1> HIDE DEF Danger
  <1>2. ProvenIsOver' BY <1>1 DEF ProvenIsOver
  <1>3. OneDanger' BY DEF Inv, OneDanger
  <1> QED BY <1>2, <1>3

Moves(g, d, t) == thr' = [thr EXCEPT ![g][d] = t]

LEMMA ThrUpdate ==
  ASSUME Types, NEW g \in Commands, NEW d \in Delegations, NEW t \in LaunchType, Moves(g, d, t)
  PROVE  /\ thr' \in [Commands -> [Delegations -> LaunchType]]
         /\ thr'[g][d] = t
         /\ \A h \in Commands, e \in Delegations : h # g \/ e # d => thr'[h][e] = thr[h][e]
  BY DEF Types, Moves

-----------------------------------------------------------------------------
(* The steps of a launch. *)

Near == {"spawn", "handshake", "start", "sending", "fail", "wait"}

\* What a launch knows when it has come to the step t without the writer.
MayGo(g, d, t) ==
  LET a == <<d, thr[g][d].n>> IN
  /\ cmd[g].pc = "run"
  /\ thr[g][d].pc \notin {"idle", "holding", "sending", "rejected"}
  /\ t.pc \notin {"idle", "holding", "sending"} /\ t.n = thr[g][d].n
  /\ t.pc \in Near => thr[g][d].pc \in Near
  /\ t.pc \in AfterLaunch => HasAttempt(session, a)
  /\ t.pc \in {"reconcile", "settle"} => IsSettled(session, a)

LEMMA LaunchGoes ==
  ASSUME Inv, NEW g \in Commands, NEW d \in Delegations, NEW t \in LaunchType, NEW n \in 1..2,
         n = thr[g][d].n,
         MayGo(g, d, t), UNCHANGED <<session, writer, cmd, lease, gone, crashes>>,
         Moves(g, d, t),
         op' \in [Actors -> OpType], child' \in [Actors -> ChildType],
         \A b \in Actors : b # <<d, n>> => op'[b] = op[b] /\ child'[b] = child[b],
         Touched(<<d, n>>),
         Proven(op', <<d, n>>) /\ ~Proven(op, <<d, n>>) => thr[g][d].pc \in Near /\ t.pc \notin Near
  PROVE  Inv'
  <1>1. Types BY DEF Inv
  <1>2. /\ thr' \in [Commands -> [Delegations -> LaunchType]]
        /\ thr'[g][d] = t
        /\ \A h \in Commands, e \in Delegations : h # g \/ e # d => thr'[h][e] = thr[h][e]
    BY <1>1, ThrUpdate
  <1>3. Goes BY StillGoes
  <1>4. Types' BY <1>1, <1>2 DEF Types
  <1>5. \A a \in Actors : Touched(a)
    <2>1. ASSUME NEW a \in Actors, a # <<d, n>> PROVE Touched(a) BY <2>1, Untouched
    <2> QED BY <2>1
  <1>6. /\ ProvenStays /\ ActedIsStarted' /\ UnboundIsNew' /\ OperationOK' /\ NoEffectIsProven'
    BY <1>3, <1>5, RecordsKeep
  <1>7. ASSUME NEW h \in Commands, NEW e \in Delegations, h # g \/ e # d
        PROVE  LaunchOK(h, e)' /\ (Danger(h, e)' <=> Danger(h, e))
    BY <1>2, <1>3, <1>7, LaunchFrame
  <1>8. LaunchOK(g, d) BY DEF Inv
  <1>9. /\ Danger(g, d)' <=> t.pc \in Near
        /\ Danger(g, d) <=> thr[g][d].pc \in Near
    BY <1>2 DEF Danger, MayGo, Near
  <1>10. LaunchOK(g, d)'
    <2>1. thr[g][d].n = t.n BY DEF MayGo
    <2> HIDE DEF HasAttempt, IsBound, IsStarted, IsSettled, IsClaimed, Danger
    <2> QED BY <1>2, <1>8, <1>9, <2>1 DEF LaunchOK, MayGo
  <1>11. ASSUME NEW h \in Commands, NEW e \in Delegations, Danger(h, e)'
         PROVE  Danger(h, e) /\ thr'[h][e].n = thr[h][e].n
    <2>1. CASE h = g /\ e = d BY <1>2, <1>9, <1>11, <2>1 DEF MayGo
    <2>2. CASE h # g \/ e # d BY <1>2, <1>7, <1>11, <2>2
    <2> QED BY <2>1, <2>2
  <1>12. ASSUME NEW a \in Actors, Proven(op', a), ~Proven(op, a), NEW h \in Commands, Danger(h, a[1])'
         PROVE  thr'[h][a[1]].n # a[2]
    <2>1. a = <<d, n>> /\ a[1] = d /\ a[2] = n
      <3>1. CASE a = <<d, n>> BY <3>1
      <3>2. CASE a # <<d, n>>
        <4>1. op'[a] = op[a] BY <3>2
        <4> QED BY <1>12, <4>1 DEF Proven
      <3> QED BY <3>1, <3>2
    <2>2. thr[g][d].pc \in Near /\ t.pc \notin Near BY <1>12, <2>1
    <2>3. h # g BY <1>9, <1>12, <2>1, <2>2
    <2>4. Danger(h, d) /\ Danger(g, d) /\ thr'[h][d].n = thr[h][d].n BY <1>9, <1>11, <1>12, <2>1, <2>2
    <2>5. thr[h][d].n # thr[g][d].n
      <3> HIDE DEF Danger
      <3> QED BY <2>3, <2>4 DEF Inv, OneDanger
    <2> QED BY <2>1, <2>4, <2>5
  <1>13. ProvenIsOver' /\ OneDanger'
    <2> HIDE DEF Danger
    <2> QED BY <1>5, <1>11, <1>12, DangerKeeps
  <1>14. ASSUME NEW h \in Commands PROVE CommandOK(h)' BY <1>3, CommandFrame
  <1>15. WriterOK'
    <2>1. ~(writer.by = g /\ writer.of \in {0, d})
      <3>1. WriterOK BY DEF Inv
      <3>2. writer.by = g /\ writer.of = 0 => cmd[g].pc = "holding" BY <3>1 DEF WriterOK, CommandHolds
      <3>3. writer.by = g /\ writer.of = d => thr[g][d].pc \in {"holding", "sending"}
        BY <3>1 DEF WriterOK, LaunchHolds
      <3> QED BY <3>2, <3>3 DEF MayGo
    <2>2. \A h \in Commands : writer.by = h => \A e \in Delegations : writer.of \in {0, e} => thr'[h][e] = thr[h][e]
      BY <1>2, <2>1
    <2> QED BY <1>3, <1>6, <2>2, WriterFrame
  <1>16. SessionOK(session)' BY <1>3 DEF Goes
  <1> HIDE DEF LaunchOK, CommandOK, Danger
  <1>17. \A h \in Commands, e \in Delegations : LaunchOK(h, e)' BY <1>7, <1>10
  <1> QED BY <1>4, <1>6, <1>13, <1>14, <1>15, <1>16, <1>17 DEF Inv

\* A launch may take the writer to append what w says.
Holding(g, d, t, w) ==
  LET a == <<d, t.n>> IN
  /\ cmd[g].pc = "run" /\ writer.by = 0
  /\ thr[g][d].pc \notin {"idle", "holding", "sending", "rejected"}
  /\ t.pc = "holding" /\ t.n \in 1..2 /\ t.n <= session.envelopes[d]
  /\ w.by = g /\ w.of = d /\ w.todo # <<>>
  /\ w.then \in LaunchSteps \ {"holding", "idle", "handshake", "start", "fail", "wait"}
  /\ w.refused \in {"fail", "rejected"} /\ (w.refused = "fail" => w.then = "sending")
  /\ IsClaimed(session, a) \/ (w.then = "launch" /\ Pending(w.todo, "slot_claimed", a))
  /\ w.then = "spawn" =>
       w.todo = <<OfAttempt("reserved", a), OfAttempt("launch_requested", a)>>
  /\ w.then = "sending" =>
       w.todo = <<OfAttempt("started", a)>> /\ thr[g][d].pc \in Near /\ t.n = thr[g][d].n
  /\ w.then \in {"reconcile", "settle"} =>
       IsSettled(session, a) \/ Pending(w.todo, "settled", a)
  /\ w.then \in AfterLaunch => HasAttempt(session, a)
  /\ \A i \in DOMAIN w.todo : EventOK(w, session, op, w.todo[i])

\* No process changes, and an operation at most begins.
OperationsBegin ==
  /\ UNCHANGED child /\ op' \in [Actors -> OpType]
  /\ \A a \in Actors : \/ op'[a] = op[a]
                       \/ op'[a] = [state |-> "requested", failure |-> op[a].failure]

LEMMA BeginTouches ==
  ASSUME Inv, OperationsBegin PROVE \A a \in Actors : Touched(a)
  <1> SUFFICES ASSUME NEW a \in Actors PROVE Touched(a) OBVIOUS
  <1>1. CASE op'[a] = op[a] BY <1>1, Untouched DEF OperationsBegin
  <1>2. CASE op'[a] = [state |-> "requested", failure |-> op[a].failure]
    <2>1. child'[a] = child[a] /\ op'[a].state = "requested" /\ op'[a].failure = op[a].failure
      BY <1>2 DEF OperationsBegin
    <2> HIDE DEF IsStarted, IsBound, IsSettled
    <2> QED BY <2>1 DEF Inv, ProvenIsOver, ActedIsStarted, UnboundIsNew, Touched, Proven, Acted
  <1> QED BY <1>1, <1>2 DEF OperationsBegin

LEMMA LaunchHold ==
  ASSUME Inv, NEW g \in Commands, NEW d \in Delegations, NEW t \in LaunchType,
         NEW w \in WriterType, Holding(g, d, t, w), writer' = w, Moves(g, d, t),
         UNCHANGED <<session, cmd, lease, gone, crashes>>, OperationsBegin
  PROVE  Inv'
  <1>1. Types BY DEF Inv
  <1>2. /\ thr' \in [Commands -> [Delegations -> LaunchType]]
        /\ thr'[g][d] = t
        /\ \A h \in Commands, e \in Delegations : h # g \/ e # d => thr'[h][e] = thr[h][e]
    BY <1>1, ThrUpdate
  <1>3. Goes BY StillGoes
  <1>4. Types' BY <1>1, <1>2 DEF Types, OperationsBegin
  <1>5. \A a \in Actors : Touched(a) BY BeginTouches
  <1>6. /\ ProvenStays /\ ActedIsStarted' /\ UnboundIsNew' /\ OperationOK' /\ NoEffectIsProven'
    BY <1>3, <1>5, RecordsKeep
  <1>a. \A h \in Commands : h # 0 BY DEF Commands
  <1>7. ASSUME NEW h \in Commands, NEW e \in Delegations, h # g \/ e # d
        PROVE  LaunchOK(h, e)' /\ (Danger(h, e)' <=> Danger(h, e))
    <2>1. thr[h][e].pc \notin {"holding", "sending"}
      <3>1. LaunchOK(h, e) BY DEF Inv
      <3> QED BY <3>1, <1>a DEF LaunchOK, Holding
    <2>2. thr'[h][e] = thr[h][e] BY <1>2, <1>7
    <2> QED BY <1>3, <2>1, <2>2, LaunchFrame
  <1>8. LaunchOK(g, d) BY DEF Inv
  <1>9. /\ Danger(g, d)' => w.then = "sending" /\ Danger(g, d) /\ t.n = thr[g][d].n
    BY <1>2 DEF Danger, Holding, Near
  <1>10. LaunchOK(g, d)'
    <2> HIDE DEF HasAttempt, IsBound, IsStarted, IsSettled, IsClaimed, Danger, Pending
    <2> QED BY <1>2, <1>8, <1>9 DEF LaunchOK, Holding, AfterLaunch
  <1>11. ASSUME NEW h \in Commands, NEW e \in Delegations, Danger(h, e)'
         PROVE  Danger(h, e) /\ thr'[h][e].n = thr[h][e].n
    <2>1. CASE h = g /\ e = d BY <1>2, <1>9, <1>11, <2>1
    <2>2. CASE h # g \/ e # d BY <1>2, <1>7, <1>11, <2>2
    <2> QED BY <2>1, <2>2
  <1>12. \A a \in Actors : ~(Proven(op', a) /\ ~Proven(op, a))
    BY DEF OperationsBegin, Proven
  <1>13. ProvenIsOver' /\ OneDanger'
    <2> HIDE DEF Danger
    <2> QED BY <1>5, <1>11, <1>12, DangerKeeps
  <1>14. ASSUME NEW h \in Commands PROVE CommandOK(h)'
    <2>1. CommandOK(h) BY DEF Inv
    <2>2. cmd[h].pc # "holding" BY <2>1, <1>a DEF CommandOK, Holding
    <2> QED BY <1>3, <2>2, CommandFrame
  <1>15. WriterOK'
    <2>1. w.by = g /\ g # 0 /\ w.of = d /\ d # 0 BY <1>a DEF Holding, Delegations
    <2>2. LaunchHolds(g, d)'
      <3> HIDE DEF HasAttempt, IsSettled, IsClaimed, Pending
      <3> QED BY <1>2 DEF LaunchHolds, Holding
    <2>3. ASSUME NEW i \in DOMAIN w.todo PROVE EventOK(w, session', op', w.todo[i])
      <3>1. w.todo[i] \in Event BY DEF WriterType
      <3>2. EventOK(w, session, op, w.todo[i]) BY DEF Holding
      <3> QED BY <1>3, <1>6, <3>1, <3>2, EventFrame
    <2>4. \A h \in Commands, e \in Delegations : w.by = h /\ w.of = e => h = g /\ e = d
      BY <2>1
    <2> HIDE DEF LaunchHolds
    <2> QED BY <2>1, <2>2, <2>3, <2>4 DEF WriterOK
  <1>16. SessionOK(session)' BY <1>3 DEF Goes
  <1> HIDE DEF LaunchOK, CommandOK, Danger
  <1>17. \A h \in Commands, e \in Delegations : LaunchOK(h, e)' BY <1>7, <1>10
  <1> QED BY <1>4, <1>6, <1>13, <1>14, <1>15, <1>16, <1>17 DEF Inv

LEMMA LaunchKnows ==
  ASSUME Inv, NEW g \in Commands, NEW d \in Delegations, thr[g][d].pc # "idle"
  PROVE  /\ thr[g][d] \in LaunchType /\ thr[g][d].n \in 1..2 /\ <<d, thr[g][d].n>> \in Actors
         /\ thr[g][d].n <= session.envelopes[d]
         /\ cmd[g].pc = "run" /\ thr[g][d].pc \notin {"holding", "rejected"} => IsClaimed(session, <<d, thr[g][d].n>>)
         /\ thr[g][d].pc \in Near => IsBound(session, <<d, thr[g][d].n>>)
                                     /\ HasAttempt(session, <<d, thr[g][d].n>>)
                                     /\ ~Proven(op, <<d, thr[g][d].n>>)
         /\ thr[g][d].pc \in AfterLaunch => HasAttempt(session, <<d, thr[g][d].n>>)
         /\ thr[g][d].pc \in {"reconcile", "settle"} => IsSettled(session, <<d, thr[g][d].n>>)
         /\ op[<<d, thr[g][d].n>>] \in OpType /\ child[<<d, thr[g][d].n>>] \in ChildType
  <1> DEFINE n == thr[g][d].n
             a == <<d, n>>
  <1>1. LaunchOK(g, d) /\ Types BY DEF Inv
  <1>2. thr[g][d] \in LaunchType BY <1>1 DEF Types
  <1>3. n \in 1..2 /\ n <= session.envelopes[d] BY <1>1 DEF LaunchOK
  <1>4. a \in Actors /\ a[1] = d /\ a[2] = n BY <1>3 DEF Actors
  <1>5. op[a] \in OpType /\ child[a] \in ChildType BY <1>1, <1>4 DEF Types
  <1>6. thr[g][d].pc \in Near => Danger(g, d) BY DEF Near, Danger
  <1>7. Danger(g, d) => IsBound(session, a) BY <1>1 DEF LaunchOK
  <1>8. Danger(g, d) => ~Proven(op, a) BY <1>4 DEF Inv, ProvenIsOver
  <1>9. IsBound(session, a) => HasAttempt(session, a) BY DEF IsBound
  <1> HIDE DEF IsBound, HasAttempt, IsSettled, IsClaimed, Proven, Danger
  <1>10. /\ cmd[g].pc = "run" /\ thr[g][d].pc \notin {"holding", "rejected"} => IsClaimed(session, a)
         /\ thr[g][d].pc \in AfterLaunch => HasAttempt(session, a)
         /\ thr[g][d].pc \in {"reconcile", "settle"} => IsSettled(session, a)
    BY <1>1 DEF LaunchOK
  <1> QED BY <1>2, <1>3, <1>4, <1>5, <1>6, <1>7, <1>8, <1>9, <1>10

\* The step of a launch that Goto takes, and the one that Throw takes.
LEMMA GotoLaunch ==
  ASSUME Inv, NEW g \in Commands, NEW d \in Delegations, NEW to \in LaunchSteps, Goto(g, d, to)
  PROVE  /\ UNCHANGED cmd
         /\ \E t \in LaunchType :
              Moves(g, d, t) /\ t.pc = to /\ t.n = thr[g][d].n /\ t.first = thr[g][d].first
  <1>1. d # 0 BY DEF Delegations
  <1>2. thr[g][d] \in LaunchType BY DEF Inv, Types
  <1> DEFINE t == IF to \in {"rejected", "fulfilled"}
                  THEN [thr[g][d] EXCEPT !.pc = to, !.seen = FALSE, !.err = "none"]
                  ELSE [thr[g][d] EXCEPT !.pc = to]
  <1>3. t \in LaunchType /\ t.pc = to /\ t.n = thr[g][d].n /\ t.first = thr[g][d].first BY <1>2 DEF LaunchType
  <1>4. Moves(g, d, t) BY <1>1 DEF Goto, Moves
  <1>5. UNCHANGED cmd BY <1>1 DEF Goto
  <1> QED BY <1>3, <1>4, <1>5

LEMMA ThrowLaunch ==
  ASSUME Inv, NEW g \in Commands, NEW d \in Delegations, NEW why \in {"infra", "cancelled", "stale"},
         Throw(g, d, why)
  PROVE  \E t \in LaunchType :
           Moves(g, d, t) /\ t.pc = "fail" /\ t.n = thr[g][d].n /\ t.first = thr[g][d].first
  <1>2. thr[g][d] \in LaunchType BY DEF Inv, Types
  <1> DEFINE t == [thr[g][d] EXCEPT !.pc = "fail", !.err = why]
  <1>3. t \in LaunchType /\ t.pc = "fail" /\ t.n = thr[g][d].n /\ t.first = thr[g][d].first
    BY <1>2 DEF LaunchType, LaunchSteps
  <1>4. Moves(g, d, t) BY <1>2 DEF Throw, Moves, Inv, Types
  <1> QED BY <1>3, <1>4

\* A launch goes on, its operation and its process change.
LEMMA LaunchTouches ==
  ASSUME Inv, NEW g \in Commands, NEW d \in Delegations, NEW t \in LaunchType, Moves(g, d, t),
         MayGo(g, d, t), UNCHANGED <<session, writer, cmd, lease, gone, crashes>>,
         NEW n \in 1..2, n = thr[g][d].n,
         NEW o \in OpType, NEW c \in ChildType,
         op' = [op EXCEPT ![<<d, n>>] = o], child' = [child EXCEPT ![<<d, n>>] = c],
         Proven(op, <<d, n>>) => o.failure \in {"infra", "cancelled"},
         o.failure \in {"infra", "cancelled"} => c.state \in {"none", "dead"},
         c.state \in Acted => IsStarted(session, <<d, n>>),
         ~IsBound(session, <<d, n>>) => c.state = "none" /\ o.failure \notin {"infra", "cancelled"},
         o.state = "pre_effect_terminal" => o.failure \in {"infra", "cancelled"},
         o.state = "reconciled" => IsSettled(session, <<d, n>>),
         o.failure \in {"infra", "cancelled"} /\ ~Proven(op, <<d, n>>) =>
           thr[g][d].pc \in Near /\ t.pc \notin Near
  PROVE  Inv'
  <1> DEFINE a == <<d, n>>
  <1>1. a \in Actors BY DEF Actors
  <1>2. op \in [Actors -> OpType] /\ child \in [Actors -> ChildType] BY DEF Inv, Types
  <1> HIDE DEF a, OpType, ChildType
  <1>3. /\ op' \in [Actors -> OpType] /\ child' \in [Actors -> ChildType]
        /\ op'[a] = o /\ child'[a] = c
        /\ \A b \in Actors : b # a => op'[b] = op[b] /\ child'[b] = child[b]
    BY <1>1, <1>2 DEF a
  <1>4. Proven(op', a) <=> o.failure \in {"infra", "cancelled"} BY <1>3 DEF Proven
  <1>5. Touched(a)
    <2> HIDE DEF IsStarted, IsBound, IsSettled, Proven
    <2> QED BY <1>3, <1>4 DEF Touched, a
  <1> HIDE DEF MayGo, Touched, Proven, Near
  <1> QED BY <1>3, <1>4, <1>5, LaunchGoes, ZenonT(60) DEF a

LEMMA JustGoes ==
  ASSUME Inv, NEW g \in Commands, NEW d \in Delegations, NEW t \in LaunchType, Moves(g, d, t),
         MayGo(g, d, t), UNCHANGED <<session, writer, cmd, lease, op, child, gone, crashes>>
  PROVE  Inv'
  <1>1. thr[g][d].pc # "idle" BY DEF MayGo
  <1>2. PICK n \in 1..2 : n = thr[g][d].n BY <1>1, LaunchKnows
  <1>3. <<d, n>> \in Actors BY DEF Actors
  <1>4. Touched(<<d, n>>) BY <1>3, Untouched
  <1>5. op' \in [Actors -> OpType] /\ child' \in [Actors -> ChildType] BY DEF Inv, Types
  <1>6. ~(Proven(op', <<d, n>>) /\ ~Proven(op, <<d, n>>)) BY DEF Proven
  <1> HIDE DEF MayGo, Touched, Proven
  <1> QED BY <1>2, <1>4, <1>5, <1>6, LaunchGoes

\* The end of a process.
LEMMA EndedChild ==
  ASSUME Inv, NEW a \in Actors, child[a].state \in Live
  PROVE  /\ Ended(child[a]) \in ChildType
         /\ ~Proven(op, a)
         /\ Ended(child[a]).state \in Acted => IsStarted(session, a)
         /\ IsBound(session, a)
         /\ ~IsStarted(session, a) => Ended(child[a]).state = "dead"
  <1>1. child[a] \in ChildType BY DEF Inv, Types
  <1>2. Ended(child[a]) \in ChildType
        /\ Ended(child[a]).state = IF child[a].state \in {"told", "running"} THEN "killed" ELSE "dead"
    BY <1>1 DEF Ended, ChildType, ChildStates
  <1> HIDE DEF IsStarted, IsBound, Proven
  <1>3. child[a].state \in {"told", "running"} => IsStarted(session, a) BY DEF Inv, ActedIsStarted
  <1>4. ~Proven(op, a) BY DEF Inv, ProvenIsOver, Live
  <1>5. IsBound(session, a) BY DEF Inv, UnboundIsNew, Live
  <1> QED BY <1>2, <1>3, <1>4, <1>5 DEF Acted

LEMMA SameChild ==
  ASSUME Inv, NEW a \in Actors
  PROVE  /\ child[a] \in ChildType /\ op[a] \in OpType
         /\ Proven(op, a) => child[a].state \in {"none", "dead"}
         /\ child[a].state \in Acted => IsStarted(session, a)
         /\ ~IsBound(session, a) => child[a].state = "none" /\ ~Proven(op, a)
         /\ op[a].state = "pre_effect_terminal" => Proven(op, a)
         /\ op[a].state = "reconciled" => IsSettled(session, a)
         /\ op = [op EXCEPT ![a] = op[a]] /\ child = [child EXCEPT ![a] = child[a]]
  <1> HIDE DEF IsStarted, IsBound, IsSettled, Proven
  <1>1. op = [op EXCEPT ![a] = op[a]] /\ child = [child EXCEPT ![a] = child[a]] BY DEF Inv, Types
  <1> QED BY <1>1 DEF Inv, Types, ProvenIsOver, ActedIsStarted, UnboundIsNew, OperationOK, Acted

LEMMA StepSpawn ==
  ASSUME Inv, NEW g \in Commands, NEW d \in Delegations, Spawn(g, d)
  PROVE  Inv'
  <1>0. cmd[g].pc = "run" /\ thr[g][d].pc = "spawn" BY DEF Spawn, Launching
  <1>1. PICK n \in 1..2 : n = thr[g][d].n BY <1>0, LaunchKnows
  <1> DEFINE a == <<d, n>>
  <1>2. /\ a \in Actors /\ IsBound(session, a) /\ ~Proven(op, a)
        /\ HasAttempt(session, a) /\ op[a] \in OpType
    BY <1>0, <1>1, LaunchKnows DEF Near
  <1>3. UNCHANGED <<session, writer, lease, cmd, gone, crashes>> BY DEF Spawn
  <1>4. CASE (Throw(g, d, "cancelled") \/ Throw(g, d, "infra")) /\ UNCHANGED <<op, child>>
    <2>1. PICK t \in LaunchType : Moves(g, d, t) /\ t.pc = "fail" /\ t.n = thr[g][d].n
      BY <1>4, ThrowLaunch
    <2>2. MayGo(g, d, t) BY <1>0, <2>1 DEF MayGo, Near, AfterLaunch
    <2> QED BY <1>3, <1>4, <2>1, <2>2, JustGoes
  <1>5. CASE /\ child' = [child EXCEPT ![a].state = "up"]
             /\ op' = [op EXCEPT ![a].state = "spawned"]
             /\ thr' = [thr EXCEPT ![g][d].pc = "handshake"]
    <2> DEFINE t == [thr[g][d] EXCEPT !.pc = "handshake"]
               o == [op[a] EXCEPT !.state = "spawned"]
               c == [child[a] EXCEPT !.state = "up"]
    <2>1. t \in LaunchType /\ t.pc = "handshake" /\ t.n = thr[g][d].n
      BY <1>0, LaunchKnows, ZenonT(60) DEF LaunchType, LaunchSteps
    <2>2. o \in OpType /\ o.state = "spawned" /\ o.failure = op[a].failure
      BY <1>2 DEF OpType, OpStates
    <2>3. c \in ChildType /\ c.state = "up" BY <1>2, SameChild DEF ChildType, ChildStates
    <2>4. Moves(g, d, t) BY <1>5 DEF Moves
    <2>5. op' = [op EXCEPT ![a] = o] /\ child' = [child EXCEPT ![a] = c] BY <1>5
    <2>6. MayGo(g, d, t)
      <3> HIDE DEF t
      <3> QED BY <1>0, <2>1 DEF MayGo, Near, AfterLaunch
    <2>7. ~(o.failure \in {"infra", "cancelled"}) BY <1>2, <2>2 DEF Proven
    <2> HIDE DEF t, o, c
    <2> QED BY <1>1, <1>2, <1>3, <2>1, <2>2, <2>3, <2>4, <2>5, <2>6, <2>7, LaunchTouches DEF Acted
  <1>6. ActorIn(g, d) = a BY <1>1 DEF ActorIn
  <1> QED BY <1>4, <1>5, <1>6 DEF Spawn

LEMMA StepHandshake ==
  ASSUME Inv, NEW g \in Commands, NEW d \in Delegations, Handshake(g, d)
  PROVE  Inv'
  <1>0. cmd[g].pc = "run" /\ thr[g][d].pc = "handshake" BY DEF Handshake, Launching
  <1>1. PICK n \in 1..2 : n = thr[g][d].n BY <1>0, LaunchKnows
  <1> DEFINE a == <<d, n>>
  <1>2. /\ a \in Actors /\ IsBound(session, a) /\ ~Proven(op, a)
        /\ HasAttempt(session, a) /\ op[a] \in OpType
    BY <1>0, <1>1, LaunchKnows DEF Near
  <1>3. UNCHANGED <<session, writer, lease, cmd, gone, crashes>> BY DEF Handshake
  <1>4. CASE Throw(g, d, "infra") /\ UNCHANGED <<op, child>>
    <2>1. PICK t \in LaunchType : Moves(g, d, t) /\ t.pc = "fail" /\ t.n = thr[g][d].n
      BY <1>4, ThrowLaunch
    <2>2. MayGo(g, d, t) BY <1>0, <2>1 DEF MayGo, Near, AfterLaunch
    <2> QED BY <1>3, <1>4, <2>1, <2>2, JustGoes
  <1>5. CASE /\ child' = [child EXCEPT ![a].state = "shaken"]
             /\ op' = [op EXCEPT ![a].state = "handshaken"]
             /\ thr' = [thr EXCEPT ![g][d].pc = "start"]
    <2> DEFINE t == [thr[g][d] EXCEPT !.pc = "start"]
               o == [op[a] EXCEPT !.state = "handshaken"]
               c == [child[a] EXCEPT !.state = "shaken"]
    <2>1. t \in LaunchType /\ t.pc = "start" /\ t.n = thr[g][d].n
      BY <1>0, LaunchKnows, ZenonT(60) DEF LaunchType, LaunchSteps
    <2>2. o \in OpType /\ o.state = "handshaken" /\ o.failure = op[a].failure
      BY <1>2 DEF OpType, OpStates
    <2>3. c \in ChildType /\ c.state = "shaken" BY <1>2, SameChild DEF ChildType, ChildStates
    <2>4. Moves(g, d, t) BY <1>5 DEF Moves
    <2>5. op' = [op EXCEPT ![a] = o] /\ child' = [child EXCEPT ![a] = c] BY <1>5
    <2>6. MayGo(g, d, t)
      <3> HIDE DEF t
      <3> QED BY <1>0, <2>1 DEF MayGo, Near, AfterLaunch
    <2>7. ~(o.failure \in {"infra", "cancelled"}) BY <1>2, <2>2 DEF Proven
    <2> HIDE DEF t, o, c
    <2> QED BY <1>1, <1>2, <1>3, <2>1, <2>2, <2>3, <2>4, <2>5, <2>6, <2>7, LaunchTouches DEF Acted
  <1>6. ActorIn(g, d) = a BY <1>1 DEF ActorIn
  <1> QED BY <1>4, <1>5, <1>6 DEF Handshake

\* What the end of a process, or none, leaves of it.
LEMMA ProcessEnds ==
  ASSUME Inv, NEW a \in Actors,
         \/ child' = child
         \/ child[a].state \in Live /\ child' = [child EXCEPT ![a] = Ended(@)]
  PROVE  \E c \in ChildType :
           /\ child' = [child EXCEPT ![a] = c]
           /\ Proven(op, a) => c.state \in {"none", "dead"}
           /\ c.state \in Acted => IsStarted(session, a)
           /\ ~IsBound(session, a) => c.state = "none"
  <1>1. CASE child' = child
    <2> DEFINE c == child[a]
    <2>1. /\ c \in ChildType /\ child' = [child EXCEPT ![a] = c]
          /\ Proven(op, a) => c.state \in {"none", "dead"}
          /\ c.state \in Acted => IsStarted(session, a)
          /\ ~IsBound(session, a) => c.state = "none"
      BY <1>1, SameChild
    <2> QED BY <2>1
  <1>2. CASE child[a].state \in Live /\ child' = [child EXCEPT ![a] = Ended(@)]
    <2> DEFINE c == Ended(child[a])
    <2>1. /\ c \in ChildType /\ child' = [child EXCEPT ![a] = c] /\ ~Proven(op, a)
          /\ c.state \in Acted => IsStarted(session, a)
          /\ IsBound(session, a)
      BY <1>2, EndedChild
    <2> QED BY <2>1
  <1> QED BY <1>1, <1>2

LEMMA StepPollCancel ==
  ASSUME Inv, NEW g \in Commands, NEW d \in Delegations, PollCancel(g, d)
  PROVE  Inv'
  <1>0. cmd[g].pc = "run" /\ thr[g][d].pc \in PreStart \cup {"fail", "blocked"}
    BY DEF PollCancel, Launching
  <1>a. thr[g][d].pc \notin {"idle", "holding", "sending", "rejected"} BY <1>0 DEF PreStart
  <1>1. PICK n \in 1..2 : n = thr[g][d].n BY <1>a, LaunchKnows
  <1> DEFINE a == <<d, n>>
             t == [thr[g][d] EXCEPT !.seen = TRUE]
  <1>2. a \in Actors BY DEF Actors
  <1>3. ActorIn(g, d) = a BY <1>1 DEF ActorIn
  <1>4. UNCHANGED <<session, writer, lease, cmd, op, gone, crashes>> BY DEF PollCancel
  <1>5. \/ child' = child
        \/ child[a].state \in Live /\ child' = [child EXCEPT ![a] = Ended(@)]
    BY <1>3 DEF PollCancel
  <1>6. PICK c \in ChildType :
           /\ child' = [child EXCEPT ![a] = c]
           /\ Proven(op, a) => c.state \in {"none", "dead"}
           /\ c.state \in Acted => IsStarted(session, a)
           /\ ~IsBound(session, a) => c.state = "none"
    BY <1>2, <1>5, ProcessEnds
  <1>7. t \in LaunchType /\ t.pc = thr[g][d].pc /\ t.n = thr[g][d].n
    BY <1>a, LaunchKnows DEF LaunchType
  <1>8. Moves(g, d, t) BY DEF Moves, PollCancel
  <1> HIDE DEF t
  <1>9. MayGo(g, d, t)
    <2>1. /\ thr[g][d].pc \in AfterLaunch => HasAttempt(session, <<d, thr[g][d].n>>)
          /\ thr[g][d].pc \in {"reconcile", "settle"} => IsSettled(session, <<d, thr[g][d].n>>)
      BY <1>a, LaunchKnows
    <2> QED BY <1>0, <1>a, <1>7, <2>1 DEF MayGo
  <1>10. /\ op[a] \in OpType /\ op' = [op EXCEPT ![a] = op[a]]
         /\ ~IsBound(session, a) => ~Proven(op, a)
         /\ op[a].state = "pre_effect_terminal" => Proven(op, a)
         /\ op[a].state = "reconciled" => IsSettled(session, a)
    BY <1>2, <1>4, SameChild
  <1>11. Proven(op, a) <=> op[a].failure \in {"infra", "cancelled"} BY DEF Proven
  <1> HIDE DEF MayGo, Proven, IsBound, IsStarted, IsSettled
  <1> QED BY <1>1, <1>4, <1>6, <1>7, <1>8, <1>9, <1>10, <1>11, LaunchTouches, ZenonT(60)

LEMMA StepWait ==
  ASSUME Inv, NEW g \in Commands, NEW d \in Delegations, Wait(g, d)
  PROVE  Inv'
  <1>0. cmd[g].pc = "run" /\ thr[g][d].pc = "wait" BY DEF Wait, Launching
  <1>1. PICK n \in 1..2 : n = thr[g][d].n BY <1>0, LaunchKnows
  <1> DEFINE a == <<d, n>>
  <1>2. /\ a \in Actors /\ IsBound(session, a) /\ ~Proven(op, a)
        /\ HasAttempt(session, a) /\ op[a] \in OpType
    BY <1>0, <1>1, LaunchKnows DEF Near
  <1>3. UNCHANGED <<session, writer, lease, gone, crashes>> BY DEF Wait
  <1>4. ActorIn(g, d) = a BY <1>1 DEF ActorIn
  <1>5. CASE Goto(g, d, "import") /\ UNCHANGED <<op, child>>
    <2>1. PICK t \in LaunchType : Moves(g, d, t) /\ t.pc = "import" /\ t.n = thr[g][d].n
      BY <1>5, GotoLaunch DEF LaunchSteps
    <2>2. UNCHANGED cmd BY <1>5, GotoLaunch DEF LaunchSteps
    <2>3. MayGo(g, d, t) BY <1>0, <1>1, <1>2, <2>1 DEF MayGo, Near, AfterLaunch
    <2> QED BY <1>3, <1>5, <2>1, <2>2, <2>3, JustGoes
  <1>6. CASE /\ \/ child' = child
                \/ child[a].state \in Live /\ child' = [child EXCEPT ![a] = Ended(@)]
             /\ \/ Goto(g, d, "rejected") /\ UNCHANGED op
                \/ /\ op' = [op EXCEPT ![a] = [state |-> "blocked", failure |-> "unknown"]]
                   /\ Goto(g, d, "lost")
    <2>1. PICK c \in ChildType :
           /\ child' = [child EXCEPT ![a] = c]
           /\ Proven(op, a) => c.state \in {"none", "dead"}
           /\ c.state \in Acted => IsStarted(session, a)
           /\ ~IsBound(session, a) => c.state = "none"
      BY <1>2, <1>6, ProcessEnds
    <2>2. CASE Goto(g, d, "rejected") /\ UNCHANGED op
      <3>1. PICK t \in LaunchType : Moves(g, d, t) /\ t.pc = "rejected" /\ t.n = thr[g][d].n
        BY <2>2, GotoLaunch DEF LaunchSteps
      <3>2. UNCHANGED cmd BY <2>2, GotoLaunch DEF LaunchSteps
      <3>3. MayGo(g, d, t) BY <1>0, <1>1, <3>1 DEF MayGo, Near, AfterLaunch
      <3>4. /\ op' = [op EXCEPT ![a] = op[a]]
            /\ op[a].state = "pre_effect_terminal" => Proven(op, a)
            /\ op[a].state = "reconciled" => IsSettled(session, a)
        BY <1>2, <2>2, SameChild
      <3>5. Proven(op, a) <=> op[a].failure \in {"infra", "cancelled"} BY DEF Proven
      <3> HIDE DEF MayGo, Proven, IsBound, IsStarted, IsSettled
      <3> QED BY <1>1, <1>2, <1>3, <2>1, <3>1, <3>2, <3>3, <3>4, <3>5, LaunchTouches
    <2>3. CASE /\ op' = [op EXCEPT ![a] = [state |-> "blocked", failure |-> "unknown"]]
               /\ Goto(g, d, "lost")
      <3> DEFINE o == [state |-> "blocked", failure |-> "unknown"]
      <3>1. PICK t \in LaunchType : Moves(g, d, t) /\ t.pc = "lost" /\ t.n = thr[g][d].n
        BY <2>3, GotoLaunch DEF LaunchSteps
      <3>2. UNCHANGED cmd BY <2>3, GotoLaunch DEF LaunchSteps
      <3>3. MayGo(g, d, t) BY <1>0, <1>1, <1>2, <3>1 DEF MayGo, Near, AfterLaunch
      <3>4. /\ op' = [op EXCEPT ![a] = o] /\ o \in OpType /\ o.state = "blocked"
            /\ o.failure = "unknown"
        BY <2>3 DEF OpType, OpStates
      <3> HIDE DEF MayGo, Proven, IsBound, IsStarted, IsSettled, o
      <3> QED BY <1>1, <1>2, <1>3, <2>1, <3>1, <3>2, <3>3, <3>4, LaunchTouches
    <2> QED BY <1>6, <2>2, <2>3
  <1>7. <1>5!1 \/ <1>6!1
    BY <1>4 DEF Wait
  <1> QED BY <1>5, <1>6, <1>7

LEMMA StepFail ==
  ASSUME Inv, NEW g \in Commands, NEW d \in Delegations, Fail(g, d)
  PROVE  Inv'
  <1>0. cmd[g].pc = "run" /\ thr[g][d].pc = "fail" BY DEF Fail, Launching
  <1>1. PICK n \in 1..2 : n = thr[g][d].n BY <1>0, LaunchKnows
  <1> DEFINE a == <<d, n>>
  <1>2. /\ a \in Actors /\ IsBound(session, a) /\ ~Proven(op, a)
        /\ HasAttempt(session, a) /\ op[a] \in OpType
    BY <1>0, <1>1, LaunchKnows DEF Near
  <1>3. UNCHANGED <<session, writer, lease, gone, crashes>> BY DEF Fail
  <1>4. ActorIn(g, d) = a BY <1>1 DEF ActorIn
  <1>5. PICK proven \in BOOLEAN :
          /\ child[a].state = "none" => proven
          /\ child' = IF proven /\ child[a].state \in Live THEN [child EXCEPT ![a] = Ended(@)] ELSE child
          /\ \/ /\ PreEffect(g, d) /\ proven
                /\ \E why \in {"infra", "cancelled"} :
                     op' = [op EXCEPT ![a] = [state |-> "pre_effect_terminal", failure |-> why]]
                /\ Goto(g, d, "recover")
             \/ Goto(g, d, "rejected") /\ UNCHANGED op
             \/ /\ \/ UNCHANGED op
                   \/ op' = [op EXCEPT ![a] = [state |-> "blocked", failure |-> "unknown"]]
                /\ Goto(g, d, "blocked")
    BY <1>4 DEF Fail
  <1>6. PICK c \in ChildType :
           /\ child' = [child EXCEPT ![a] = c]
           /\ Proven(op, a) => c.state \in {"none", "dead"}
           /\ c.state \in Acted => IsStarted(session, a)
           /\ ~IsBound(session, a) => c.state = "none"
    BY <1>2, <1>5, ProcessEnds
  <1>7. CASE /\ PreEffect(g, d) /\ proven
             /\ \E why \in {"infra", "cancelled"} :
                  op' = [op EXCEPT ![a] = [state |-> "pre_effect_terminal", failure |-> why]]
             /\ Goto(g, d, "recover")
    <2>1. PICK why \in {"infra", "cancelled"} :
            op' = [op EXCEPT ![a] = [state |-> "pre_effect_terminal", failure |-> why]]
      BY <1>7
    <2> DEFINE o == [state |-> "pre_effect_terminal", failure |-> why]
    <2>2. /\ o \in OpType /\ o.state = "pre_effect_terminal" /\ o.failure \in {"infra", "cancelled"}
          /\ op' = [op EXCEPT ![a] = o]
      BY <2>1 DEF OpType, OpStates
    <2>3. PICK t \in LaunchType : Moves(g, d, t) /\ t.pc = "recover" /\ t.n = thr[g][d].n
      BY <1>7, GotoLaunch DEF LaunchSteps
    <2>4. UNCHANGED cmd BY <1>7, GotoLaunch DEF LaunchSteps
    <2>5. MayGo(g, d, t) BY <1>0, <1>1, <1>2, <2>3 DEF MayGo, Near, AfterLaunch
    <2>6. t.pc \notin Near /\ thr[g][d].pc \in Near BY <1>0, <2>3 DEF Near
    <2>7. ~IsStarted(session, a) BY <1>1, <1>7 DEF PreEffect, IsStarted
    <2>8. c.state \in {"none", "dead"}
      <3>1. child[a] \in ChildType BY <1>2, SameChild
      <3>2. child[a].state \notin Acted BY <1>2, <2>7, SameChild
      <3>3. child'[a] = c BY <1>2, <1>6 DEF Inv, Types
      <3>4. CASE child[a].state \in Live
        <4>1. child'[a] = Ended(child[a]) BY <1>2, <1>5, <1>7, <3>4 DEF Inv, Types
        <4> QED BY <1>2, <2>7, <3>3, <3>4, <4>1, EndedChild
      <3>5. CASE child[a].state \notin Live
        <4>1. child'[a] = child[a] BY <1>5, <3>5
        <4>2. child[a].state \in {"none", "dead"}
          BY <3>1, <3>2, <3>5 DEF ChildType, ChildStates, Acted, Live
        <4> QED BY <3>3, <4>1, <4>2
      <3> QED BY <3>4, <3>5
    <2> HIDE DEF MayGo, Proven, IsBound, IsStarted, IsSettled, o, Near
    <2> QED BY <1>1, <1>2, <1>3, <1>6, <2>2, <2>3, <2>4, <2>5, <2>6, <2>8, LaunchTouches
  <1>8. CASE UNCHANGED op /\ (Goto(g, d, "rejected") \/ Goto(g, d, "blocked"))
    <2>1. PICK t \in LaunchType : Moves(g, d, t) /\ t.pc \in {"rejected", "blocked"} /\ t.n = thr[g][d].n
      BY <1>8, GotoLaunch DEF LaunchSteps
    <2>2. UNCHANGED cmd BY <1>8, GotoLaunch DEF LaunchSteps
    <2>3. MayGo(g, d, t) BY <1>0, <1>1, <1>2, <2>1 DEF MayGo, Near, AfterLaunch
    <2>4. /\ op' = [op EXCEPT ![a] = op[a]]
          /\ op[a].state = "pre_effect_terminal" => Proven(op, a)
          /\ op[a].state = "reconciled" => IsSettled(session, a)
      BY <1>2, <1>8, SameChild
    <2>5. Proven(op, a) <=> op[a].failure \in {"infra", "cancelled"} BY DEF Proven
    <2> HIDE DEF MayGo, Proven, IsBound, IsStarted, IsSettled
    <2> QED BY <1>1, <1>2, <1>3, <1>6, <2>1, <2>2, <2>3, <2>4, <2>5, LaunchTouches
  <1>9. CASE /\ op' = [op EXCEPT ![a] = [state |-> "blocked", failure |-> "unknown"]]
             /\ Goto(g, d, "blocked")
    <2> DEFINE o == [state |-> "blocked", failure |-> "unknown"]
    <2>1. PICK t \in LaunchType : Moves(g, d, t) /\ t.pc = "blocked" /\ t.n = thr[g][d].n
      BY <1>9, GotoLaunch DEF LaunchSteps
    <2>2. UNCHANGED cmd BY <1>9, GotoLaunch DEF LaunchSteps
    <2>3. MayGo(g, d, t) BY <1>0, <1>1, <1>2, <2>1 DEF MayGo, Near, AfterLaunch
    <2>4. op' = [op EXCEPT ![a] = o] /\ o \in OpType /\ o.state = "blocked" /\ o.failure = "unknown"
      BY <1>9 DEF OpType, OpStates
    <2> HIDE DEF MayGo, Proven, IsBound, IsStarted, IsSettled, o
    <2> QED BY <1>1, <1>2, <1>3, <1>6, <2>1, <2>2, <2>3, <2>4, LaunchTouches
  <1> QED BY <1>5, <1>7, <1>8, <1>9

\* An operation whose attempt is settled is reconciled.
LEMMA ReconciledTouches ==
  ASSUME Inv, NEW a \in Actors, IsSettled(session, a), UNCHANGED child,
         op' = op \/ op' = [op EXCEPT ![a].state = "reconciled"]
  PROVE  /\ op' \in [Actors -> OpType]
         /\ \A b \in Actors : Touched(b) /\ (Proven(op', b) => Proven(op, b))
         /\ \A b \in Actors : b # a => op'[b] = op[b]
  <1>1. op \in [Actors -> OpType] BY DEF Inv, Types
  <1>2. CASE op' = op
    <2>1. \A b \in Actors : Touched(b) BY <1>2, Untouched
    <2> QED BY <1>1, <1>2, <2>1 DEF Proven
  <1>3. CASE op' = [op EXCEPT ![a].state = "reconciled"]
    <2>1. /\ op' \in [Actors -> OpType] /\ op'[a].state = "reconciled"
          /\ op'[a].failure = op[a].failure
          /\ \A b \in Actors : b # a => op'[b] = op[b]
      BY <1>1, <1>3 DEF OpType, OpStates
    <2>2. ASSUME NEW b \in Actors, b # a PROVE Touched(b) BY <2>1, <2>2, Untouched
    <2>3. Touched(a)
      <3>1. /\ Proven(op, a) => child[a].state \in {"none", "dead"}
            /\ child[a].state \in Acted => IsStarted(session, a)
            /\ ~IsBound(session, a) => child[a].state = "none" /\ ~Proven(op, a)
        BY SameChild
      <3>2. Proven(op', a) <=> Proven(op, a) BY <2>1 DEF Proven
      <3> HIDE DEF Proven, IsBound, IsStarted, IsSettled
      <3> QED BY <2>1, <3>1, <3>2 DEF Touched
    <2>4. \A b \in Actors : Proven(op', b) => Proven(op, b) BY <2>1 DEF Proven
    <2> QED BY <2>1, <2>2, <2>3, <2>4
  <1> QED BY <1>2, <1>3

LEMMA StepReconcile ==
  ASSUME Inv, NEW g \in Commands, NEW d \in Delegations, Reconcile(g, d) \/ Settle(g, d)
  PROVE  Inv'
  <1>0. cmd[g].pc = "run" /\ thr[g][d].pc \in {"reconcile", "settle"}
    BY DEF Reconcile, Settle, Launching
  <1>1. PICK n \in 1..2 : n = thr[g][d].n BY <1>0, LaunchKnows
  <1> DEFINE a == <<d, n>>
  <1>2. a \in Actors /\ IsSettled(session, a) BY <1>0, <1>1, LaunchKnows
  <1>3. ActorIn(g, d) = a BY <1>1 DEF ActorIn
  <1>4. UNCHANGED <<session, writer, lease, child, gone, crashes>> BY DEF Reconcile, Settle
  <1>5. op' = op \/ op' = [op EXCEPT ![a].state = "reconciled"]
    BY <1>3 DEF Reconcile, Settle, Reconciled
  <1>6. \E to \in {"rejected", "release", "fulfilled"} : Goto(g, d, to) BY DEF Reconcile, Settle
  <1>7. PICK t \in LaunchType : /\ Moves(g, d, t) /\ t.n = thr[g][d].n
                                /\ t.pc \in {"rejected", "release", "fulfilled"}
    BY <1>6, GotoLaunch DEF LaunchSteps
  <1>8. UNCHANGED cmd BY <1>6, GotoLaunch DEF LaunchSteps
  <1>9. MayGo(g, d, t) BY <1>0, <1>7 DEF MayGo, Near, AfterLaunch
  <1>10. /\ op' \in [Actors -> OpType] /\ Touched(a) /\ (Proven(op', a) => Proven(op, a))
         /\ \A b \in Actors : b # a => op'[b] = op[b]
    BY <1>2, <1>4, <1>5, ReconciledTouches
  <1>11. child' \in [Actors -> ChildType] BY <1>4 DEF Inv, Types
  <1> HIDE DEF MayGo, Proven, Touched
  <1> QED BY <1>1, <1>4, <1>7, <1>8, <1>9, <1>10, <1>11, LaunchGoes

LEMMA FreeWriter == Free \in WriterType
  <1>1. <<>> \in Seq(Event) OBVIOUS
  <1>2. 0 \in 0..MaxCommands /\ 0 \in 0..NDelegations BY DelegationAssumption
  <1>3. "none" \in Steps BY DEF Steps
  <1> HIDE DEF Event, Steps
  <1> QED BY <1>1, <1>2, <1>3 DEF Free, WriterType

\* The start frame: the writer is given up.
LEMMA StepSendStart ==
  ASSUME Inv, NEW g \in Commands, NEW d \in Delegations, SendStart(g, d)
  PROVE  Inv'
  <1>0. cmd[g].pc = "run" /\ thr[g][d].pc = "sending" BY DEF SendStart, Launching
  <1>1. PICK n \in 1..2 : n = thr[g][d].n BY <1>0, LaunchKnows
  <1> DEFINE a == <<d, n>>
  <1>2. /\ a \in Actors /\ IsBound(session, a) /\ ~Proven(op, a) /\ op[a] \in OpType
    BY <1>0, <1>1, LaunchKnows DEF Near
  <1>3. ActorIn(g, d) = a BY <1>1 DEF ActorIn
  <1>4. UNCHANGED <<session, lease, cmd, gone, crashes>> /\ writer' = Free BY DEF SendStart
  <1>5. LaunchOK(g, d) /\ Types BY DEF Inv
  <1>6. IsStarted(session, a) /\ writer.by = g /\ writer.of = d BY <1>0, <1>1, <1>5 DEF LaunchOK
  <1>7. /\ op' = op \/ op' = [op EXCEPT ![a].state = "running"]
        /\ child' = child \/ child' = [child EXCEPT ![a].state = IF @ = "shaken" THEN "told" ELSE @]
        /\ \/ thr' = [thr EXCEPT ![g][d].pc = "wait"]
           \/ Throw(g, d, "infra")
    BY <1>3 DEF SendStart
  <1>8. PICK t \in LaunchType : Moves(g, d, t) /\ t.n = thr[g][d].n /\ t.pc \in {"wait", "fail"}
    <2>1. CASE Throw(g, d, "infra") BY <2>1, ThrowLaunch
    <2>2. CASE thr' = [thr EXCEPT ![g][d].pc = "wait"]
      <3> DEFINE t == [thr[g][d] EXCEPT !.pc = "wait"]
      <3>1. t \in LaunchType /\ t.n = thr[g][d].n /\ t.pc = "wait"
        BY <1>0, LaunchKnows, ZenonT(60) DEF LaunchType, LaunchSteps
      <3>2. Moves(g, d, t) BY <2>2 DEF Moves
      <3> QED BY <3>1, <3>2
    <2> QED BY <1>7, <2>1, <2>2
  <1>9. /\ thr' \in [Commands -> [Delegations -> LaunchType]]
        /\ thr'[g][d] = t
        /\ \A h \in Commands, e \in Delegations : h # g \/ e # d => thr'[h][e] = thr[h][e]
    BY <1>5, <1>8, ThrUpdate
  <1>10. /\ op' \in [Actors -> OpType] /\ op'[a].failure = op[a].failure
         /\ op'[a].state \in {op[a].state, "running"}
         /\ \A b \in Actors : b # a => op'[b] = op[b]
    <2> DEFINE o == [op[a] EXCEPT !.state = "running"]
    <2>1. o \in OpType /\ o.state = "running" /\ o.failure = op[a].failure
      <3> HIDE DEF a
      <3> QED BY <1>2 DEF OpType, OpStates
    <2>2. op' = op \/ op' = [op EXCEPT ![a] = o] BY <1>7
    <2> HIDE DEF a, o, OpType
    <2> QED BY <1>2, <1>5, <2>1, <2>2 DEF Types
  <1>11. /\ child' \in [Actors -> ChildType] /\ child'[a].state \in {child[a].state, "told"}
         /\ \A b \in Actors : b # a => child'[b] = child[b]
    <2> DEFINE c == [child[a] EXCEPT !.state = IF @ = "shaken" THEN "told" ELSE @]
    <2>1. c \in ChildType /\ c.state \in {child[a].state, "told"}
      <3>1. child[a] \in ChildType BY <1>2, SameChild
      <3> HIDE DEF a
      <3> QED BY <3>1 DEF ChildType, ChildStates
    <2>2. child' = child \/ child' = [child EXCEPT ![a] = c] BY <1>7
    <2> HIDE DEF a, c, ChildType
    <2> QED BY <1>2, <1>5, <2>1, <2>2 DEF Types
  <1>12. \A b \in Actors : Touched(b)
    <2>1. ASSUME NEW b \in Actors, b # a PROVE Touched(b) BY <1>10, <1>11, <2>1, Untouched
    <2>2. Touched(a)
      <3>1. ~Proven(op', a) BY <1>2, <1>10 DEF Proven
      <3>2. op[a].state = "pre_effect_terminal" => Proven(op, a) BY <1>2, SameChild
      <3>3. op[a].state = "reconciled" => IsSettled(session, a) BY <1>2, SameChild
      <3> HIDE DEF Proven, IsBound, IsStarted, IsSettled
      <3> QED BY <1>2, <1>6, <1>10, <3>1, <3>2, <3>3 DEF Touched
    <2> QED BY <2>1, <2>2
  <1>13. Goes BY <1>4, StillGoes
  <1>14. /\ ProvenStays /\ ActedIsStarted' /\ UnboundIsNew' /\ OperationOK' /\ NoEffectIsProven'
    BY <1>4, <1>12, <1>13, RecordsKeep
  <1>15. Free \in WriterType BY FreeWriter
  <1>16. Types' BY <1>4, <1>5, <1>9, <1>10, <1>11, <1>15 DEF Types
  <1>17. ASSUME NEW h \in Commands, NEW e \in Delegations, h # g \/ e # d
         PROVE  LaunchOK(h, e)' /\ (Danger(h, e)' <=> Danger(h, e))
    <2>1. thr[h][e].pc \notin {"holding", "sending"}
      <3>1. LaunchOK(h, e) BY DEF Inv
      <3> QED BY <1>6, <1>17, <3>1 DEF LaunchOK
    <2>2. thr'[h][e] = thr[h][e] BY <1>9, <1>17
    <2> QED BY <1>4, <1>13, <2>1, <2>2, LaunchFrame
  <1>18. Danger(g, d) /\ thr'[g][d].n = thr[g][d].n BY <1>0, <1>8, <1>9 DEF Danger
  <1>19. LaunchOK(g, d)'
    <2> HIDE DEF HasAttempt, IsBound, IsStarted, IsSettled, IsClaimed, Danger
    <2> QED BY <1>0, <1>1, <1>2, <1>4, <1>5, <1>8, <1>9 DEF LaunchOK, AfterLaunch
  <1>20. ASSUME NEW h \in Commands, NEW e \in Delegations, Danger(h, e)'
         PROVE  Danger(h, e) /\ thr'[h][e].n = thr[h][e].n
    <2>1. CASE h = g /\ e = d BY <1>18, <2>1
    <2>2. CASE h # g \/ e # d BY <1>9, <1>17, <1>20, <2>2
    <2> QED BY <2>1, <2>2
  <1>21. \A b \in Actors : ~(Proven(op', b) /\ ~Proven(op, b)) BY <1>10 DEF Proven
  <1>22. ProvenIsOver' /\ OneDanger'
    <2> HIDE DEF Danger
    <2> QED BY <1>12, <1>20, <1>21, DangerKeeps
  <1>23. ASSUME NEW h \in Commands PROVE CommandOK(h)'
    <2>1. CommandOK(h) BY DEF Inv
    <2>2. cmd[h].pc # "holding" BY <1>6, <2>1 DEF CommandOK, Delegations
    <2> QED BY <1>4, <1>13, <2>2, CommandFrame
  <1>24. WriterOK' BY <1>4 DEF WriterOK, Free, Commands
  <1>25. SessionOK(session)' BY <1>13 DEF Goes
  <1> HIDE DEF LaunchOK, CommandOK, Danger
  <1>26. \A h \in Commands, e \in Delegations : LaunchOK(h, e)' BY <1>17, <1>19
  <1> QED BY <1>14, <1>16, <1>22, <1>23, <1>24, <1>25, <1>26 DEF Inv

\* A launch that keeps its actor takes the writer.
LEMMA HoldGoes ==
  ASSUME Inv, NEW g \in Commands, NEW d \in Delegations, NEW events, NEW then, NEW refused,
         cmd[g].pc = "run", writer.by = 0, thr[g][d].pc \notin {"idle", "holding", "sending", "rejected"},
         Hold(g, d, events, then, refused), Goto(g, d, "holding"),
         events \in Seq(Event), events # <<>>,
         then \in LaunchSteps \ {"holding", "idle", "handshake", "start", "fail", "wait", "spawn", "launch"},
         refused \in {"fail", "rejected"}, refused = "fail" => then = "sending",
         then = "sending" =>
           events = <<OfAttempt("started", <<d, thr[g][d].n>>)>> /\ thr[g][d].pc \in Near,
         then \in {"reconcile", "settle"} =>
           \/ IsSettled(session, <<d, thr[g][d].n>>)
           \/ Pending(events, "settled", <<d, thr[g][d].n>>),
         then \in AfterLaunch => HasAttempt(session, <<d, thr[g][d].n>>),
         \A i \in DOMAIN events :
           EventOK([by |-> g, of |-> d, todo |-> events, then |-> then, refused |-> refused],
                   session, op, events[i]),
         UNCHANGED <<session, lease, op, child, gone, crashes>>
  PROVE  Inv'
  <1> DEFINE w == [by |-> g, of |-> d, todo |-> events, then |-> then, refused |-> refused]
  <1>1. PICK t \in LaunchType : Moves(g, d, t) /\ t.pc = "holding" /\ t.n = thr[g][d].n
    BY GotoLaunch DEF LaunchSteps
  <1>2. UNCHANGED cmd BY GotoLaunch DEF LaunchSteps
  <1>3. w \in WriterType
    <2>1. g \in 0..MaxCommands /\ d \in 0..NDelegations BY DEF Commands, Delegations
    <2>2. then \in Steps /\ refused \in Steps BY DEF Steps, LaunchSteps
    <2> HIDE DEF Event, Steps
    <2> QED BY <2>1, <2>2 DEF WriterType
  <1>4. /\ w.by = g /\ w.of = d /\ w.todo = events /\ w.then = then /\ w.refused = refused
        /\ writer' = w
    BY DEF Hold
  <1>5. /\ t.n \in 1..2 /\ t.n <= session.envelopes[d] /\ IsClaimed(session, <<d, t.n>>)
    BY <1>1, LaunchKnows
  <1>6. \A i \in DOMAIN w.todo : EventOK(w, session, op, w.todo[i]) OBVIOUS
  <1> HIDE DEF w
  <1>7. Holding(g, d, t, w)
    <2> HIDE DEF HasAttempt, IsSettled, IsClaimed, Pending, EventOK
    <2> QED BY <1>1, <1>4, <1>5, <1>6 DEF Holding
  <1>8. OperationsBegin BY DEF OperationsBegin, Inv, Types
  <1> HIDE DEF Holding, OperationsBegin
  <1> QED BY <1>1, <1>2, <1>3, <1>4, <1>7, <1>8, LaunchHold

-----------------------------------------------------------------------------
(* The events the commands and the launches make. *)

LEMMA OfMade ==
  ASSUME NEW d \in Delegations, NEW type \in {"queued", "prepared", "accepted", "blocked", "cancel"}
  PROVE  Of(type, d) \in Event /\ Of(type, d).type = type /\ Of(type, d).d = d
  <1>1. Of(type, d) \in OfEvent /\ Of(type, d).type = type /\ Of(type, d).d = d BY DEF Of, OfEvent
  <1>2. \A e \in OfEvent : e \in Event BY DEF Event
  <1> HIDE DEF Event, OfEvent, Of
  <1> QED BY <1>1, <1>2

\* e is an event of this type about this attempt.
About(e, type, d, n) == e \in Event /\ e.type = type /\ e.d = d /\ e.n = n

LEMMA AttemptMade ==
  ASSUME NEW d \in Delegations, NEW n \in 0..2,
         NEW type \in {"reserved", "launch_requested", "started", "settled", "pre_effect_cancelled"}
  PROVE  About(OfAttempt(type, <<d, n>>), type, d, n)
  <1>1. /\ OfAttempt(type, <<d, n>>) \in AttemptEvent /\ OfAttempt(type, <<d, n>>).type = type
        /\ OfAttempt(type, <<d, n>>).d = d /\ OfAttempt(type, <<d, n>>).n = n
    BY DEF OfAttempt, AttemptEvent
  <1>2. \A e \in AttemptEvent : e \in Event BY DEF Event
  <1> HIDE DEF Event, AttemptEvent, OfAttempt
  <1> QED BY <1>1, <1>2 DEF About

LEMMA KindMade ==
  ASSUME NEW d \in Delegations, NEW n \in 1..2, NEW type \in {"terminal", "ready"},
         NEW kind \in Terminals \cup Known
  PROVE  /\ About(WithKind(type, <<d, n>>, kind), type, d, n)
         /\ WithKind(type, <<d, n>>, kind).kind = kind
  <1>1. /\ WithKind(type, <<d, n>>, kind) \in KindEvent /\ WithKind(type, <<d, n>>, kind).type = type
        /\ WithKind(type, <<d, n>>, kind).d = d /\ WithKind(type, <<d, n>>, kind).n = n
        /\ WithKind(type, <<d, n>>, kind).kind = kind
    <2> HIDE DEF Terminals, Known
    <2> QED BY DEF WithKind, KindEvent
  <1>2. \A e \in KindEvent : e \in Event BY DEF Event
  <1> HIDE DEF Event, KindEvent, WithKind
  <1> QED BY <1>1, <1>2 DEF About

LEMMA HeldMade ==
  ASSUME NEW d \in Delegations, NEW n \in 1..2, NEW type \in {"claim_released", "slot_released"},
         NEW g \in 0..MaxCommands
  PROVE  Held(type, <<d, n>>, g) \in Event /\ Held(type, <<d, n>>, g).type = type
  <1>1. Held(type, <<d, n>>, g) \in HeldEvent /\ Held(type, <<d, n>>, g).type = type
    BY DEF Held, HeldEvent
  <1>2. \A e \in HeldEvent : e \in Event BY DEF Event
  <1> HIDE DEF Event, HeldEvent, Held
  <1> QED BY <1>1, <1>2

LEMMA GrantMade ==
  ASSUME NEW d \in Delegations, NEW n \in 1..2, NEW g \in Commands
  PROVE  /\ Held("claim_granted", <<d, n>>, g) \in Event
         /\ Held("claim_granted", <<d, n>>, g).type = "claim_granted"
  <1>1. /\ Held("claim_granted", <<d, n>>, g) \in GrantEvent
        /\ Held("claim_granted", <<d, n>>, g).type = "claim_granted"
    BY DEF Held, GrantEvent
  <1>2. \A e \in GrantEvent : e \in Event BY DEF Event
  <1> HIDE DEF Event, GrantEvent, Held
  <1> QED BY <1>1, <1>2

SlotOf(d, n, g, k) == [type |-> "slot_claimed", d |-> d, n |-> n, group |-> g, slot |-> k]

LEMMA SlotMade ==
  ASSUME NEW d \in Delegations, NEW n \in 1..2, NEW g \in Commands, NEW k \in 1..2
  PROVE  /\ SlotOf(d, n, g, k) \in Event /\ SlotOf(d, n, g, k).type = "slot_claimed"
         /\ SlotOf(d, n, g, k).d = d /\ SlotOf(d, n, g, k).n = n
  <1>1. /\ SlotOf(d, n, g, k) \in SlotEvent /\ SlotOf(d, n, g, k).type = "slot_claimed"
        /\ SlotOf(d, n, g, k).d = d /\ SlotOf(d, n, g, k).n = n
    BY DEF SlotOf, SlotEvent
  <1>2. \A e \in SlotEvent : e \in Event BY DEF Event
  <1> HIDE DEF Event, SlotEvent, SlotOf
  <1> QED BY <1>1, <1>2

\* The events nothing has to be known for.
Plain == {e \in Event : e.type \notin {"reserved", "launch_requested", "started", "terminal", "ready",
                                       "settled", "pre_effect_cancelled"}}

LEMMA PlainEvents ==
  ASSUME NEW q \in Seq(Plain), NEW w, NEW s, NEW o
  PROVE  q \in Seq(Event) /\ \A i \in DOMAIN q : EventOK(w, s, o, q[i])
  <1>1. \A e \in Plain : e \in Event /\ EventOK(w, s, o, e) BY DEF Plain, EventOK
  <1> HIDE DEF Event, Plain, EventOK
  <1> QED BY <1>1

LEMMA OneEvent ==
  ASSUME NEW e \in Event
  PROVE  /\ <<e>> \in Seq(Event) /\ <<e>> # <<>> /\ DOMAIN <<e>> = {1} /\ <<e>>[1] = e
  <1> HIDE DEF Event
  <1> QED OBVIOUS

LEMMA TwoEvents ==
  ASSUME NEW e \in Event, NEW f \in Event
  PROVE  /\ <<e, f>> \in Seq(Event) /\ <<e, f>> # <<>> /\ DOMAIN <<e, f>> = {1, 2}
         /\ <<e, f>>[1] = e /\ <<e, f>>[2] = f
  <1> HIDE DEF Event
  <1> QED OBVIOUS

-----------------------------------------------------------------------------
(* The launches that take the writer. *)

LEMMA StepLaunchRequest ==
  ASSUME Inv, NEW g \in Commands, NEW d \in Delegations, LaunchRequest(g, d)
  PROVE  Inv'
  <1>0. cmd[g].pc = "run" /\ thr[g][d].pc = "launch" /\ writer.by = 0
    BY DEF LaunchRequest, Launching, WriterFree
  <1>1. PICK n \in 1..2 : n = thr[g][d].n BY <1>0, LaunchKnows
  <1> DEFINE a == <<d, n>>
  <1>2. a \in Actors /\ ActorIn(g, d) = a BY <1>1 DEF Actors, ActorIn
  <1>3. UNCHANGED <<session, lease, child, gone, crashes>> BY DEF LaunchRequest
  <1>4. CASE Goto(g, d, "rejected") /\ UNCHANGED <<op, writer>>
    <2>1. PICK t \in LaunchType : Moves(g, d, t) /\ t.pc = "rejected" /\ t.n = thr[g][d].n
      BY <1>4, GotoLaunch DEF LaunchSteps
    <2>2. UNCHANGED cmd BY <1>4, GotoLaunch DEF LaunchSteps
    <2>3. MayGo(g, d, t) BY <1>0, <2>1 DEF MayGo, Near, AfterLaunch
    <2> QED BY <1>3, <1>4, <2>1, <2>2, <2>3, JustGoes
  <1>5. CASE /\ op' = op \/ op' = [op EXCEPT ![a].state = "requested"]
             /\ Hold(g, d, <<OfAttempt("reserved", a), OfAttempt("launch_requested", a)>>,
                     "spawn", "rejected")
             /\ Goto(g, d, "holding")
    <2> DEFINE q == <<OfAttempt("reserved", a), OfAttempt("launch_requested", a)>>
               w == [by |-> g, of |-> d, todo |-> q, then |-> "spawn", refused |-> "rejected"]
    <2>1. /\ OfAttempt("reserved", a) \in Event /\ OfAttempt("reserved", a).type = "reserved"
          /\ OfAttempt("launch_requested", a) \in Event
          /\ OfAttempt("launch_requested", a).type = "launch_requested"
      <3>1. n \in 0..2 OBVIOUS
      <3> HIDE DEF Event, OfAttempt
      <3>2. About(OfAttempt("reserved", a), "reserved", d, n) BY <3>1, AttemptMade
      <3>3. About(OfAttempt("launch_requested", a), "launch_requested", d, n) BY <3>1, AttemptMade
      <3> QED BY <3>2, <3>3 DEF About
    <2>2. /\ q \in Seq(Event) /\ q # <<>> /\ DOMAIN q = {1, 2}
          /\ q[1].type = "reserved" /\ q[2].type = "launch_requested"
      BY <2>1, TwoEvents
    <2> HIDE DEF q
    <2>3. PICK t \in LaunchType : Moves(g, d, t) /\ t.pc = "holding" /\ t.n = thr[g][d].n
      BY <1>5, GotoLaunch DEF LaunchSteps
    <2>4. UNCHANGED cmd BY <1>5, GotoLaunch DEF LaunchSteps
    <2>5. w \in WriterType
      <3>1. g \in 0..MaxCommands /\ d \in 0..NDelegations BY DEF Commands, Delegations
      <3>2. "spawn" \in Steps /\ "rejected" \in Steps BY DEF Steps, LaunchSteps
      <3> HIDE DEF Event, Steps
      <3> QED BY <2>2, <3>1, <3>2 DEF WriterType
    <2>6. /\ w.by = g /\ w.of = d /\ w.todo = q /\ w.then = "spawn" /\ w.refused = "rejected"
          /\ writer' = w
      BY <1>5 DEF Hold, q
    <2>7. n <= session.envelopes[d] /\ IsClaimed(session, a) BY <1>0, <1>1, LaunchKnows
    <2>8. ASSUME NEW i \in DOMAIN q PROVE EventOK(w, session, op, q[i])
      <3>1. w.then = "spawn" /\ w.of # 0 BY <2>6 DEF Delegations
      <3>2. q[i].type \in {"reserved", "launch_requested"} BY <2>2
      <3> HIDE DEF w
      <3> QED BY <3>1, <3>2 DEF EventOK
    <2> HIDE DEF w
    <2>9. Holding(g, d, t, w)
      <3>1. q = <<OfAttempt("reserved", <<d, t.n>>), OfAttempt("launch_requested", <<d, t.n>>)>>
        BY <1>1, <2>3 DEF q
      <3>2. "spawn" \in LaunchSteps BY DEF LaunchSteps
      <3> HIDE DEF HasAttempt, IsSettled, IsClaimed, Pending, EventOK
      <3> QED BY <1>0, <1>1, <2>2, <2>3, <2>6, <2>7, <2>8, <3>1, <3>2 DEF Holding, AfterLaunch
    <2>10. OperationsBegin
      <3> DEFINE o == [op[a] EXCEPT !.state = "requested"]
      <3>1. o = [state |-> "requested", failure |-> op[a].failure] /\ o \in OpType
        BY <1>2, SameChild DEF OpType, OpStates
      <3>2. op' = op \/ op' = [op EXCEPT ![a] = o] BY <1>5
      <3>3. op \in [Actors -> OpType] BY DEF Inv, Types
      <3> HIDE DEF o, OpType, a
      <3>4. op' \in [Actors -> OpType] /\ \A b \in Actors : op'[b] = op[b] \/ (b = a /\ op'[b] = o)
        BY <1>2, <3>1, <3>2, <3>3
      <3> QED BY <1>3, <3>1, <3>4 DEF OperationsBegin
    <2> HIDE DEF Holding, OperationsBegin
    <2> QED BY <1>3, <2>3, <2>4, <2>5, <2>6, <2>9, <2>10, LaunchHold
  <1> QED BY <1>2, <1>4, <1>5 DEF LaunchRequest

\* A launch gives up.
LEMMA Rejects ==
  ASSUME Inv, NEW g \in Commands, NEW d \in Delegations, cmd[g].pc = "run",
         thr[g][d].pc \notin {"idle", "holding", "sending", "rejected"}, Goto(g, d, "rejected"),
         UNCHANGED <<session, writer, lease, op, child, gone, crashes>>
  PROVE  Inv'
  <1>1. PICK t \in LaunchType : Moves(g, d, t) /\ t.pc = "rejected" /\ t.n = thr[g][d].n
    BY GotoLaunch DEF LaunchSteps
  <1>2. UNCHANGED cmd BY GotoLaunch DEF LaunchSteps
  <1>3. MayGo(g, d, t) BY <1>1 DEF MayGo, Near, AfterLaunch
  <1> QED BY <1>1, <1>2, <1>3, JustGoes

LEMMA PlainHold ==
  ASSUME Inv, NEW g \in Commands, NEW d \in Delegations, NEW events \in Seq(Plain), events # <<>>,
         NEW then \in {"rejected", "prepare"},
         cmd[g].pc = "run", writer.by = 0, thr[g][d].pc \notin {"idle", "holding", "sending", "rejected"},
         Hold(g, d, events, then, "rejected"), Goto(g, d, "holding"),
         UNCHANGED <<session, lease, op, child, gone, crashes>>
  PROVE  Inv'
  <1> DEFINE w == [by |-> g, of |-> d, todo |-> events, then |-> then, refused |-> "rejected"]
  <1>1. events \in Seq(Event) BY PlainEvents
  <1>2. \A i \in DOMAIN events : EventOK(w, session, op, events[i])
    <2> HIDE DEF w
    <2> QED BY PlainEvents
  <1> HIDE DEF Event, Plain, EventOK
  <1> QED BY <1>1, <1>2, HoldGoes DEF LaunchSteps, AfterLaunch

LEMMA PlainOf ==
  ASSUME NEW d \in Delegations, NEW type \in {"queued", "prepared", "accepted", "blocked", "cancel"}
  PROVE  <<Of(type, d)>> \in Seq(Plain) /\ <<Of(type, d)>> # <<>>
  <1>1. Of(type, d) \in Plain BY OfMade DEF Plain
  <1> HIDE DEF Plain, Of
  <1> QED BY <1>1

LEMMA StepBlocked ==
  ASSUME Inv, NEW g \in Commands, NEW d \in Delegations, RecordBlocked(g, d) \/ Lost(g, d)
  PROVE  Inv'
  <1>0. cmd[g].pc = "run" /\ thr[g][d].pc \in {"blocked", "lost"} /\ writer.by = 0
    BY DEF RecordBlocked, Lost, Launching, WriterFree
  <1>1. UNCHANGED <<session, lease, op, child, gone, crashes>> BY DEF RecordBlocked, Lost
  <1>2. CASE Goto(g, d, "rejected") /\ UNCHANGED writer BY <1>0, <1>1, <1>2, Rejects
  <1>3. CASE Hold(g, d, <<Of("blocked", d)>>, "rejected", "rejected") /\ Goto(g, d, "holding")
    <2>1. <<Of("blocked", d)>> \in Seq(Plain) /\ <<Of("blocked", d)>> # <<>> BY PlainOf
    <2> QED BY <1>0, <1>1, <1>3, <2>1, PlainHold
  <1> QED BY <1>2, <1>3 DEF RecordBlocked, Lost

LEMMA PlainHeld ==
  ASSUME NEW d \in Delegations, NEW n \in 1..2, NEW g \in 0..MaxCommands
  PROVE  /\ Held("claim_released", <<d, n>>, g) \in Plain
         /\ Held("slot_released", <<d, n>>, g) \in Plain
  BY HeldMade DEF Plain

LEMMA PlainReleasing ==
  ASSUME NEW d \in Delegations, NEW n \in 1..2, NEW g \in 0..MaxCommands
  PROVE  Releasing(<<d, n>>, g) \in Seq(Plain) /\ Releasing(<<d, n>>, g) # <<>>
  <1>1. /\ Held("claim_released", <<d, n>>, g) \in Plain
        /\ Held("slot_released", <<d, n>>, g) \in Plain
    BY PlainHeld
  <1> HIDE DEF Plain, Held
  <1> QED BY <1>1 DEF Releasing

LEMMA StepRelease ==
  ASSUME Inv, NEW g \in Commands, NEW d \in Delegations, Release(g, d)
  PROVE  Inv'
  <1>0. cmd[g].pc = "run" /\ thr[g][d].pc = "release" /\ writer.by = 0
    BY DEF Release, Launching, WriterFree
  <1>1. PICK n \in 1..2 : n = thr[g][d].n BY <1>0, LaunchKnows
  <1>2. /\ UNCHANGED <<session, lease, op, child, gone, crashes>> /\ Goto(g, d, "holding")
        /\ Hold(g, d, Releasing(<<d, n>>, g), "prepare", "rejected")
    BY <1>1 DEF Release, ActorIn
  <1>3. Releasing(<<d, n>>, g) \in Seq(Plain) /\ Releasing(<<d, n>>, g) # <<>>
    <2>1. g \in 0..MaxCommands BY DEF Commands
    <2> HIDE DEF Plain, Releasing
    <2> QED BY <2>1, PlainReleasing
  <1> HIDE DEF Plain, Releasing
  <1> QED BY <1>0, <1>2, <1>3, PlainHold

LEMMA StepStart ==
  ASSUME Inv, NEW g \in Commands, NEW d \in Delegations, Start(g, d)
  PROVE  Inv'
  <1>0. cmd[g].pc = "run" /\ thr[g][d].pc = "start" /\ writer.by = 0
    BY DEF Start, Launching, WriterFree
  <1>1. PICK n \in 1..2 : n = thr[g][d].n BY <1>0, LaunchKnows
  <1>2. UNCHANGED <<session, lease, op, child, gone, crashes>> BY DEF Start
  <1>3. CASE \E why \in {"cancelled", "stale"} : Throw(g, d, why) /\ UNCHANGED <<writer, cmd>>
    <2>1. PICK t \in LaunchType : Moves(g, d, t) /\ t.pc = "fail" /\ t.n = thr[g][d].n
      BY <1>3, ThrowLaunch
    <2>2. MayGo(g, d, t) BY <1>0, <2>1 DEF MayGo, Near, AfterLaunch
    <2> QED BY <1>2, <1>3, <2>1, <2>2, JustGoes
  <1>4. CASE Hold(g, d, <<OfAttempt("started", <<d, n>>)>>, "sending", "fail") /\ Goto(g, d, "holding")
    <2> DEFINE e == OfAttempt("started", <<d, n>>)
               w == [by |-> g, of |-> d, todo |-> <<e>>, then |-> "sending", refused |-> "fail"]
    <2>1. n \in 0..2 OBVIOUS
    <2>2. e \in Event /\ e.type = "started"
      <3>1. About(e, "started", d, n) BY <2>1, AttemptMade
      <3> HIDE DEF e
      <3> QED BY <3>1 DEF About
    <2>3. EventOK(w, session, op, e)
      <3>1. w.then = "sending" /\ w.of # 0 BY DEF Delegations
      <3> HIDE DEF w, e
      <3> QED BY <2>2, <3>1 DEF EventOK
    <2> DEFINE q == <<e>>
    <2>4. q \in Seq(Event) /\ q # <<>> /\ DOMAIN q = {1} /\ q[1] = e
      <3> HIDE DEF e
      <3> QED BY <2>2, OneEvent
    <2>5. \A i \in DOMAIN q : EventOK(w, session, op, q[i])
      <3> HIDE DEF EventOK, e, w, q
      <3> QED BY <2>3, <2>4
    <2>6. q = <<OfAttempt("started", <<d, thr[g][d].n>>)>> BY <1>1
    <2>7. Hold(g, d, q, "sending", "fail") BY <1>4
    <2>8. \A i \in DOMAIN q :
            EventOK([by |-> g, of |-> d, todo |-> q, then |-> "sending", refused |-> "fail"],
                    session, op, q[i])
      BY <2>5
    <2> HIDE DEF q, e, w, EventOK
    <2> QED BY <1>0, <1>2, <1>4, <2>4, <2>6, <2>7, <2>8, HoldGoes DEF LaunchSteps, AfterLaunch, Near
  <1> QED BY <1>1, <1>3, <1>4 DEF Start, ActorIn

LEMMA StepImport ==
  ASSUME Inv, NEW g \in Commands, NEW d \in Delegations, Import(g, d)
  PROVE  Inv'
  <1>0. cmd[g].pc = "run" /\ thr[g][d].pc = "import" /\ writer.by = 0
    BY DEF Import, Launching, WriterFree
  <1>1. PICK n \in 1..2 : n = thr[g][d].n BY <1>0, LaunchKnows
  <1>2. UNCHANGED <<session, lease, op, child, gone, crashes>> BY DEF Import
  <1>3. CASE Goto(g, d, "rejected") /\ UNCHANGED writer BY <1>0, <1>2, <1>3, Rejects
  <1>4. CASE /\ Hold(g, d, <<WithKind("terminal", <<d, n>>, child[<<d, n>>].result)>>, "receipt", "rejected")
             /\ Goto(g, d, "holding")
    <2>1. HasAttempt(session, <<d, n>>) /\ child[<<d, n>>] \in ChildType
      BY <1>0, <1>1, LaunchKnows DEF AfterLaunch
    <2>2. PICK k \in Terminals : k = child[<<d, n>>].result /\ k # "pre_effect"
      BY <2>1 DEF ChildType, Outcomes, Terminals
    <2> DEFINE e == WithKind("terminal", <<d, n>>, k)
               q == <<e>>
               w == [by |-> g, of |-> d, todo |-> q, then |-> "receipt", refused |-> "rejected"]
    <2>b. k \in Terminals \cup Known OBVIOUS
    <2>a. About(e, "terminal", d, n) /\ e.kind = k BY <2>b, KindMade
    <2> HIDE DEF e
    <2>3. e \in Event /\ e.type = "terminal" /\ e.d = d /\ e.n = n /\ e.kind = k BY <2>a DEF About
    <2>4. q \in Seq(Event) /\ q # <<>> /\ DOMAIN q = {1} /\ q[1] = e BY <2>3, OneEvent
    <2> HIDE DEF q
    <2>5. \A i \in DOMAIN q : EventOK(w, session, op, q[i])
      <3>1. EventOK(w, session, op, e) BY <2>1, <2>2, <2>3 DEF EventOK, HasAttempt
      <3> HIDE DEF EventOK, w
      <3> QED BY <2>4, <3>1
    <2>6. Hold(g, d, q, "receipt", "rejected") BY <1>4, <2>2 DEF q, e
    <2> HIDE DEF EventOK
    <2> QED BY <1>0, <1>1, <1>2, <1>4, <2>1, <2>4, <2>5, <2>6, HoldGoes DEF LaunchSteps, AfterLaunch
  <1> QED BY <1>1, <1>3, <1>4 DEF Import, ActorIn

LEMMA StepReceipt ==
  ASSUME Inv, NEW g \in Commands, NEW d \in Delegations, Receipt(g, d)
  PROVE  Inv'
  <1>0. cmd[g].pc = "run" /\ thr[g][d].pc = "receipt" /\ writer.by = 0
    BY DEF Receipt, Launching, WriterFree
  <1>1. PICK n \in 1..2 : n = thr[g][d].n BY <1>0, LaunchKnows
  <1>2. UNCHANGED <<session, lease, op, child, gone, crashes>> BY DEF Receipt
  <1>3. CASE Goto(g, d, "rejected") /\ UNCHANGED writer BY <1>0, <1>2, <1>3, Rejects
  <1>4. CASE /\ \E r \in ReceiptsFor(child[<<d, n>>].result) :
                  Hold(g, d, <<WithKind("ready", <<d, n>>, r), Of("accepted", d),
                               OfAttempt("settled", <<d, n>>)>>, "settle", "rejected")
             /\ Goto(g, d, "holding")
    <2>1. HasAttempt(session, <<d, n>>)
      BY <1>0, <1>1, LaunchKnows DEF AfterLaunch
    <2>2. PICK r \in Known :
                  Hold(g, d, <<WithKind("ready", <<d, n>>, r), Of("accepted", d),
                               OfAttempt("settled", <<d, n>>)>>, "settle", "rejected")
      BY <1>4 DEF ReceiptsFor, Known
    <2> DEFINE e1 == WithKind("ready", <<d, n>>, r)
               e2 == Of("accepted", d)
               e3 == OfAttempt("settled", <<d, n>>)
               q == <<e1, e2, e3>>
               w == [by |-> g, of |-> d, todo |-> q, then |-> "settle", refused |-> "rejected"]
    <2>d. r \in Terminals \cup Known OBVIOUS
    <2>a. About(e1, "ready", d, n) /\ e1.kind = r BY <2>d, KindMade
    <2>4. e2 \in Event /\ e2.type = "accepted" BY OfMade
    <2>b. n \in 0..2 OBVIOUS
    <2>c. About(e3, "settled", d, n) BY <2>b, AttemptMade
    <2> HIDE DEF e1, e2, e3
    <2>3. e1 \in Event /\ e1.type = "ready" /\ e1.d = d /\ e1.n = n /\ e1.kind = r BY <2>a DEF About
    <2>5. e3 \in Event /\ e3.type = "settled" /\ e3.d = d /\ e3.n = n BY <2>c DEF About
    <2>6. q \in Seq(Event) /\ q # <<>> /\ DOMAIN q = {1, 2, 3} /\ q[1] = e1 /\ q[2] = e2 /\ q[3] = e3
      <3> HIDE DEF Event
      <3> QED BY <2>3, <2>4, <2>5
    <2> HIDE DEF q
    <2>7. \A i \in DOMAIN q : EventOK(w, session, op, q[i])
      <3>1. EventOK(w, session, op, e1) BY <2>1, <2>3 DEF EventOK, HasAttempt
      <3>2. EventOK(w, session, op, e2) BY <2>4 DEF EventOK
      <3>3. EventOK(w, session, op, e3) BY <2>1, <2>5 DEF EventOK, HasAttempt
      <3> HIDE DEF EventOK, w
      <3> QED BY <2>6, <3>1, <3>2, <3>3
    <2>8. Hold(g, d, q, "settle", "rejected") BY <2>2 DEF q, e1, e2, e3
    <2>9. Pending(q, "settled", <<d, thr[g][d].n>>) BY <1>1, <2>5, <2>6 DEF Pending
    <2> HIDE DEF EventOK, Pending
    <2> QED BY <1>0, <1>1, <1>2, <1>4, <2>1, <2>6, <2>7, <2>8, <2>9, HoldGoes DEF LaunchSteps, AfterLaunch
  <1> QED BY <1>1, <1>3, <1>4 DEF Receipt, ActorIn

\* What the recovery of an attempt appends.
LEMMA RecoveringFacts ==
  ASSUME Inv, NEW d \in Delegations, NEW n \in 1..2, Recoverable(session, <<d, n>>)
  PROVE  /\ Recovering(session, <<d, n>>) \in Seq(Event)
         /\ HasAttempt(session, <<d, n>>)
         /\ \A w : \A i \in DOMAIN Recovering(session, <<d, n>>) :
              EventOK(w, session, op, Recovering(session, <<d, n>>)[i])
         /\ \/ IsSettled(session, <<d, n>>)
            \/ Pending(Recovering(session, <<d, n>>), "settled", <<d, n>>)
  <1> DEFINE a == <<d, n>>
             e1 == OfAttempt("pre_effect_cancelled", a)
             e2 == WithKind("terminal", a, "pre_effect")
             e3 == OfAttempt("settled", a)
             E == {e1, e2, e3}
             q == Recovering(session, a)
  <1>1. Has(session, d, n) /\ Proven(op, a) BY DEF Recoverable, Proven
  <1>2. n \in 0..2 /\ n # 0 /\ "pre_effect" \in Terminals \cup Known BY DEF Terminals
  <1>a. About(e1, "pre_effect_cancelled", d, n) BY <1>2, AttemptMade
  <1>b. About(e3, "settled", d, n) BY <1>2, AttemptMade
  <1>c. About(e2, "terminal", d, n) /\ e2.kind = "pre_effect" BY <1>2, KindMade
  <1>d. q = (IF Attempt(session, d, n).terminal = "none"
             THEN <<IF op[a].failure = "cancelled" THEN e1 ELSE e2>> ELSE <<>>)
            \o (IF Attempt(session, d, n).settled THEN <<>> ELSE <<e3>>)
    BY DEF Recovering
  <1> HIDE DEF e1, e2, e3, q
  <1>3. e1 \in Event /\ e1.type = "pre_effect_cancelled" /\ e1.d = d /\ e1.n = n BY <1>a DEF About
  <1>4. e3 \in Event /\ e3.type = "settled" /\ e3.d = d /\ e3.n = n BY <1>b DEF About
  <1>5. e2 \in Event /\ e2.type = "terminal" /\ e2.d = d /\ e2.n = n /\ e2.kind = "pre_effect"
    BY <1>c DEF About
  <1>6. ASSUME NEW w, NEW e \in E PROVE EventOK(w, session, op, e)
    <2> HIDE DEF Has, Proven
    <2> QED BY <1>1, <1>2, <1>3, <1>4, <1>5 DEF EventOK, Terminals
  <1>7. q \in Seq(E) /\ (~Attempt(session, d, n).settled => \E i \in DOMAIN q : q[i] = e3)
    <2>a. PICK x \in E : x = IF op[a].failure = "cancelled" THEN e1 ELSE e2 OBVIOUS
    <2>b. <<x>> \in Seq(E) /\ <<e3>> \in Seq(E) /\ <<>> \in Seq(E)
      <3>1. e3 \in E OBVIOUS
      <3> HIDE DEF E
      <3> QED BY <3>1
    <2> HIDE DEF E
    <2>1. PICK p \in Seq(E) : p = IF Attempt(session, d, n).terminal = "none" THEN <<x>> ELSE <<>>
      BY <2>b
    <2>2. PICK r \in Seq(E) : r = IF Attempt(session, d, n).settled THEN <<>> ELSE <<e3>>
      BY <2>b
    <2>3. q = p \o r BY <1>d, <2>a, <2>1, <2>2
    <2>4. /\ q \in Seq(E) /\ Len(p) \in Nat /\ Len(q) = Len(p) + Len(r)
          /\ \A k \in 1 .. Len(r) : q[Len(p) + k] = r[k]
      <3> HIDE DEF E
      <3> QED BY <2>3, ConcatFacts
    <2>5. ASSUME ~Attempt(session, d, n).settled PROVE \E i \in DOMAIN q : q[i] = e3
      <3>1. Len(r) = 1 /\ r[1] = e3 BY <2>2, <2>5
      <3>2. Len(p) + 1 \in DOMAIN q /\ q[Len(p) + 1] = e3
        <4> HIDE DEF E
        <4> QED BY <2>4, <3>1
      <3> QED BY <3>2
    <2> QED BY <2>4, <2>5
  <1>8. q \in Seq(Event) /\ \A i \in DOMAIN q : q[i] \in E
    <2>1. \A e \in E : e \in Event BY <1>3, <1>4, <1>5
    <2> HIDE DEF Event, E
    <2> QED BY <1>7, <2>1
  <1>9. ASSUME NEW w PROVE \A i \in DOMAIN q : EventOK(w, session, op, q[i])
    <2> HIDE DEF EventOK, E
    <2> QED BY <1>6, <1>8
  <1>10. IsSettled(session, a) \/ Pending(q, "settled", a)
    <2>1. CASE Attempt(session, d, n).settled BY <1>1, <2>1 DEF IsSettled, HasAttempt
    <2>2. CASE ~Attempt(session, d, n).settled
      <3>1. \E i \in DOMAIN q : q[i] = e3 BY <1>7, <2>2
      <3> QED BY <1>4, <3>1 DEF Pending
    <2> QED BY <2>1, <2>2
  <1> QED BY <1>1, <1>8, <1>9, <1>10 DEF HasAttempt, q

LEMMA StepRecover ==
  ASSUME Inv, NEW g \in Commands, NEW d \in Delegations, Recover(g, d)
  PROVE  Inv'
  <1>0. cmd[g].pc = "run" /\ thr[g][d].pc = "recover" /\ writer.by = 0
    BY DEF Recover, Launching, WriterFree
  <1>1. PICK n \in 1..2 : n = thr[g][d].n BY <1>0, LaunchKnows
  <1> DEFINE a == <<d, n>>
             q == Recovering(session, a)
  <1>2. UNCHANGED <<session, lease, op, child, gone, crashes>> BY DEF Recover
  <1>3. CASE Goto(g, d, "rejected") /\ UNCHANGED writer BY <1>0, <1>2, <1>3, Rejects
  <1>4. CASE Recoverable(session, a) /\ HoldOrGo(g, d, q, "reconcile", "rejected")
    <2>1. /\ q \in Seq(Event) /\ HasAttempt(session, a)
          /\ \A w : \A i \in DOMAIN q : EventOK(w, session, op, q[i])
          /\ IsSettled(session, a) \/ Pending(q, "settled", a)
      BY <1>4, RecoveringFacts
    <2> HIDE DEF q, EventOK
    <2>2. CASE q = <<>>
      <3>1. Goto(g, d, "reconcile") /\ UNCHANGED writer BY <1>4, <2>2 DEF HoldOrGo
      <3>2. IsSettled(session, a) BY <2>1, <2>2 DEF Pending
      <3>3. PICK t \in LaunchType : Moves(g, d, t) /\ t.pc = "reconcile" /\ t.n = thr[g][d].n
        BY <3>1, GotoLaunch DEF LaunchSteps
      <3>4. UNCHANGED cmd BY <3>1, GotoLaunch DEF LaunchSteps
      <3>5. MayGo(g, d, t)
        <4> HIDE DEF HasAttempt, IsSettled
        <4> QED BY <1>0, <1>1, <2>1, <3>2, <3>3 DEF MayGo, Near, AfterLaunch
      <3> QED BY <1>2, <3>1, <3>3, <3>4, <3>5, JustGoes
    <2>3. CASE q # <<>>
      <3>1. Hold(g, d, q, "reconcile", "rejected") /\ Goto(g, d, "holding") BY <1>4, <2>3 DEF HoldOrGo
      <3> HIDE DEF Pending, HasAttempt, IsSettled
      <3> QED BY <1>0, <1>1, <1>2, <2>1, <2>3, <3>1, HoldGoes DEF LaunchSteps, AfterLaunch
    <2> QED BY <2>2, <2>3
  <1> QED BY <1>1, <1>3, <1>4 DEF Recover, ActorIn

-----------------------------------------------------------------------------
(* BoundedDelegationScheduler.admit. *)

\* One round of the loop over the delegations.
Admits(active, ready, d, P) ==
  IF d \in ready /\ Cardinality(active \cup P) < 2 /\ \A e \in active \cup P : {e, d} \notin Overlapping
  THEN P \cup {d} ELSE P

\* What is admitted after some rounds.
Bounded(active, ready, P) ==
  /\ P \subseteq ready
  /\ P # {} => Cardinality(active) < 2 /\ Cardinality(active \cup P) <= 2

AdmitRounds(f, active, ready, m) ==
  /\ f = [i \in 0 .. m |-> f[i]] /\ f[0] = {}
  /\ \A i \in 1 .. m : f[i] = Admits(active, ready, i, f[i - 1])
  /\ \A i \in 0 .. m : Bounded(active, ready, f[i])

LEMMA FiniteDelegations ==
  ASSUME NEW S \in SUBSET Delegations
  PROVE  IsFiniteSet(S) /\ Cardinality(S) \in Nat
  <1>1. IsFiniteSet(Delegations) BY FS_Interval, DelegationAssumption DEF Delegations
  <1>2. IsFiniteSet(S) BY <1>1, FS_Subset
  <1> QED BY <1>2, FS_CardinalityType

LEMMA AdmitsBounded ==
  ASSUME NEW active \in SUBSET Delegations, NEW ready \in SUBSET Delegations, NEW d, NEW P,
         Bounded(active, ready, P)
  PROVE  Bounded(active, ready, Admits(active, ready, d, P))
  <1>1. CASE Admits(active, ready, d, P) = P BY <1>1
  <1>2. CASE Admits(active, ready, d, P) # P
    <2> DEFINE A == active \cup P
    <2>1. d \in ready /\ Cardinality(A) < 2 /\ Admits(active, ready, d, P) = P \cup {d}
      BY <1>2 DEF Admits
    <2>2. P \subseteq ready BY DEF Bounded
    <2>3. A \in SUBSET Delegations BY <2>2
    <2>4. IsFiniteSet(A) /\ Cardinality(A) \in Nat
      <3> HIDE DEF A
      <3> QED BY <2>3, FiniteDelegations
    <2>5. Cardinality(A \cup {d}) \in {Cardinality(A), Cardinality(A) + 1}
      <3> HIDE DEF A
      <3> QED BY <2>4, FS_AddElement
    <2>6. Cardinality(active) <= Cardinality(A) /\ Cardinality(active) \in Nat
      <3>1. active \subseteq A OBVIOUS
      <3>2. Cardinality(active) \in Nat BY FiniteDelegations
      <3> HIDE DEF A
      <3> QED BY <2>4, <3>1, <3>2, FS_Subset
    <2>7. active \cup (P \cup {d}) = A \cup {d} OBVIOUS
    <2> HIDE DEF A
    <2>8. Cardinality(active) < 2 /\ Cardinality(A \cup {d}) <= 2 BY <2>1, <2>4, <2>5, <2>6
    <2>9. P \cup {d} \subseteq ready BY <2>1, <2>2
    <2> QED BY <2>1, <2>7, <2>8, <2>9 DEF Bounded
  <1> QED BY <1>1, <1>2

LEMMA AdmitBound ==
  ASSUME NEW active \in SUBSET Delegations, NEW ready \in SUBSET Delegations
  PROVE  Bounded(active, ready, Admit(active, ready))
  <1> DEFINE S == {m \in Nat : \E f : AdmitRounds(f, active, ready, m)}
  <1>1. 0 \in S
    <2> DEFINE f == [i \in 0 .. 0 |-> {}]
    <2>1. f[0] = {} /\ f = [i \in 0 .. 0 |-> f[i]] OBVIOUS
    <2> HIDE DEF f
    <2>2. \A i \in 0 .. 0 : i = 0 OBVIOUS
    <2>3. \A i \in 1 .. 0 : FALSE OBVIOUS
    <2>4. Bounded(active, ready, {}) BY DEF Bounded
    <2>5. AdmitRounds(f, active, ready, 0) BY <2>1, <2>2, <2>3, <2>4 DEF AdmitRounds
    <2> QED BY <2>5
  <1>2. ASSUME NEW m \in Nat, m \in S PROVE m + 1 \in S
    <2>1. PICK f : AdmitRounds(f, active, ready, m) BY <1>2
    <2> DEFINE c == Admits(active, ready, m + 1, f[m])
               h == [i \in 0 .. m + 1 |-> IF i = m + 1 THEN c ELSE f[i]]
    <2>2. Bounded(active, ready, c)
      <3>1. Bounded(active, ready, f[m]) BY <2>1 DEF AdmitRounds
      <3> QED BY <3>1, AdmitsBounded
    <2> HIDE DEF c
    <2>3. h = [i \in 0 .. m + 1 |-> h[i]] /\ h[m + 1] = c /\ \A i \in 0 .. m : h[i] = f[i] OBVIOUS
    <2> HIDE DEF h
    <2>4. h[0] = {}
      <3>1. 0 \in 0 .. m /\ f[0] = {} BY <2>1 DEF AdmitRounds
      <3> QED BY <2>3, <3>1
    <2>5. ASSUME NEW i \in 1 .. m + 1 PROVE h[i] = Admits(active, ready, i, h[i - 1])
      <3>1. CASE i = m + 1
        <4>1. i - 1 = m /\ m \in 0 .. m BY <3>1
        <4> QED BY <2>3, <3>1, <4>1 DEF c
      <3>2. CASE i # m + 1
        <4>1. i \in 1 .. m /\ i \in 0 .. m /\ i - 1 \in 0 .. m BY <3>2
        <4>2. f[i] = Admits(active, ready, i, f[i - 1]) BY <2>1, <4>1 DEF AdmitRounds
        <4>3. h[i] = f[i] /\ h[i - 1] = f[i - 1] BY <2>3, <4>1
        <4> QED BY <4>2, <4>3
      <3> QED BY <3>1, <3>2
    <2>6. ASSUME NEW i \in 0 .. m + 1 PROVE Bounded(active, ready, h[i])
      <3>1. i = m + 1 \/ i \in 0 .. m OBVIOUS
      <3> QED BY <2>1, <2>2, <2>3, <3>1 DEF AdmitRounds
    <2>7. AdmitRounds(h, active, ready, m + 1) BY <2>3, <2>4, <2>5, <2>6 DEF AdmitRounds
    <2> QED BY <2>7
  <1>3. \A m \in Nat : m \in S
    <2> HIDE DEF S
    <2> QED BY <1>1, <1>2, SetInduction
  <1>a. NDelegations \in Nat BY DelegationAssumption
  <1>4. PICK f : AdmitRounds(f, active, ready, NDelegations) BY <1>3, <1>a
  <1> DEFINE Is(h) == h = [d \in 0 .. NDelegations |->
                       IF d = 0 THEN {} ELSE Admits(active, ready, d, h[d - 1])]
             g == CHOOSE h : Is(h)
  <1>5. Admit(active, ready) = g[NDelegations]
    <2>1. g = CHOOSE h : h = [d \in 0 .. NDelegations |->
            IF d = 0 THEN {}
            ELSE IF /\ d \in ready
                    /\ Cardinality(active \cup h[d - 1]) < 2
                    /\ \A e \in active \cup h[d - 1] : {e, d} \notin Overlapping
                 THEN h[d - 1] \cup {d} ELSE h[d - 1]]
      BY DEF Admits
    <2> QED BY <2>1 DEF Admit
  <1>6. Is(f)
    <2>1. \A i \in 0 .. NDelegations : i = 0 \/ i \in 1 .. NDelegations BY <1>a
    <2>2. \A i \in 0 .. NDelegations : f[i] = IF i = 0 THEN {} ELSE Admits(active, ready, i, f[i - 1])
      BY <1>4, <2>1 DEF AdmitRounds
    <2>3. f = [i \in 0 .. NDelegations |-> f[i]] BY <1>4 DEF AdmitRounds
    <2> QED BY <2>2, <2>3
  <1>7. Is(g)
    <2> HIDE DEF Is
    <2> QED BY <1>6
  <1> HIDE DEF g
  <1> DEFINE U == {m \in Nat : m <= NDelegations => Bounded(active, ready, g[m])}
  <1>8. 0 \in U
    <2>1. 0 \in 0 .. NDelegations BY <1>a
    <2>2. g[0] = {} BY <1>7, <2>1
    <2> QED BY <2>2 DEF Bounded
  <1>9. ASSUME NEW m \in Nat, m \in U PROVE m + 1 \in U
    <2> SUFFICES ASSUME m + 1 <= NDelegations PROVE Bounded(active, ready, g[m + 1]) OBVIOUS
    <2>1. m + 1 \in 0 .. NDelegations /\ m + 1 # 0 /\ (m + 1) - 1 = m BY <1>a
    <2>2. g[m + 1] = Admits(active, ready, m + 1, g[m]) BY <1>7, <2>1
    <2>3. Bounded(active, ready, g[m]) BY <1>9, <1>a
    <2> QED BY <2>2, <2>3, AdmitsBounded
  <1>10. \A m \in Nat : m \in U
    <2> HIDE DEF U
    <2> QED BY <1>8, <1>9, SetInduction
  <1> QED BY <1>5, <1>10, <1>a

-----------------------------------------------------------------------------
(* The automatic retry. *)

SlotAt(x, pc, k) == [x EXCEPT !.pc = pc, !.slot = k]

LEMMA LaunchSlot ==
  ASSUME NEW x \in LaunchType, NEW pc \in LaunchSteps, NEW k \in 0..2
  PROVE  /\ SlotAt(x, pc, k) \in LaunchType /\ SlotAt(x, pc, k).pc = pc
         /\ SlotAt(x, pc, k).n = x.n /\ SlotAt(x, pc, k).first = x.first
  BY DEF LaunchType, SlotAt

LEMMA StepPrepare ==
  ASSUME Inv, NEW g \in Commands, NEW d \in Delegations, Prepare(g, d)
  PROVE  Inv'
  <1>0. cmd[g].pc = "run" /\ thr[g][d].pc = "prepare" /\ writer.by = 0
    BY DEF Prepare, Launching, WriterFree
  <1>1. PICK n \in 1..2 : n = thr[g][d].n BY <1>0, LaunchKnows
  <1>2. UNCHANGED <<session, lease, op, child, cmd, gone, crashes>> BY DEF Prepare
  <1>3. CASE thr' = [thr EXCEPT ![g][d].pc = "rejected", ![g][d].slot = 0] /\ UNCHANGED writer
    <2> DEFINE t == SlotAt(thr[g][d], "rejected", 0)
    <2>1. t \in LaunchType /\ t.pc = "rejected" /\ t.n = thr[g][d].n
      <3>1. thr[g][d] \in LaunchType BY DEF Inv, Types
      <3>2. "rejected" \in LaunchSteps /\ 0 \in 0..2 BY DEF LaunchSteps
      <3> QED BY <3>1, <3>2, LaunchSlot
    <2>2. Moves(g, d, t) BY <1>3 DEF Moves, SlotAt, Inv, Types
    <2> HIDE DEF t
    <2>3. MayGo(g, d, t) BY <1>0, <2>1 DEF MayGo, Near, AfterLaunch
    <2> QED BY <1>2, <1>3, <2>1, <2>2, <2>3, JustGoes
  <1>4. CASE /\ Hold(g, d, <<Of("prepared", d)>>, "readmit", "rejected")
             /\ thr' = [thr EXCEPT ![g][d].pc = "holding", ![g][d].slot = 0]
    <2> DEFINE t == SlotAt(thr[g][d], "holding", 0)
               q == <<Of("prepared", d)>>
               w == [by |-> g, of |-> d, todo |-> q, then |-> "readmit", refused |-> "rejected"]
    <2>1. t \in LaunchType /\ t.pc = "holding" /\ t.n = thr[g][d].n
      <3>1. thr[g][d] \in LaunchType BY DEF Inv, Types
      <3>2. "holding" \in LaunchSteps /\ 0 \in 0..2 BY DEF LaunchSteps
      <3> QED BY <3>1, <3>2, LaunchSlot
    <2>2. Moves(g, d, t) BY <1>4 DEF Moves, SlotAt, Inv, Types
    <2>3. q \in Seq(Plain) /\ q # <<>> BY PlainOf
    <2> HIDE DEF t, q
    <2>4. q \in Seq(Event) BY <2>3, PlainEvents
    <2>5. \A i \in DOMAIN q : EventOK(w, session, op, q[i])
      <3> HIDE DEF w
      <3> QED BY <2>3, PlainEvents
    <2>6. w \in WriterType
      <3>1. g \in 0..MaxCommands /\ d \in 0..NDelegations BY DEF Commands, Delegations
      <3>2. "readmit" \in Steps /\ "rejected" \in Steps BY DEF Steps, LaunchSteps
      <3> HIDE DEF Event, Steps
      <3> QED BY <2>4, <3>1, <3>2 DEF WriterType
    <2>7. /\ w.by = g /\ w.of = d /\ w.todo = q /\ w.then = "readmit" /\ w.refused = "rejected"
          /\ writer' = w
      BY <1>4 DEF Hold, q
    <2>8. t.n \in 1..2 /\ t.n <= session.envelopes[d] /\ IsClaimed(session, <<d, t.n>>)
      BY <1>0, <2>1, LaunchKnows
    <2> HIDE DEF w
    <2>9. Holding(g, d, t, w)
      <3>1. "readmit" \in LaunchSteps BY DEF LaunchSteps
      <3> HIDE DEF HasAttempt, IsSettled, IsClaimed, Pending, EventOK
      <3> QED BY <1>0, <2>1, <2>3, <2>5, <2>7, <2>8, <3>1 DEF Holding, AfterLaunch
    <2>10. OperationsBegin BY <1>2 DEF OperationsBegin, Inv, Types
    <2> HIDE DEF Holding, OperationsBegin
    <2> QED BY <1>2, <2>1, <2>2, <2>6, <2>7, <2>9, <2>10, LaunchHold
  <1> QED BY <1>3, <1>4 DEF Prepare

\* The lowest slot that no active launch has.
LEMMA FreeSlot ==
  ASSUME NEW A \in SUBSET Delegations, Cardinality(A) < 2, NEW slot,
         \A e \in A : slot[e] \in 1..2
  PROVE  (CHOOSE i \in 1..3 : /\ \A e \in A : slot[e] # i
                              /\ \A j \in 1 .. i - 1 : \E e \in A : slot[e] = j) \in 1..2
  <1> DEFINE P(i) == /\ \A e \in A : slot[e] # i
                     /\ \A j \in 1 .. i - 1 : \E e \in A : slot[e] = j
  <1>1. IsFiniteSet(A) /\ Cardinality(A) \in Nat BY FiniteDelegations
  <1>2. A = {} \/ \E e : A = {e}
    <2>1. Cardinality(A) = 0 \/ Cardinality(A) = 1 BY <1>1
    <2>2. CASE Cardinality(A) = 0 BY <1>1, <2>2, FS_EmptySet
    <2>3. CASE Cardinality(A) = 1 BY <1>1, <2>3, FS_Singleton
    <2> QED BY <2>1, <2>2, <2>3
  <1>3. \E i \in 1..2 : P(i)
    <2>1. \A j \in 1 .. 1 - 1 : FALSE OBVIOUS
    <2>2. \A j \in 1 .. 2 - 1 : j = 1 OBVIOUS
    <2>3. CASE \A e \in A : slot[e] # 1
      <3>1. P(1) BY <2>1, <2>3
      <3> QED BY <3>1
    <2>4. CASE \E e \in A : slot[e] = 1
      <3>1. \A e \in A : slot[e] # 2 BY <1>2, <2>4
      <3>2. P(2) BY <2>2, <2>4, <3>1
      <3> QED BY <3>2
    <2> QED BY <2>3, <2>4
  <1>4. ~P(3)
    <2> SUFFICES ASSUME P(3) PROVE FALSE OBVIOUS
    <2>1. 1 \in 1 .. 3 - 1 /\ 2 \in 1 .. 3 - 1 OBVIOUS
    <2>2. (\E e \in A : slot[e] = 1) /\ (\E e \in A : slot[e] = 2) BY <2>1
    <2> QED BY <1>2, <2>2
  <1>5. \A i \in 1..3 : i \in 1..2 \/ i = 3 OBVIOUS
  <1>6. \A i \in 1..2 : i \in 1..3 OBVIOUS
  <1> DEFINE k == CHOOSE i \in 1..3 : P(i)
  <1>7. k \in 1..3 /\ P(k)
    <2> HIDE DEF P
    <2> QED BY <1>3, <1>6
  <1>8. k \in 1..2
    <2> HIDE DEF k, P
    <2> QED BY <1>4, <1>5, <1>7
  <1> QED BY <1>8

LEMMA ClaimingFacts ==
  ASSUME NEW d \in Delegations, NEW n \in 1..2, NEW g \in Commands, NEW k \in 1..2
  PROVE  /\ Claiming(<<d, n>>, g, k) \in Seq(Plain) /\ Claiming(<<d, n>>, g, k) # <<>>
         /\ Len(Claiming(<<d, n>>, g, k)) = 2
         /\ Claiming(<<d, n>>, g, k)[1] = SlotOf(d, n, g, k)
         /\ About(SlotOf(d, n, g, k), "slot_claimed", d, n)
  <1> DEFINE e == SlotOf(d, n, g, k)
             f == Held("claim_granted", <<d, n>>, g)
  <1>1. About(e, "slot_claimed", d, n) BY SlotMade DEF About
  <1>2. f \in Plain BY GrantMade DEF Plain
  <1>3. Claiming(<<d, n>>, g, k) = <<e, f>> BY DEF Claiming, SlotOf
  <1> HIDE DEF e, f
  <1>4. e \in Plain BY <1>1 DEF About, Plain
  <1>5. /\ <<e, f>> \in Seq(Plain) /\ <<e, f>> # <<>> /\ <<e, f>>[1] = e /\ Len(<<e, f>>) = 2
    <2> HIDE DEF Plain
    <2> QED BY <1>2, <1>4
  <1> QED BY <1>1, <1>3, <1>5 DEF e

LEMMA StepReadmit ==
  ASSUME Inv, NEW g \in Commands, NEW d \in Delegations, Readmit(g, d)
  PROVE  Inv'
  <1> DEFINE A == {e \in Delegations : thr[g][e].slot # 0}
             k == CHOOSE i \in 1..3 : /\ \A e \in A : thr[g][e].slot # i
                                     /\ \A j \in 1 .. i - 1 : \E e \in A : thr[g][e].slot = j
  <1>0. cmd[g].pc = "run" /\ thr[g][d].pc = "readmit" /\ writer.by = 0
    BY DEF Readmit, Launching, WriterFree
  <1>1. thr[g][d].n \in 1..2 /\ thr[g][d].n <= session.envelopes[d] /\ thr[g][d] \in LaunchType
    BY <1>0, LaunchKnows
  <1>2. session.envelopes[d] \in 0..2 BY SessionFields DEF Inv, Types
  <1>3. PICK n \in 1..2 : n = session.envelopes[d] BY <1>1, <1>2
  <1>4. UNCHANGED <<session, lease, op, child, cmd, gone, crashes>> BY DEF Readmit
  <1>5. CASE thr' = [thr EXCEPT ![g][d].pc = "rejected"] /\ UNCHANGED writer
    <2> DEFINE t == [thr[g][d] EXCEPT !.pc = "rejected"]
    <2>1. t \in LaunchType /\ t.pc = "rejected" /\ t.n = thr[g][d].n
      <3>1. "rejected" \in LaunchSteps BY DEF LaunchSteps
      <3> QED BY <1>1, <3>1 DEF LaunchType
    <2>2. Moves(g, d, t) BY <1>5 DEF Moves
    <2> HIDE DEF t
    <2>3. MayGo(g, d, t) BY <1>0, <2>1 DEF MayGo, Near, AfterLaunch
    <2> QED BY <1>4, <1>5, <2>1, <2>2, <2>3, JustGoes
  <1>6. CASE /\ Admit(A, {d}) = {d}
             /\ Hold(g, d, Claiming(<<d, n>>, g, k), "launch", "rejected")
             /\ thr' = [thr EXCEPT ![g][d] = [@ EXCEPT !.pc = "holding", !.n = n,
                                                      !.slot = k, !.seen = FALSE, !.err = "none"]]
    <2>1. k \in 1..2
      <3>1. A \in SUBSET Delegations OBVIOUS
      <3>2. Bounded(A, {d}, Admit(A, {d}))
        <4> HIDE DEF A
        <4> QED BY <3>1, AdmitBound
      <3>3. Cardinality(A) < 2 BY <1>6, <3>2 DEF Bounded
      <3> DEFINE slot == [e \in Delegations |-> thr[g][e].slot]
      <3>4. \A e \in A : thr[g][e].slot \in 1..2
        <4>1. \A e \in Delegations : thr[g][e].slot \in 0..2 BY DEF Inv, Types, LaunchType
        <4>2. \A x \in 0..2 : x # 0 => x \in 1..2 OBVIOUS
        <4> QED BY <4>1, <4>2
      <3>5. \A e \in A : slot[e] = thr[g][e].slot OBVIOUS
      <3>6. k = CHOOSE i \in 1..3 : /\ \A e \in A : slot[e] # i
                                    /\ \A j \in 1 .. i - 1 : \E e \in A : slot[e] = j
        BY <3>5
      <3> HIDE DEF A, slot, k
      <3> QED BY <3>1, <3>3, <3>4, <3>5, <3>6, FreeSlot
    <2> HIDE DEF k, A
    <2> DEFINE t == [thr[g][d] EXCEPT !.pc = "holding", !.n = n, !.slot = k, !.seen = FALSE, !.err = "none"]
               q == Claiming(<<d, n>>, g, k)
               w == [by |-> g, of |-> d, todo |-> q, then |-> "launch", refused |-> "rejected"]
    <2>2. t \in LaunchType /\ t.pc = "holding" /\ t.n = n
      <3>1. "holding" \in LaunchSteps /\ n \in 0..2 /\ k \in 0..2 BY <2>1 DEF LaunchSteps
      <3> QED BY <1>1, <3>1 DEF LaunchType
    <2>3. Moves(g, d, t) BY <1>6 DEF Moves
    <2>4. /\ q \in Seq(Plain) /\ q # <<>> /\ Len(q) = 2 /\ q[1] = SlotOf(d, n, g, k)
          /\ About(SlotOf(d, n, g, k), "slot_claimed", d, n)
      BY <2>1, ClaimingFacts
    <2> HIDE DEF t
    <2>a. Hold(g, d, q, "launch", "rejected") BY <1>6
    <2> HIDE DEF q
    <2>5. q \in Seq(Event) BY <2>4, PlainEvents
    <2>6. \A i \in DOMAIN q : EventOK(w, session, op, q[i])
      <3> HIDE DEF w
      <3> QED BY <2>4, PlainEvents
    <2>7. Pending(q, "slot_claimed", <<d, n>>)
      <3>1. 1 \in DOMAIN q BY <2>4
      <3> QED BY <2>4, <3>1 DEF Pending, About
    <2>8. w \in WriterType
      <3>1. g \in 0..MaxCommands /\ d \in 0..NDelegations BY DEF Commands, Delegations
      <3>2. "launch" \in Steps /\ "rejected" \in Steps BY DEF Steps, LaunchSteps
      <3> HIDE DEF Event, Steps
      <3> QED BY <2>5, <3>1, <3>2 DEF WriterType
    <2>9. /\ w.by = g /\ w.of = d /\ w.todo = q /\ w.then = "launch" /\ w.refused = "rejected"
          /\ writer' = w
      BY <2>a DEF Hold
    <2> HIDE DEF w
    <2>10. Holding(g, d, t, w)
      <3>1. "launch" \in LaunchSteps BY DEF LaunchSteps
      <3>2. n <= session.envelopes[d] BY <1>3
      <3> HIDE DEF HasAttempt, IsSettled, IsClaimed, Pending, EventOK
      <3> QED BY <1>0, <2>2, <2>4, <2>6, <2>7, <2>9, <3>1, <3>2 DEF Holding, AfterLaunch
    <2>11. OperationsBegin BY <1>4 DEF OperationsBegin, Inv, Types
    <2> HIDE DEF Holding, OperationsBegin
    <2> QED BY <1>4, <2>2, <2>3, <2>8, <2>9, <2>10, <2>11, LaunchHold
  <1> HIDE DEF A, k
  <1> QED BY <1>3, <1>5, <1>6 DEF Readmit, A, k

=============================================================================
