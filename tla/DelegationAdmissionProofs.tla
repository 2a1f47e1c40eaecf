----------------------- MODULE DelegationAdmissionProofs -----------------------
(* The admission layer over the inductive invariant of Delegation: slots and *)
(* claims in the session against what children may still do.  It gives       *)
(* RunningChildIsAdmitted and ParallelLimit for every instance.  Over it the *)
(* booking layer: who is on the book of a group when its barrier opens,      *)
(* which gives BarrierOpensQuiet.                                            *)
EXTENDS DelegationProofs

(* The child of a can do nothing any more: its operation proves that it      *)
(* ended before its start, or its terminal frame was sent.                   *)
Spent(a) == Proven(op, a) \/ child[a].state = "finished"

Safe(a) == Holds(a) \/ Bypassed(a) \/ Spent(a)

Taken(s, g) == g \in Commands /\ s.nonce[g] \notin {0, g}

(* The book of the session: at most two slots, claims that do not collide,   *)
(* and both only for the delegations that the barrier of their group waits   *)
(* for.                                                                      *)
BookOK(s) ==
  /\ IsFiniteSet(s.slots) /\ Cardinality(s.slots) <= 2
  /\ \A x, y \in s.claims : x # y => ~Collides(x.actor, y.actor)
  /\ \A x \in s.slots : x.actor[1] \in s.barriers[x.group].required
  /\ \A x \in s.claims : x.actor[1] \in s.barriers[x.group].required
  /\ \A b \in Commands : s.barriers[b].status = "none" => s.barriers[b].required = {}

LiveIsSafe == \A a \in Actors : child[a].state \in Live => Safe(a)

ReconciledIsSpent == \A a \in Actors : op[a].state = "reconciled" => Spent(a)

Clean(t) == t.terminal = "cancelled_clean" /\ ~t.started

CleanIsCancelled ==
  \A d \in Delegations : \A i \in DOMAIN session.attempts[d] :
    Clean(session.attempts[d][i]) => op[<<d, session.attempts[d][i].actor>>].failure = "cancelled"

(* What a launch knows of its child: where it is, or goes when its appends   *)
(* are done.                                                                 *)
Where(g, d) == IF thr[g][d].pc = "holding" THEN writer.then ELSE thr[g][d].pc

Learned(t, w, d) ==
  /\ t.pc = "launch" \/ w = "spawn" => Safe(<<d, t.n>>)
  /\ t.pc = "spawn" => child[<<d, t.n>>].state = "none"
  /\ w \in {"recover", "reconcile"} => Proven(op, <<d, t.n>>)
  /\ w \in {"release", "prepare", "readmit"} => op[<<d, t.n>>].failure = "infra"
  /\ w \in {"import", "receipt", "settle", "fulfilled"} => child[<<d, t.n>>].state = "finished"
  /\ t.first \in 1..2 /\ (t.n # t.first => op[<<d, t.first>>].failure = "infra")

LaunchSafe(g, d) ==
  cmd[g].pc = "run" /\ thr[g][d].pc # "idle" => Learned(thr[g][d], Where(g, d), d)

(* A command that has never been admitted with a group of its own, and one   *)
(* that never will be again.                                                 *)
Fresh(g) ==
  \/ cmd[g].pc \notin {"run", "holding", "release", "done"}
  \/ cmd[g].pc = "holding" /\ writer.then \in {"read", "reclaim", "yield"}
Past(g) ==
  \/ cmd[g].pc \in {"run", "release", "done"}
  \/ cmd[g].pc = "holding" /\ writer.then \in {"release", "done"}

Unbooked(s, g) ==
  /\ \A x \in s.slots : x.group # g
  /\ \A x \in s.claims : x.group # g
  /\ \A d \in Delegations, n \in 1..2 : s.claimed[d][n] # g

(* Of a group that is about to be taken over only retries may still act. *)
Abandoned(s, b) ==
  /\ \A x \in s.slots : x.group = b /\ x.actor[2] = 1 => Spent(x.actor)
  /\ \A x \in s.claims : x.group = b /\ x.actor[2] = 1 => Spent(x.actor)

CommandSafe(g) ==
  /\ cmd[g].pc = "run" => cmd[g].adm \subseteq session.barriers[g].required
  /\ Fresh(g) => Unbooked(session, g)
  /\ cmd[g].pc \in {"seize", "adopt"} =>
       cmd[g].grp \in Commands /\ cmd[g].grp # g /\ Past(cmd[g].grp) /\ Abandoned(session, cmd[g].grp)

(* What the writer promises: admissions are of its own group and of what the *)
(* group's barrier waits for; releases are of spent children, or of retries  *)
(* of a group that is taken over.                                            *)
Required(s, todo, i) ==
  \/ todo[i].d \in s.barriers[todo[i].group].required
  \/ \E j \in 1 .. i - 1 : /\ todo[j].type = "barrier_requested" /\ todo[j].group = todo[i].group
                           /\ todo[i].d \in todo[j].required

Promised(s, w, i) ==
  LET e == w.todo[i] IN
  /\ e.type \in {"slot_claimed", "claim_granted"} =>
       /\ e.group = w.by /\ w.then \in {"run", "launch"} /\ Required(s, w.todo, i)
       /\ w.then = "launch" => e.n = 2 \/ Spent(ActorOf(e))
  /\ e.type \in {"slot_released", "claim_released"} =>
       /\ w.then \notin {"run", "launch"}
       /\ \/ Spent(ActorOf(e))
          \/ e.n = 2 /\ \/ Taken(s, e.group)
                        \/ w.todo[1].type = "takeover" /\ w.todo[1].group = e.group
  /\ e.type = "takeover" => e.to # e.group
  /\ e.type = "pre_effect_cancelled" /\ e.n # 0 => op[ActorOf(e)].failure = "cancelled"

Coming(s, w, a) ==
  /\ (\E x \in s.slots : x.actor = a /\ x.group = w.by) \/ Pending(w.todo, "slot_claimed", a)
  /\ (\E x \in s.claims : x.actor = a /\ x.group = w.by) \/ Pending(w.todo, "claim_granted", a)

WriterSafe ==
  /\ \A i \in DOMAIN writer.todo : Promised(session, writer, i)
  /\ writer.then = "run" =>
       /\ \A d \in cmd[writer.by].adm : Coming(session, writer, <<d, thr[writer.by][d].n>>)
       /\ \A d \in Delegations : thr[writer.by][d].pc # "idle" =>
            thr[writer.by][d].pc = "launch" /\ thr[writer.by][d].first = thr[writer.by][d].n
  /\ writer.then = "launch" => Coming(session, writer, <<writer.of, thr[writer.by][writer.of].n>>)

Admission ==
  /\ BookOK(session) /\ LiveIsSafe /\ ReconciledIsSpent /\ CleanIsCancelled
  /\ \A g \in Commands, d \in Delegations : LaunchSafe(g, d)
  /\ \A g \in Commands : CommandSafe(g)
  /\ WriterSafe
-----------------------------------------------------------------------------
(* Steps that leave the book alone. *)

SameBook ==
  /\ session'.slots = session.slots /\ session'.claims = session.claims
  /\ session'.claimed = session.claimed /\ session'.barriers = session.barriers
  /\ session'.nonce = session.nonce /\ session'.attempts = session.attempts

\* What a step may make of the operation and the process of a.
Kept(a) ==
  /\ op[a].failure \in {"infra", "cancelled"} => op'[a].failure = op[a].failure
  /\ child[a].state = "finished" => child'[a].state = "finished"
  /\ child'[a].state \in Live => child[a].state \in Live \/ Safe(a)
  /\ op'[a].state = "reconciled" => op[a].state = "reconciled" \/ Spent(a)'

AllKept == \A a \in Actors : Kept(a)

LEMMA KeptSame ==
  ASSUME NEW a, op'[a] = op[a], child'[a] = child[a]
  PROVE  Kept(a)
  BY DEF Kept

LEMMA KeptButOne ==
  ASSUME NEW a \in Actors, Kept(a),
         \A b \in Actors : b # a => op'[b] = op[b] /\ child'[b] = child[b]
  PROVE  AllKept
  <1>1. ASSUME NEW b \in Actors PROVE Kept(b)
    <2>1. CASE b = a BY <2>1
    <2>2. CASE b # a BY <2>2, KeptSame
    <2> QED BY <2>1, <2>2
  <1> HIDE DEF Kept
  <1> QED BY <1>1 DEF AllKept

LEMMA KeptAll == ASSUME UNCHANGED <<op, child>> PROVE AllKept
  BY KeptSame DEF AllKept

LEMMA SpentStays ==
  ASSUME NEW a \in Actors, AllKept
  PROVE  /\ Spent(a) => Spent(a)'
         /\ Proven(op, a) => Proven(op', a) /\ op'[a].failure = op[a].failure
  <1>1. Kept(a) BY DEF AllKept
  <1> QED BY <1>1 DEF Kept, Spent, Proven

LEMMA SafeStays ==
  ASSUME NEW a \in Actors, AllKept, SameBook, Safe(a)
  PROVE  Safe(a)'
  <1>1. Holds(a) => Holds(a)' BY DEF SameBook, Holds, SlotsOf
  <1>2. Bypassed(a) => Bypassed(a)' BY DEF SameBook, Bypassed
  <1>3. Spent(a) => Spent(a)' BY SpentStays
  <1> HIDE DEF Holds, Bypassed, Spent
  <1> QED BY <1>1, <1>2, <1>3 DEF Safe

LEMMA BookStays ==
  ASSUME Inv, Admission, SameBook, AllKept
  PROVE  BookOK(session)' /\ LiveIsSafe' /\ ReconciledIsSpent' /\ CleanIsCancelled'
  <1>1. BookOK(session)' BY DEF Admission, SameBook, BookOK
  <1>2. ASSUME NEW a \in Actors, child'[a].state \in Live PROVE Safe(a)'
    <2>1. child[a].state \in Live \/ Safe(a) BY <1>2 DEF AllKept, Kept
    <2>2. Safe(a) BY <2>1 DEF Admission, LiveIsSafe
    <2> HIDE DEF Safe
    <2> QED BY <2>2, SafeStays
  <1>3. ASSUME NEW a \in Actors, op'[a].state = "reconciled" PROVE Spent(a)'
    <2>1. op[a].state = "reconciled" \/ Spent(a)' BY <1>3 DEF AllKept, Kept
    <2>2. op[a].state = "reconciled" => Spent(a) BY DEF Admission, ReconciledIsSpent
    <2> HIDE DEF Spent
    <2> QED BY <2>1, <2>2, SpentStays
  <1>4. ASSUME NEW d \in Delegations, NEW i \in DOMAIN session'.attempts[d], Clean(session'.attempts[d][i])
        PROVE  op'[<<d, session'.attempts[d][i].actor>>].failure = "cancelled"
    <2>1. session'.attempts = session.attempts BY DEF SameBook
    <2> DEFINE a == <<d, session.attempts[d][i].actor>>
    <2>2. i \in DOMAIN session.attempts[d] BY <2>1
    <2>3. session.attempts[d][i] \in AttemptRecord BY <2>2, SessionFields DEF Inv, Types
    <2>4. a \in Actors BY <2>3 DEF Actors, AttemptRecord
    <2>5. op[a].failure = "cancelled" BY <1>4, <2>1, <2>2 DEF Admission, CleanIsCancelled
    <2>6. op'[a].failure = "cancelled" BY <2>4, <2>5 DEF AllKept, Kept
    <2> QED BY <2>1, <2>6
  <1> HIDE DEF Safe, Spent, Clean
  <1> QED BY <1>1, <1>2, <1>3, <1>4 DEF LiveIsSafe, ReconciledIsSpent, CleanIsCancelled

\* What a launch knows stays true.
LEMMA LearnedStays ==
  ASSUME NEW t, NEW w, NEW d \in Delegations, t.n \in 1..2, AllKept, SameBook, Learned(t, w, d),
         t.pc = "spawn" => child'[<<d, t.n>>].state = "none"
  PROVE  Learned(t, w, d)'
  <1> DEFINE a == <<d, t.n>>
             b == <<d, t.first>>
  <1>1. a \in Actors BY DEF Actors
  <1>2. t.first \in 1..2 BY DEF Learned
  <1>3. b \in Actors BY <1>2 DEF Actors
  <1>4. Safe(a) => Safe(a)' BY <1>1, SafeStays
  <1>5. Kept(a) /\ Kept(b) BY <1>1, <1>3 DEF AllKept
  <1>6. Proven(op, a) => Proven(op', a) BY <1>1, SpentStays
  <1>7. op[a].failure = "infra" => op'[a].failure = "infra" BY <1>5 DEF Kept
  <1>8. op[b].failure = "infra" => op'[b].failure = "infra" BY <1>5 DEF Kept
  <1>9. child[a].state = "finished" => child'[a].state = "finished" BY <1>5 DEF Kept
  <1> HIDE DEF Safe, Proven, Kept
  <1> QED BY <1>2, <1>4, <1>6, <1>7, <1>8, <1>9 DEF Learned

LEMMA LaunchStays ==
  ASSUME Inv, Admission, AllKept, SameBook, NEW h \in Commands, NEW e \in Delegations,
         thr'[h][e] = thr[h][e], cmd'[h].pc = "run" => cmd[h].pc = "run",
         thr[h][e].pc = "holding" => writer'.then = writer.then,
         thr[h][e].pc = "spawn" => child'[<<e, thr[h][e].n>>].state = child[<<e, thr[h][e].n>>].state
  PROVE  LaunchSafe(h, e)'
  <1> SUFFICES ASSUME cmd'[h].pc = "run", thr'[h][e].pc # "idle"
               PROVE  Learned(thr[h][e], Where(h, e), e)'
    BY DEF LaunchSafe
  <1>1. PICK t : t = thr[h][e] OBVIOUS
  <1>2. PICK w : w = Where(h, e) OBVIOUS
  <1>3. t = thr'[h][e] /\ w = Where(h, e)' BY <1>1, <1>2 DEF Where
  <1>4. t.n \in 1..2 BY <1>1, LaunchKnows
  <1>5. Learned(t, w, e) BY <1>1, <1>2 DEF Admission, LaunchSafe
  <1>6. t.pc = "spawn" => child'[<<e, t.n>>].state = "none" BY <1>1, <1>5 DEF Learned
  <1>7. Learned(t, w, e)'
    <2> HIDE DEF Learned
    <2> QED BY <1>4, <1>5, <1>6, LearnedStays
  <1> QED BY <1>3, <1>7 DEF Learned, Safe, Holds, SlotsOf, Bypassed, Spent

\* The command h is left alone by a step of another.
Alone(h) ==
  /\ cmd'[h].pc = cmd[h].pc /\ cmd'[h].adm = cmd[h].adm /\ cmd'[h].grp = cmd[h].grp
  /\ cmd[h].pc = "holding" => writer'.then = writer.then

LEMMA AloneFacts ==
  ASSUME NEW h, Alone(h)
  PROVE  (Fresh(h) <=> Fresh(h)') /\ (Past(h) <=> Past(h)')
  BY DEF Alone, Fresh, Past

LEMMA AbandonedStays ==
  ASSUME Inv, AllKept, SameBook, NEW b, Abandoned(session, b)
  PROVE  Abandoned(session, b)'
  <1>1. ASSUME NEW x \in session.slots PROVE x.actor \in Actors BY DEF Inv, Types, SessionType
  <1>2. ASSUME NEW x \in session.claims PROVE x.actor \in Actors BY DEF Inv, Types, SessionType
  <1>3. \A a \in Actors : Spent(a) => Spent(a)' BY SpentStays
  <1> HIDE DEF Spent
  <1> QED BY <1>1, <1>2, <1>3 DEF Abandoned, SameBook

LEMMA UnbookedStays ==
  ASSUME SameBook, NEW g, Unbooked(session, g) PROVE Unbooked(session, g)'
  BY DEF Unbooked, SameBook

LEMMA CommandStays ==
  ASSUME Inv, Admission, AllKept, SameBook, NEW h \in Commands, Alone(h),
         \A b \in Commands : Past(b) => Past(b)'
  PROVE  CommandSafe(h)'
  <1>1. CommandSafe(h) BY DEF Admission
  <1>2. Fresh(h)' => Fresh(h) BY AloneFacts
  <1>3. Unbooked(session, h) => Unbooked(session, h)' BY UnbookedStays
  <1>4. Abandoned(session, cmd[h].grp) => Abandoned(session, cmd[h].grp)'
    <2>1. PICK b : b = cmd[h].grp OBVIOUS
    <2>2. b = cmd'[h].grp BY <2>1 DEF Alone
    <2>3. Abandoned(session, b) => Abandoned(session, b)' BY AbandonedStays
    <2> QED BY <2>1, <2>2, <2>3 DEF Abandoned, Spent
  <1>5. session'.barriers = session.barriers BY DEF SameBook
  <1>6. cmd[h].grp \in Commands /\ Past(cmd[h].grp) => Past(cmd[h].grp)'
    <2>1. PICK b : b = cmd[h].grp OBVIOUS
    <2>2. b = cmd'[h].grp BY <2>1 DEF Alone
    <2> QED BY <2>1, <2>2 DEF Past
  <1> HIDE DEF Fresh, Past, Unbooked, Abandoned
  <1> QED BY <1>1, <1>2, <1>3, <1>4, <1>5, <1>6 DEF CommandSafe, Alone

\* What is promised stays promised while the book is the same.
LEMMA PromisedStays ==
  ASSUME Inv, AllKept, SameBook, NEW w, NEW i, w.todo[i] \in Event, Promised(session, w, i)
  PROVE  Promised(session, w, i)'
  <1>1. PICK e : e = w.todo[i] OBVIOUS
  <1>2. e.type \in {"slot_claimed", "claim_granted", "slot_released", "claim_released"} => ActorOf(e) \in Actors
    BY <1>1, EventFields DEF ActorOf, Actors
  <1>3. e.type = "pre_effect_cancelled" /\ e.n # 0 => ActorOf(e) \in Actors
    BY <1>1, EventFields DEF ActorOf, Actors
  <1>4. \A a \in Actors : Spent(a) => Spent(a)' BY SpentStays
  <1>5. \A a \in Actors : op[a].failure = "cancelled" => op'[a].failure = "cancelled" BY DEF AllKept, Kept
  <1>6. Required(session, w.todo, i) => Required(session, w.todo, i)' BY DEF Required, SameBook
  <1>7. Taken(session, e.group) => Taken(session, e.group)' BY DEF Taken, SameBook
  <1> HIDE DEF Spent, Required, Taken, ActorOf
  <1> QED BY <1>1, <1>2, <1>3, <1>4, <1>5, <1>6, <1>7 DEF Promised

LEMMA WriterStays ==
  ASSUME Inv, Admission, AllKept, SameBook, UNCHANGED writer,
         writer.by # 0 /\ writer.then = "run" =>
           cmd'[writer.by].adm = cmd[writer.by].adm /\ thr'[writer.by] = thr[writer.by],
         writer.by # 0 /\ writer.then = "launch" => thr'[writer.by][writer.of].n = thr[writer.by][writer.of].n
  PROVE  WriterSafe'
  <1>1. WriterSafe BY DEF Admission
  <1>2. writer.by = 0 => writer = Free BY DEF Inv, WriterOK
  <1>3. ASSUME NEW i \in DOMAIN writer'.todo PROVE Promised(session, writer, i)'
    <2>1. PICK w : w = writer OBVIOUS
    <2>2. w = writer' BY <2>1
    <2>3. w.todo[i] \in Event BY <1>3, <2>1, <2>2 DEF Inv, Types, WriterType
    <2>4. Promised(session, w, i) BY <1>1, <1>3, <2>1, <2>2 DEF WriterSafe
    <2>5. Promised(session, w, i)' BY <2>3, <2>4, PromisedStays
    <2> QED BY <2>2, <2>5 DEF Promised, Required, Taken, Spent
  <1>4. \A a : Coming(session, writer, a) => Coming(session, writer, a)' BY DEF Coming, SameBook
  <1>5. writer.then \in {"run", "launch"} => writer.by # 0 BY <1>2 DEF Free
  <1> HIDE DEF Promised, Coming
  <1> QED BY <1>1, <1>3, <1>4, <1>5 DEF WriterSafe

LEMMA FreeIsSafe == ASSUME writer' = Free PROVE WriterSafe'
  BY DEF Free, WriterSafe

LEMMA StepIsSafe ==
  ASSUME Inv, Admission, AllKept, SameBook,
         \A h \in Commands, e \in Delegations : LaunchSafe(h, e)',
         \A h \in Commands : CommandSafe(h)', WriterSafe'
  PROVE  Admission'
  <1> HIDE DEF LaunchSafe, CommandSafe, WriterSafe, AllKept, SameBook
  <1> QED BY BookStays DEF Admission
-----------------------------------------------------------------------------
(* The steps of a launch. *)

\* Who has the session's writer when the launch of d by g takes a step to t.
WriterTurns(g, d, t) ==
  \/ UNCHANGED writer /\ thr[g][d].pc # "holding" /\ t.pc # "holding"
  \/ writer.by = 0 /\ WriterSafe'
  \/ writer.by = g /\ writer.of = d /\ writer' = Free

\* Only a launch that spawns brings a process up.
Births(g, d) ==
  \A a \in Actors : child[a].state = "none" /\ child'[a].state # "none" =>
    a = <<d, thr[g][d].n>> /\ thr[g][d].pc = "spawn"

LEMMA SessionSame == ASSUME UNCHANGED session PROVE SameBook BY DEF SameBook

LEMMA NobodyHolds ==
  ASSUME Inv, writer.by = 0
  PROVE  /\ \A h \in Commands, e \in Delegations : thr[h][e].pc \notin {"holding", "sending"}
         /\ \A h \in Commands : cmd[h].pc # "holding"
  <1>1. \A h \in Commands : h # 0 BY DEF Commands
  <1>2. ASSUME NEW h \in Commands, NEW e \in Delegations PROVE thr[h][e].pc \notin {"holding", "sending"}
    <2>1. LaunchOK(h, e) BY DEF Inv
    <2> QED BY <1>1, <2>1 DEF LaunchOK
  <1>3. ASSUME NEW h \in Commands PROVE cmd[h].pc # "holding"
    <2>1. CommandOK(h) BY DEF Inv
    <2> QED BY <1>1, <2>1 DEF CommandOK
  <1> QED BY <1>2, <1>3

\* The writer of an admission is held by the command itself, that of a
\* readmission by the launch.
LEMMA AdmissionHolder ==
  ASSUME Inv, writer.by # 0
  PROVE  /\ writer.by \in Commands
         /\ writer.then = "run" => writer.of = 0 /\ cmd[writer.by].pc = "holding"
         /\ writer.then = "launch" =>
              /\ writer.of \in Delegations /\ thr[writer.by][writer.of].pc = "holding"
              /\ cmd[writer.by].pc = "run"
  <1>1. /\ writer.by \in Commands /\ (writer.of = 0 \/ writer.of \in Delegations)
        /\ writer.of = 0 => CommandHolds(writer.by)
        /\ writer.of # 0 => LaunchHolds(writer.by, writer.of)
    BY WriterHolder
  <1>2. writer.of = 0 => writer.then # "launch" /\ cmd[writer.by].pc = "holding"
    BY <1>1 DEF CommandHolds
  <1>3. writer.of # 0 => writer.then # "run" BY <1>1 DEF LaunchHolds, LaunchSteps
  <1>4. writer.of # 0 /\ writer.then = "launch" =>
          thr[writer.by][writer.of].pc = "holding" /\ cmd[writer.by].pc = "run"
    BY <1>1 DEF LaunchHolds
  <1> QED BY <1>1, <1>2, <1>3, <1>4

LEMMA LaunchAdvances ==
  ASSUME Inv, Admission, AllKept, SameBook, NEW g \in Commands, NEW d \in Delegations,
         NEW t \in LaunchType, cmd[g].pc = "run", thr[g][d].pc # "idle", Moves(g, d, t), UNCHANGED cmd,
         WriterTurns(g, d, t), Births(g, d),
         NEW w, w = IF t.pc = "holding" THEN writer'.then ELSE t.pc, Learned(t, w, d)'
  PROVE  Admission'
  <1>1. /\ thr'[g][d] = t
        /\ \A h \in Commands, e \in Delegations : h # g \/ e # d => thr'[h][e] = thr[h][e]
    BY ThrUpdate DEF Inv
  <1>2. /\ \A h \in Commands, e \in Delegations :
             (h # g \/ e # d) /\ thr[h][e].pc = "holding" => writer'.then = writer.then
        /\ \A h \in Commands : cmd[h].pc = "holding" => writer'.then = writer.then
    <2>1. CASE UNCHANGED writer BY <2>1
    <2>2. CASE writer.by = 0 BY <2>2, NobodyHolds
    <2>3. CASE writer.by = g /\ writer.of = d
      <3>1. g # 0 /\ d # 0 BY DEF Commands, Delegations
      <3> QED BY <2>3, <3>1, OthersDoNotHold
    <2> QED BY <2>1, <2>2, <2>3 DEF WriterTurns
  <1>3. ASSUME NEW h \in Commands, NEW e \in Delegations, h # g \/ e # d PROVE LaunchSafe(h, e)'
    <2>1. CASE cmd[h].pc = "run" /\ thr[h][e].pc = "spawn"
      <3>1. PICK n \in 1..2 : n = thr[h][e].n BY <2>1, LaunchKnows
      <3>2. <<e, n>> \in Actors BY DEF Actors
      <3>3. child[<<e, n>>].state = "none"
        <4>1. Learned(thr[h][e], Where(h, e), e) BY <2>1 DEF Admission, LaunchSafe
        <4> QED BY <2>1, <3>1, <4>1 DEF Learned
      <3>4. ASSUME child'[<<e, n>>].state # "none" PROVE FALSE
        <4>1. <<e, n>> = <<d, thr[g][d].n>> /\ thr[g][d].pc = "spawn" BY <3>2, <3>3, <3>4 DEF Births
        <4>2. e = d /\ thr[h][d].n = thr[g][d].n BY <3>1, <4>1
        <4>3. Danger(g, d) /\ Danger(h, d) BY <2>1, <4>1, <4>2 DEF Danger
        <4>4. h = g BY <4>2, <4>3 DEF Inv, OneDanger
        <4> QED BY <1>3, <4>2, <4>4
      <3> QED BY <1>1, <1>2, <1>3, <3>1, <3>3, <3>4, LaunchStays
    <2>2. CASE cmd[h].pc = "run" /\ thr[h][e].pc # "spawn" BY <1>1, <1>2, <1>3, <2>2, LaunchStays
    <2>3. CASE cmd[h].pc # "run" BY <2>3 DEF LaunchSafe
    <2> QED BY <2>1, <2>2, <2>3
  <1>4. LaunchSafe(g, d)'
    <2>1. w = Where(g, d)' BY <1>1 DEF Where
    <2> QED BY <1>1, <2>1 DEF LaunchSafe, Learned, Safe, Holds, SlotsOf, Bypassed, Spent
  <1>5. \A h \in Commands : Alone(h) BY <1>2 DEF Alone
  <1>6. \A h \in Commands : Past(h) => Past(h)' BY <1>5, AloneFacts
  <1>7. ASSUME NEW h \in Commands PROVE CommandSafe(h)'
    <2> HIDE DEF Alone, Past
    <2> QED BY <1>5, <1>6, CommandStays
  <1>8. WriterSafe'
    <2>1. CASE UNCHANGED writer /\ thr[g][d].pc # "holding"
      <3>1. writer.by # 0 /\ writer.then = "run" => writer.by \in Commands /\ writer.by # g
        BY AdmissionHolder
      <3>2. writer.by # 0 /\ writer.then = "run" => thr'[writer.by] = thr[writer.by]
        BY <3>1 DEF Moves, Inv, Types
      <3>3. writer.by # 0 /\ writer.then = "launch" =>
              writer.by \in Commands /\ writer.of \in Delegations /\ (writer.by # g \/ writer.of # d)
        BY <2>1, AdmissionHolder
      <3> QED BY <1>1, <2>1, <3>2, <3>3, WriterStays
    <2>2. CASE writer.by = g /\ writer.of = d /\ writer' = Free BY <2>2, FreeIsSafe
    <2> QED BY <2>1, <2>2 DEF WriterTurns
  <1>9. \A h \in Commands, e \in Delegations : LaunchSafe(h, e)'
    <2> HIDE DEF LaunchSafe
    <2> QED BY <1>3, <1>4
  <1> HIDE DEF LaunchSafe, CommandSafe, WriterSafe
  <1> QED BY <1>7, <1>8, <1>9, StepIsSafe

\* The launch goes on with the same child.
LEMMA LaunchPasses ==
  ASSUME Inv, Admission, AllKept, SameBook, NEW g \in Commands, NEW d \in Delegations,
         NEW t \in LaunchType, cmd[g].pc = "run", thr[g][d].pc # "idle", Moves(g, d, t), UNCHANGED cmd,
         WriterTurns(g, d, t), Births(g, d), t.n = thr[g][d].n, t.first = thr[g][d].first,
         NEW n, n = t.n,
         NEW w, w = IF t.pc = "holding" THEN writer'.then ELSE t.pc,
         t.pc \notin {"launch", "spawn"}, w = "spawn" => Safe(<<d, n>>),
         w \in {"recover", "reconcile"} => Proven(op', <<d, n>>),
         w \in {"release", "prepare", "readmit"} => op'[<<d, n>>].failure = "infra",
         w \in {"import", "receipt", "settle", "fulfilled"} => child'[<<d, n>>].state = "finished"
  PROVE  Admission'
  <1>1. n \in 1..2 /\ <<d, n>> \in Actors BY LaunchKnows
  <1>2. Safe(<<d, n>>) => Safe(<<d, n>>)' BY <1>1, SafeStays
  <1>3. Learned(thr[g][d], Where(g, d), d) BY DEF Admission, LaunchSafe
  <1>4. t.first \in 1..2 /\ (n # t.first => op[<<d, t.first>>].failure = "infra") BY <1>3 DEF Learned
  <1>5. <<d, t.first>> \in Actors BY <1>4 DEF Actors
  <1>6. n # t.first => op'[<<d, t.first>>].failure = "infra" BY <1>4, <1>5 DEF AllKept, Kept
  <1>7. Learned(t, w, d)'
    <2> HIDE DEF Safe, Proven
    <2> QED BY <1>2, <1>4, <1>6 DEF Learned
  <1> HIDE DEF Learned, AllKept, SameBook, WriterTurns, Births
  <1> QED BY <1>7, LaunchAdvances

\* What a launch at its step knows.
LEMMA LaunchLearned ==
  ASSUME Inv, Admission, NEW g \in Commands, NEW d \in Delegations,
         cmd[g].pc = "run", thr[g][d].pc \notin {"idle", "holding"}
  PROVE  Learned(thr[g][d], thr[g][d].pc, d)
  BY DEF Admission, LaunchSafe, Where

\* Events that promise nothing.
Promising ==
  {"slot_claimed", "claim_granted", "slot_released", "claim_released", "takeover", "pre_effect_cancelled"}

LEMMA HoldIsSafe ==
  ASSUME NEW g, NEW d, NEW events, NEW then, NEW refused, Hold(g, d, events, then, refused),
         then \notin {"run", "launch"},
         \A i \in DOMAIN events :
           Promised(session, [by |-> g, of |-> d, todo |-> events, then |-> then, refused |-> refused], i)'
  PROVE  WriterSafe'
  <1> DEFINE w == [by |-> g, of |-> d, todo |-> events, then |-> then, refused |-> refused]
  <1>1. writer' = w /\ w.todo = events /\ w.then = then BY DEF Hold
  <1>2. \A i \in DOMAIN events : Promised(session, w, i)' OBVIOUS
  <1> HIDE DEF w
  <1>3. \A i \in DOMAIN writer'.todo : Promised(session, writer, i)'
    BY <1>1, <1>2 DEF Promised, Required, Taken, Spent
  <1> QED BY <1>1, <1>3 DEF WriterSafe

LEMMA BareHold ==
  ASSUME NEW g, NEW d, NEW events, NEW then, NEW refused, Hold(g, d, events, then, refused),
         then \notin {"run", "launch"}, \A i \in DOMAIN events : events[i].type \notin Promising
  PROVE  WriterSafe'
  <1>1. ASSUME NEW i \in DOMAIN events
        PROVE  Promised(session, [by |-> g, of |-> d, todo |-> events, then |-> then, refused |-> refused], i)'
    BY <1>1 DEF Promised, Promising
  <1> HIDE DEF Promised, WriterSafe, Hold
  <1> QED BY <1>1, HoldIsSafe
\* The operation and the process of the actor <<d, n>> become o and c.
Records(d, n, o, c) == op' = [op EXCEPT ![<<d, n>>] = o] /\ child' = [child EXCEPT ![<<d, n>>] = c]

LEMMA LaunchRecords ==
  ASSUME Inv, Admission, UNCHANGED <<session, cmd>>, NEW g \in Commands, NEW d \in Delegations,
         NEW t \in LaunchType, cmd[g].pc = "run", thr[g][d].pc # "idle", Moves(g, d, t),
         WriterTurns(g, d, t), NEW n, n = thr[g][d].n, t.n = n, t.first = thr[g][d].first,
         NEW o, NEW c, Records(d, n, o, c),
         Proven(op, <<d, n>>) => o.failure = op[<<d, n>>].failure,
         child[<<d, n>>].state = "finished" => c.state = "finished",
         c.state \in Live => child[<<d, n>>].state \in Live \/ Safe(<<d, n>>),
         o.state = "reconciled" =>
           \/ op[<<d, n>>].state = "reconciled" \/ o.failure \in {"infra", "cancelled"}
           \/ c.state = "finished",
         child[<<d, n>>].state = "none" => c.state = "none" \/ thr[g][d].pc = "spawn",
         NEW w, w = IF t.pc = "holding" THEN writer'.then ELSE t.pc,
         t.pc \notin {"launch", "spawn"}, w = "spawn" => Safe(<<d, n>>),
         w \in {"recover", "reconcile"} => o.failure \in {"infra", "cancelled"},
         w \in {"release", "prepare", "readmit"} => o.failure = "infra",
         w \in {"import", "receipt", "settle", "fulfilled"} => c.state = "finished"
  PROVE  Admission'
  <1> DEFINE a == <<d, n>>
  <1>1. a \in Actors BY LaunchKnows
  <1>2. op \in [Actors -> OpType] /\ child \in [Actors -> ChildType] BY DEF Inv, Types
  <1> HIDE DEF a
  <1>3. /\ op'[a] = o /\ child'[a] = c
        /\ \A b \in Actors : b # a => op'[b] = op[b] /\ child'[b] = child[b]
    BY <1>1, <1>2 DEF a, Records
  <1>4. Kept(a)
    <2>1. o.failure \in {"infra", "cancelled"} \/ c.state = "finished" => Spent(a)'
      BY <1>3 DEF Spent, Proven
    <2> HIDE DEF Spent, Safe
    <2> QED BY <1>3, <2>1 DEF Kept, a, Proven
  <1>5. AllKept BY <1>1, <1>3, <1>4, KeptButOne
  <1>6. Births(g, d) BY <1>1, <1>3 DEF Births, a
  <1>7. SameBook BY SessionSame
  <1>8. Proven(op', a) <=> o.failure \in {"infra", "cancelled"} BY <1>3 DEF Proven
  <1>9. /\ op'[<<d, n>>] = o /\ child'[<<d, n>>] = c
        /\ Proven(op', <<d, n>>) <=> o.failure \in {"infra", "cancelled"}
    BY <1>3, <1>8 DEF a
  <1>10. /\ w \in {"recover", "reconcile"} => Proven(op', <<d, n>>)
         /\ w \in {"release", "prepare", "readmit"} => op'[<<d, n>>].failure = "infra"
         /\ w \in {"import", "receipt", "settle", "fulfilled"} => child'[<<d, n>>].state = "finished"
    BY <1>9
  <1> HIDE DEF AllKept, Births, SameBook, WriterTurns, Proven, Safe, Moves
  <1> QED BY <1>5, <1>6, <1>7, <1>10, LaunchPasses

LEMMA JustPasses ==
  ASSUME Inv, Admission, UNCHANGED <<session, cmd, op, child>>, NEW g \in Commands, NEW d \in Delegations,
         NEW t \in LaunchType, cmd[g].pc = "run", thr[g][d].pc # "idle", Moves(g, d, t),
         WriterTurns(g, d, t), NEW n, n = thr[g][d].n, t.n = n, t.first = thr[g][d].first,
         NEW w, w = IF t.pc = "holding" THEN writer'.then ELSE t.pc,
         t.pc \notin {"launch", "spawn"}, w = "spawn" => Safe(<<d, n>>),
         w \in {"recover", "reconcile"} => Proven(op, <<d, n>>),
         w \in {"release", "prepare", "readmit"} => op[<<d, n>>].failure = "infra",
         w \in {"import", "receipt", "settle", "fulfilled"} => child[<<d, n>>].state = "finished"
  PROVE  Admission'
  <1>1. AllKept BY KeptAll
  <1>2. SameBook BY SessionSame
  <1>3. Births(g, d) BY DEF Births
  <1>4. Proven(op', <<d, n>>) <=> Proven(op, <<d, n>>) BY DEF Proven
  <1> HIDE DEF AllKept, Births, SameBook, WriterTurns, Proven, Safe, Moves
  <1> QED BY <1>1, <1>2, <1>3, <1>4, LaunchPasses

\* A launch goes on without a word to the session.
LEMMA JustGoto ==
  ASSUME Inv, Admission, UNCHANGED <<session, writer, op, child>>, NEW g \in Commands, NEW d \in Delegations,
         cmd[g].pc = "run", thr[g][d].pc \notin {"idle", "holding"},
         NEW to \in LaunchSteps, Goto(g, d, to) \/ (to = "fail" /\ UNCHANGED cmd /\
           \E why \in {"infra", "cancelled", "stale"} : Throw(g, d, why)),
         to \notin {"holding", "launch", "spawn"},
         to \in {"recover", "reconcile"} => Proven(op, <<d, thr[g][d].n>>),
         to \in {"release", "prepare", "readmit"} => op[<<d, thr[g][d].n>>].failure = "infra",
         to \in {"import", "receipt", "settle", "fulfilled"} => child[<<d, thr[g][d].n>>].state = "finished"
  PROVE  Admission'
  <1>1. PICK n : n = thr[g][d].n OBVIOUS
  <1>2. /\ UNCHANGED cmd
        /\ \E t \in LaunchType :
             Moves(g, d, t) /\ t.pc = to /\ t.n = thr[g][d].n /\ t.first = thr[g][d].first
    <2> HIDE DEF Goto, Throw
    <2> QED BY GotoLaunch, ThrowLaunch
  <1>3. PICK t \in LaunchType :
          Moves(g, d, t) /\ t.pc = to /\ t.n = thr[g][d].n /\ t.first = thr[g][d].first
    BY <1>2
  <1>4. WriterTurns(g, d, t) BY <1>3 DEF WriterTurns
  <1> HIDE DEF WriterTurns, Proven, Safe, Moves
  <1> QED BY <1>1, <1>2, <1>3, <1>4, JustPasses

\* A launch takes the writer.
LEMMA JustHold ==
  ASSUME Inv, Admission, UNCHANGED <<session, op, child>>, NEW g \in Commands, NEW d \in Delegations,
         cmd[g].pc = "run", thr[g][d].pc \notin {"idle", "holding"}, writer.by = 0,
         NEW events, NEW then, NEW refused, Hold(g, d, events, then, refused), Goto(g, d, "holding"),
         WriterSafe',
         then = "spawn" => Safe(<<d, thr[g][d].n>>),
         then \in {"recover", "reconcile"} => Proven(op, <<d, thr[g][d].n>>),
         then \in {"release", "prepare", "readmit"} => op[<<d, thr[g][d].n>>].failure = "infra",
         then \in {"import", "receipt", "settle", "fulfilled"} => child[<<d, thr[g][d].n>>].state = "finished"
  PROVE  Admission'
  <1>1. PICK n : n = thr[g][d].n OBVIOUS
  <1>2. "holding" \in LaunchSteps BY DEF LaunchSteps
  <1>3. /\ UNCHANGED cmd
        /\ \E t \in LaunchType :
             Moves(g, d, t) /\ t.pc = "holding" /\ t.n = thr[g][d].n /\ t.first = thr[g][d].first
    BY <1>2, GotoLaunch
  <1>4. PICK t \in LaunchType :
          Moves(g, d, t) /\ t.pc = "holding" /\ t.n = thr[g][d].n /\ t.first = thr[g][d].first
    BY <1>3
  <1>5. WriterTurns(g, d, t) BY <1>4 DEF WriterTurns
  <1>6. writer'.then = then BY DEF Hold
  <1> HIDE DEF WriterTurns, Proven, Safe, Moves
  <1> QED BY <1>1, <1>3, <1>4, <1>5, <1>6, JustPasses

LEMMA SafeSpawn ==
  ASSUME Inv, Admission, NEW g \in Commands, NEW d \in Delegations, Spawn(g, d)
  PROVE  Admission'
  <1>0. cmd[g].pc = "run" /\ thr[g][d].pc = "spawn" BY DEF Spawn, Launching
  <1>1. UNCHANGED <<session, writer, lease, cmd, gone, crashes>> BY DEF Spawn
  <1>2. PICK n \in 1..2 : n = thr[g][d].n BY <1>0, LaunchKnows
  <1> DEFINE a == <<d, n>>
  <1>3. a \in Actors /\ ~Proven(op, a) /\ op[a] \in OpType BY <1>0, <1>2, LaunchKnows DEF Near
  <1>4. Learned(thr[g][d], "spawn", d) BY <1>0, LaunchLearned
  <1>5. Safe(a) /\ child[a].state = "none" BY <1>0, <1>2, <1>4 DEF Learned
  <1>6. CASE (Throw(g, d, "cancelled") \/ Throw(g, d, "infra")) /\ UNCHANGED <<op, child>>
    <2>1. "fail" \in LaunchSteps BY DEF LaunchSteps
    <2> QED BY <1>0, <1>1, <1>6, <2>1, JustGoto
  <1>7. CASE /\ child' = [child EXCEPT ![a].state = "up"]
             /\ op' = [op EXCEPT ![a].state = "spawned"]
             /\ thr' = [thr EXCEPT ![g][d].pc = "handshake"]
    <2> DEFINE t == [thr[g][d] EXCEPT !.pc = "handshake"]
    <2>1. PICK o : o = [op[a] EXCEPT !.state = "spawned"] OBVIOUS
    <2>2. PICK c : c = [child[a] EXCEPT !.state = "up"] OBVIOUS
    <2>3. t \in LaunchType /\ t.pc = "handshake" /\ t.n = n /\ t.first = thr[g][d].first
      BY <1>0, <1>2, LaunchKnows, ZenonT(60) DEF LaunchType, LaunchSteps
    <2>4. o.state = "spawned" /\ o.failure = op[a].failure BY <1>3, <2>1 DEF OpType
    <2>5. c.state = "up" BY <1>3, <2>2, SameChild DEF ChildType
    <2>6. Moves(g, d, t) BY <1>7 DEF Moves
    <2>7. Records(d, n, o, c) BY <1>7, <2>1, <2>2 DEF Records
    <2> HIDE DEF t
    <2>8. WriterTurns(g, d, t) BY <1>0, <1>1, <2>3 DEF WriterTurns
    <2> HIDE DEF WriterTurns, Proven, Safe, Moves, Records
    <2> QED BY <1>0, <1>1, <1>2, <1>3, <1>5, <2>3, <2>4, <2>5, <2>6, <2>7, <2>8, LaunchRecords
  <1>8. ActorIn(g, d) = a BY <1>2 DEF ActorIn
  <1> QED BY <1>6, <1>7, <1>8 DEF Spawn

LEMMA SafeHandshake ==
  ASSUME Inv, Admission, NEW g \in Commands, NEW d \in Delegations, Handshake(g, d)
  PROVE  Admission'
  <1>0. cmd[g].pc = "run" /\ thr[g][d].pc = "handshake" BY DEF Handshake, Launching
  <1>1. UNCHANGED <<session, writer, lease, cmd, gone, crashes>> BY DEF Handshake
  <1>2. PICK n \in 1..2 : n = thr[g][d].n BY <1>0, LaunchKnows
  <1> DEFINE a == <<d, n>>
  <1>3. a \in Actors /\ op[a] \in OpType BY <1>0, <1>2, LaunchKnows
  <1>6. CASE Throw(g, d, "infra") /\ UNCHANGED <<op, child>>
    <2>1. "fail" \in LaunchSteps BY DEF LaunchSteps
    <2> QED BY <1>0, <1>1, <1>6, <2>1, JustGoto
  <1>7. CASE /\ child[a].state = "up"
             /\ child' = [child EXCEPT ![a].state = "shaken"]
             /\ op' = [op EXCEPT ![a].state = "handshaken"]
             /\ thr' = [thr EXCEPT ![g][d].pc = "start"]
    <2> DEFINE t == [thr[g][d] EXCEPT !.pc = "start"]
    <2>1. PICK o : o = [op[a] EXCEPT !.state = "handshaken"] OBVIOUS
    <2>2. PICK c : c = [child[a] EXCEPT !.state = "shaken"] OBVIOUS
    <2>3. t \in LaunchType /\ t.pc = "start" /\ t.n = n /\ t.first = thr[g][d].first
      BY <1>0, <1>2, LaunchKnows, ZenonT(60) DEF LaunchType, LaunchSteps
    <2>4. o.state = "handshaken" /\ o.failure = op[a].failure BY <1>3, <2>1 DEF OpType
    <2>5. c.state = "shaken" BY <1>3, <2>2, SameChild DEF ChildType
    <2>6. Moves(g, d, t) BY <1>7 DEF Moves
    <2>7. Records(d, n, o, c) BY <1>7, <2>1, <2>2 DEF Records
    <2> HIDE DEF t
    <2>8. WriterTurns(g, d, t) BY <1>0, <1>1, <2>3 DEF WriterTurns
    <2>9. child[a].state \in Live /\ child[a].state \notin {"none", "finished"} BY <1>7 DEF Live
    <2> HIDE DEF WriterTurns, Proven, Safe, Moves, Records
    <2> QED BY <1>0, <1>1, <1>2, <1>3, <2>3, <2>4, <2>5, <2>6, <2>7, <2>8, <2>9, LaunchRecords
  <1>8. ActorIn(g, d) = a BY <1>2 DEF ActorIn
  <1> QED BY <1>6, <1>7, <1>8 DEF Handshake
\* The same for a launch that goes on and touches its operation or its process.
LEMMA GotoRecords ==
  ASSUME Inv, Admission, UNCHANGED <<session, writer>>, NEW g \in Commands, NEW d \in Delegations,
         cmd[g].pc = "run", thr[g][d].pc \notin {"idle", "holding", "spawn"},
         NEW to \in LaunchSteps, Goto(g, d, to), to \notin {"holding", "launch", "spawn"},
         NEW n, n = thr[g][d].n, NEW o, NEW c,
         Records(d, n, o, c),
         Proven(op, <<d, n>>) => o.failure = op[<<d, n>>].failure,
         c = child[<<d, n>>] \/ (child[<<d, n>>].state \in Live /\ c.state \in {"killed", "dead"}),
         o.state = "reconciled" =>
           \/ op[<<d, n>>].state = "reconciled" \/ o.failure \in {"infra", "cancelled"}
           \/ c.state = "finished",
         to \in {"recover", "reconcile"} => o.failure \in {"infra", "cancelled"},
         to \in {"release", "prepare", "readmit"} => o.failure = "infra",
         to \in {"import", "receipt", "settle", "fulfilled"} => c.state = "finished"
  PROVE  Admission'
  <1>1. UNCHANGED cmd BY GotoLaunch
  <1>2. PICK t \in LaunchType :
          Moves(g, d, t) /\ t.pc = to /\ t.n = thr[g][d].n /\ t.first = thr[g][d].first
    BY GotoLaunch
  <1>3. WriterTurns(g, d, t) BY <1>2 DEF WriterTurns
  <1>4. /\ child[<<d, n>>].state = "finished" => c.state = "finished"
        /\ c.state \in Live => child[<<d, n>>].state \in Live
        /\ child[<<d, n>>].state = "none" => c.state = "none"
    BY DEF Live
  <1>5. PICK w : w = to OBVIOUS
  <1>6. /\ w = IF t.pc = "holding" THEN writer'.then ELSE t.pc
        /\ w # "spawn" /\ t.pc \notin {"launch", "spawn"}
        /\ w \in {"recover", "reconcile"} => o.failure \in {"infra", "cancelled"}
        /\ w \in {"release", "prepare", "readmit"} => o.failure = "infra"
        /\ w \in {"import", "receipt", "settle", "fulfilled"} => c.state = "finished"
    BY <1>2, <1>5
  <1>7. UNCHANGED <<session, cmd>> /\ t.n = n /\ thr[g][d].pc # "idle" BY <1>1, <1>2
  <1> HIDE DEF WriterTurns, Proven, Safe, Moves, Goto, Records
  <1> QED BY <1>2, <1>3, <1>4, <1>6, <1>7, LaunchRecords

LEMMA Ending ==
  ASSUME Inv, NEW a \in Actors,
         \/ child' = child
         \/ child[a].state \in Live /\ child' = [child EXCEPT ![a] = Ended(@)]
  PROVE  \E c : /\ child' = [child EXCEPT ![a] = c]
                /\ c = child[a] \/ (child[a].state \in Live /\ c.state \in {"killed", "dead"})
  <1>1. CASE child' = child
    <2>1. child = [child EXCEPT ![a] = child[a]] BY SameChild
    <2> QED BY <1>1, <2>1
  <1>2. CASE child[a].state \in Live /\ child' = [child EXCEPT ![a] = Ended(@)]
    <2>1. child[a] \in ChildType BY SameChild
    <2>2. Ended(child[a]).state \in {"killed", "dead"} BY <2>1 DEF Ended, ChildType
    <2> HIDE DEF Ended
    <2> QED BY <1>2, <2>2
  <1> QED BY <1>1, <1>2

LEMMA SafePollCancel ==
  ASSUME Inv, Admission, NEW g \in Commands, NEW d \in Delegations, PollCancel(g, d)
  PROVE  Admission'
  <1>0. cmd[g].pc = "run" /\ thr[g][d].pc \in PreStart \cup {"fail", "blocked"} BY DEF PollCancel, Launching
  <1>a. thr[g][d].pc \notin {"idle", "holding"} BY <1>0 DEF PreStart
  <1>1. UNCHANGED <<session, writer, lease, op, cmd, gone, crashes>> BY DEF PollCancel
  <1>2. PICK n \in 1..2 : n = thr[g][d].n BY <1>a, LaunchKnows
  <1> DEFINE a == <<d, n>>
  <1>3. a \in Actors /\ thr[g][d] \in LaunchType BY <1>a, <1>2, LaunchKnows
  <1>4. PICK t : t = [thr[g][d] EXCEPT !.seen = TRUE] OBVIOUS
  <1>5. t \in LaunchType /\ t.pc = thr[g][d].pc /\ t.n = n /\ t.first = thr[g][d].first
    BY <1>2, <1>3, <1>4 DEF LaunchType
  <1>6. Moves(g, d, t) BY <1>4 DEF PollCancel, Moves
  <1>7. ActorIn(g, d) = a BY <1>2 DEF ActorIn
  <1>8. child' = IF child[a].state \in Live THEN [child EXCEPT ![a] = Ended(@)] ELSE child
    BY <1>7 DEF PollCancel
  <1>9. PICK c : /\ child' = [child EXCEPT ![a] = c]
                 /\ c = child[a] \/ (child[a].state \in Live /\ c.state \in {"killed", "dead"})
    <2> HIDE DEF a, Ended
    <2> QED BY <1>3, <1>8, Ending
  <1>10. child'[a] = c /\ \A b \in Actors : b # a => child'[b] = child[b]
    <2> HIDE DEF a
    <2> QED BY <1>3, <1>9 DEF Inv, Types
  <1>11. Kept(a) BY <1>1, <1>9, <1>10 DEF Kept, Live
  <1>12. AllKept
    <2> HIDE DEF a
    <2> QED BY <1>1, <1>3, <1>10, <1>11, KeptButOne
  <1>13. Births(g, d)
    <2>1. child[a].state = "none" => child'[a].state = "none" BY <1>9, <1>10 DEF Live
    <2> HIDE DEF a
    <2> QED BY <1>3, <1>10, <2>1 DEF Births
  <1>14. Learned(thr[g][d], thr[g][d].pc, d) BY <1>0, <1>a, LaunchLearned
  <1>15. PICK w : w = t.pc OBVIOUS
  <1>16. Learned(t, w, d) BY <1>2, <1>5, <1>14, <1>15 DEF Learned
  <1>17. t.pc = "spawn" => child'[<<d, t.n>>].state = "none"
    <2>1. t.pc = "spawn" => child[a].state = "none" BY <1>5, <1>16 DEF Learned
    <2>2. child[a].state = "none" => child'[a].state = "none" BY <1>9, <1>10 DEF Live
    <2> QED BY <1>5, <2>1, <2>2
  <1>18. SameBook BY <1>1, SessionSame
  <1>19. Learned(t, w, d)'
    <2> HIDE DEF Learned, AllKept, SameBook, a
    <2> QED BY <1>5, <1>12, <1>16, <1>17, <1>18, LearnedStays
  <1>20. WriterTurns(g, d, t) BY <1>1, <1>a, <1>5 DEF WriterTurns
  <1> HIDE DEF Learned, AllKept, SameBook, WriterTurns, Births, Moves, a
  <1> QED BY <1>0, <1>1, <1>a, <1>5, <1>6, <1>12, <1>13, <1>15, <1>18, <1>19, <1>20, LaunchAdvances

LEMMA SafeWait ==
  ASSUME Inv, Admission, NEW g \in Commands, NEW d \in Delegations, Wait(g, d)
  PROVE  Admission'
  <1>0. cmd[g].pc = "run" /\ thr[g][d].pc = "wait" BY DEF Wait, Launching
  <1>1. UNCHANGED <<session, writer, lease, gone, crashes>> BY DEF Wait
  <1>2. PICK n \in 1..2 : n = thr[g][d].n BY <1>0, LaunchKnows
  <1> DEFINE a == <<d, n>>
  <1>3. a \in Actors /\ ~Proven(op, a) BY <1>0, <1>2, LaunchKnows DEF Near
  <1>4. ActorIn(g, d) = a BY <1>2 DEF ActorIn
  <1>5. {"import", "rejected", "lost"} \subseteq LaunchSteps BY DEF LaunchSteps
  <1>6. CASE child[a].state = "finished" /\ Goto(g, d, "import") /\ UNCHANGED <<op, child>>
    <2> HIDE DEF Goto
    <2> QED BY <1>0, <1>1, <1>2, <1>5, <1>6, JustGoto
  <1>7. CASE /\ child' \in {child} \cup (IF child[a].state \in Live
                                          THEN {[child EXCEPT ![a] = Ended(@)]} ELSE {})
             /\ \/ Goto(g, d, "rejected") /\ UNCHANGED op
                \/ /\ op' = [op EXCEPT ![a] = [state |-> "blocked", failure |-> "unknown"]]
                   /\ Goto(g, d, "lost")
    <2>1. PICK c : /\ child' = [child EXCEPT ![a] = c]
                   /\ c = child[a] \/ (child[a].state \in Live /\ c.state \in {"killed", "dead"})
      <3>1. \/ child' = child
            \/ child[a].state \in Live /\ child' = [child EXCEPT ![a] = Ended(@)]
        BY <1>7
      <3> HIDE DEF a, Ended
      <3> QED BY <1>3, <3>1, Ending
    <2>2. PICK to, o :
            /\ to \in {"rejected", "lost"}
            /\ Goto(g, d, to) /\ op' = [op EXCEPT ![a] = o]
            /\ o = op[a] \/ o.state = "blocked"
      <3>1. op = [op EXCEPT ![a] = op[a]] BY <1>3, SameChild
      <3> HIDE DEF Goto
      <3> QED BY <1>7, <3>1
    <2>3. o.state = "reconciled" => op[a].state = "reconciled" BY <2>2
    <2>4. Records(d, n, o, c) BY <2>1, <2>2 DEF Records
    <2> HIDE DEF Goto, Proven, Records
    <2> QED BY <1>0, <1>1, <1>2, <1>3, <1>5, <2>1, <2>2, <2>3, <2>4, GotoRecords
  <1> HIDE DEF Goto
  <1> QED BY <1>4, <1>6, <1>7 DEF Wait

LEMMA SafeFail ==
  ASSUME Inv, Admission, NEW g \in Commands, NEW d \in Delegations, Fail(g, d)
  PROVE  Admission'
  <1>0. cmd[g].pc = "run" /\ thr[g][d].pc = "fail" BY DEF Fail, Launching
  <1>1. UNCHANGED <<session, writer, lease, gone, crashes>> BY DEF Fail
  <1>2. PICK n \in 1..2 : n = thr[g][d].n BY <1>0, LaunchKnows
  <1> DEFINE a == <<d, n>>
  <1>3. a \in Actors /\ ~Proven(op, a) BY <1>0, <1>2, LaunchKnows DEF Near
  <1>4. ActorIn(g, d) = a BY <1>2 DEF ActorIn
  <1>5. {"recover", "rejected", "blocked"} \subseteq LaunchSteps BY DEF LaunchSteps
  <1> DEFINE pre(f) == [op EXCEPT ![a] = [state |-> "pre_effect_terminal", failure |-> f]]
             lost == [op EXCEPT ![a] = [state |-> "blocked", failure |-> "unknown"]]
  <1>6. /\ child' = child \/ (child[a].state \in Live /\ child' = [child EXCEPT ![a] = Ended(@)])
        /\ \/ (op' = pre("infra") \/ op' = pre("cancelled")) /\ Goto(g, d, "recover")
           \/ op' = op /\ (Goto(g, d, "rejected") \/ Goto(g, d, "blocked"))
           \/ op' = lost /\ Goto(g, d, "blocked")
    <2> HIDE DEF Goto, PreEffect, CancelKnown, Ended
    <2> QED BY <1>4 DEF Fail
  <1>7. PICK c : /\ child' = [child EXCEPT ![a] = c]
                 /\ c = child[a] \/ (child[a].state \in Live /\ c.state \in {"killed", "dead"})
    <2> HIDE DEF a, Ended
    <2> QED BY <1>3, <1>6, Ending
  <1>8. PICK to, o :
          /\ to \in {"recover", "rejected", "blocked"}
          /\ Goto(g, d, to) /\ op' = [op EXCEPT ![a] = o]
          /\ o = op[a] \/ o.state \in {"blocked", "pre_effect_terminal"}
          /\ to = "recover" => o.failure \in {"infra", "cancelled"}
    <2>1. op = [op EXCEPT ![a] = op[a]] BY <1>3, SameChild
    <2> HIDE DEF Goto
    <2> QED BY <1>6, <2>1
  <1>9. o.state = "reconciled" => op[a].state = "reconciled" BY <1>8
  <1>10. Records(d, n, o, c) BY <1>7, <1>8 DEF Records
  <1> HIDE DEF Goto, Proven, pre, lost, Records
  <1> QED BY <1>0, <1>1, <1>2, <1>3, <1>5, <1>7, <1>8, <1>9, <1>10, GotoRecords

LEMMA SafeReconcile ==
  ASSUME Inv, Admission, NEW g \in Commands, NEW d \in Delegations, Reconcile(g, d) \/ Settle(g, d)
  PROVE  Admission'
  <1>0. cmd[g].pc = "run" /\ thr[g][d].pc \in {"reconcile", "settle"} BY DEF Reconcile, Settle, Launching
  <1>1. UNCHANGED <<session, writer, lease, child, gone, crashes>> BY DEF Reconcile, Settle
  <1>2. PICK n \in 1..2 : n = thr[g][d].n BY <1>0, LaunchKnows
  <1> DEFINE a == <<d, n>>
  <1>3. a \in Actors /\ op[a] \in OpType BY <1>0, <1>2, LaunchKnows
  <1>4. ActorIn(g, d) = a BY <1>2 DEF ActorIn
  <1>5. Learned(thr[g][d], thr[g][d].pc, d) BY <1>0, LaunchLearned
  <1>6. op = [op EXCEPT ![a] = op[a]] /\ child = [child EXCEPT ![a] = child[a]] BY <1>3, SameChild
  <1>7. {"rejected", "release", "fulfilled"} \subseteq LaunchSteps BY DEF LaunchSteps
  <1>8. PICK o : /\ op' = [op EXCEPT ![a] = o] /\ o.failure = op[a].failure
    <2>1. [op[a] EXCEPT !.state = "reconciled"].failure = op[a].failure BY <1>3 DEF OpType
    <2>2. op' = op \/ op' = [op EXCEPT ![a] = [op[a] EXCEPT !.state = "reconciled"]]
      BY <1>4 DEF Reconcile, Settle, Reconciled
    <2> HIDE DEF a
    <2> QED BY <1>6, <2>1, <2>2
  <1>9. CASE Reconcile(g, d)
    <2>1. Proven(op, a)
      <3>1. thr[g][d].pc = "reconcile" BY <1>9 DEF Reconcile, Launching
      <3> QED BY <1>2, <1>5, <3>1 DEF Learned
    <2>2. PICK to \in {"rejected", "release"} : Goto(g, d, to) /\ (to = "release" => op[a].failure = "infra")
      <3>1. op[a].failure # "cancelled" => op[a].failure = "infra" BY <2>1 DEF Proven
      <3>2. Goto(g, d, IF op[a].failure = "cancelled" THEN "rejected" ELSE "release")
        BY <1>4, <1>9 DEF Reconcile
      <3> HIDE DEF Goto, a
      <3> QED BY <3>1, <3>2
    <2>3. o.failure \in {"infra", "cancelled"} BY <1>8, <2>1 DEF Proven
    <2>4. PICK c : c = child[a] OBVIOUS
    <2>5. Records(d, n, o, c) BY <1>1, <1>6, <1>8, <2>4 DEF Records
    <2> HIDE DEF Goto, Proven, Records
    <2> QED BY <1>0, <1>1, <1>2, <1>7, <1>8, <2>2, <2>3, <2>4, <2>5, GotoRecords
  <1>10. CASE Settle(g, d)
    <2>1. child[a].state = "finished"
      <3>1. thr[g][d].pc = "settle" BY <1>10 DEF Settle, Launching
      <3> QED BY <1>2, <1>5, <3>1 DEF Learned
    <2>2. Goto(g, d, "fulfilled") BY <1>10 DEF Settle
    <2>4. PICK c : c = child[a] OBVIOUS
    <2>5. Records(d, n, o, c) /\ c.state = "finished" BY <1>1, <1>6, <1>8, <2>1, <2>4 DEF Records
    <2> HIDE DEF Goto, Proven, Records
    <2> QED BY <1>0, <1>1, <1>2, <1>7, <1>8, <2>2, <2>4, <2>5, GotoRecords
  <1> QED BY <1>9, <1>10

-----------------------------------------------------------------------------
(* The launches that take the writer. *)

\* The events that a hold may always append.
Harmless ==
  {e \in Event :
    \/ e.type \notin Promising
    \/ e.type \in {"slot_released", "claim_released"} /\ Spent(ActorOf(e))
    \/ e.type = "pre_effect_cancelled" /\ (e.n # 0 => op[ActorOf(e)].failure = "cancelled")}

LEMMA HarmlessHold ==
  ASSUME NEW g, NEW d, NEW events \in Seq(Harmless), NEW then, NEW refused,
         Hold(g, d, events, then, refused), then \notin {"run", "launch"}, UNCHANGED <<op, child>>
  PROVE  WriterSafe'
  <1>1. ASSUME NEW i \in DOMAIN events
        PROVE  Promised(session, [by |-> g, of |-> d, todo |-> events, then |-> then, refused |-> refused], i)'
    <2>1. PICK w : w = [by |-> g, of |-> d, todo |-> events, then |-> then, refused |-> refused] OBVIOUS
    <2>2. w.todo = events /\ w.then = then BY <2>1
    <2>3. events[i] \in Harmless
      <3> HIDE DEF Harmless
      <3> QED BY <1>1
    <2>4. \A a : Spent(a) => Spent(a)' BY DEF Spent, Proven
    <2>5. Promised(session, w, i)'
      <3> HIDE DEF Spent, ActorOf
      <3> QED BY <2>2, <2>3, <2>4 DEF Promised, Harmless, Promising
    <2> HIDE DEF Promised
    <2> QED BY <2>1, <2>5
  <1> HIDE DEF Promised, WriterSafe, Hold, Harmless
  <1> QED BY <1>1, HoldIsSafe

LEMMA GivesUp ==
  ASSUME Inv, Admission, UNCHANGED <<session, writer, op, child>>, NEW g \in Commands, NEW d \in Delegations,
         cmd[g].pc = "run", thr[g][d].pc \notin {"idle", "holding"}, Goto(g, d, "rejected")
  PROVE  Admission'
  <1>1. "rejected" \in LaunchSteps BY DEF LaunchSteps
  <1> HIDE DEF Goto
  <1> QED BY <1>1, JustGoto

LEMMA SafeBlocked ==
  ASSUME Inv, Admission, NEW g \in Commands, NEW d \in Delegations, RecordBlocked(g, d) \/ Lost(g, d)
  PROVE  Admission'
  <1>0. cmd[g].pc = "run" /\ thr[g][d].pc \in {"blocked", "lost"} /\ writer.by = 0
    BY DEF RecordBlocked, Lost, Launching, WriterFree
  <1>1. UNCHANGED <<session, op, child>> BY DEF RecordBlocked, Lost
  <1>2. CASE Goto(g, d, "rejected") /\ UNCHANGED writer BY <1>0, <1>1, <1>2, GivesUp
  <1>3. CASE Hold(g, d, <<Of("blocked", d)>>, "rejected", "rejected") /\ Goto(g, d, "holding")
    <2>1. PICK q : q = <<Of("blocked", d)>> OBVIOUS
    <2>2. \A i \in DOMAIN q : q[i].type \notin Promising BY <2>1 DEF Of, Promising
    <2>3. Hold(g, d, q, "rejected", "rejected") BY <1>3, <2>1
    <2>4. WriterSafe' BY <2>2, <2>3, BareHold
    <2> HIDE DEF WriterSafe, Hold, Goto
    <2> QED BY <1>0, <1>1, <1>3, <2>3, <2>4, JustHold
  <1> QED BY <1>2, <1>3 DEF RecordBlocked, Lost

LEMMA SafeStart ==
  ASSUME Inv, Admission, NEW g \in Commands, NEW d \in Delegations, Start(g, d)
  PROVE  Admission'
  <1>0. cmd[g].pc = "run" /\ thr[g][d].pc = "start" /\ writer.by = 0
    BY DEF Start, Launching, WriterFree
  <1>1. UNCHANGED <<session, op, child>> BY DEF Start
  <1>2. CASE (\E why \in {"infra", "cancelled", "stale"} : Throw(g, d, why)) /\ UNCHANGED <<writer, cmd>>
    <2>1. "fail" \in LaunchSteps BY DEF LaunchSteps
    <2> HIDE DEF Throw
    <2> QED BY <1>0, <1>1, <1>2, <2>1, JustGoto
  <1>3. CASE Hold(g, d, <<OfAttempt("started", ActorIn(g, d))>>, "sending", "fail") /\ Goto(g, d, "holding")
    <2>1. PICK q : q = <<OfAttempt("started", ActorIn(g, d))>> OBVIOUS
    <2>2. \A i \in DOMAIN q : q[i].type \notin Promising BY <2>1 DEF OfAttempt, Promising
    <2>3. Hold(g, d, q, "sending", "fail") BY <1>3, <2>1
    <2>4. WriterSafe' BY <2>2, <2>3, BareHold
    <2> HIDE DEF WriterSafe, Hold, Goto
    <2> QED BY <1>0, <1>1, <1>3, <2>3, <2>4, JustHold
  <1> QED BY <1>2, <1>3 DEF Start

LEMMA SafeSendStart ==
  ASSUME Inv, Admission, NEW g \in Commands, NEW d \in Delegations, SendStart(g, d)
  PROVE  Admission'
  <1>0. cmd[g].pc = "run" /\ thr[g][d].pc = "sending" BY DEF SendStart, Launching
  <1>1. UNCHANGED <<session, cmd>> /\ writer' = Free BY DEF SendStart
  <1>2. PICK n \in 1..2 : n = thr[g][d].n BY <1>0, LaunchKnows
  <1> DEFINE a == <<d, n>>
             o1 == [op[a] EXCEPT !.state = "running"]
             c1 == [child[a] EXCEPT !.state = IF @ = "shaken" THEN "told" ELSE @]
  <1>3. a \in Actors /\ op[a] \in OpType /\ child[a] \in ChildType BY <1>0, <1>2, LaunchKnows
  <1>4. ActorIn(g, d) = a BY <1>2 DEF ActorIn
  <1>5. LaunchOK(g, d) BY DEF Inv
  <1>6. writer.by = g /\ writer.of = d BY <1>0, <1>5 DEF LaunchOK
  <1>7. /\ op' = op \/ op' = [op EXCEPT ![a] = o1]
        /\ child' = child \/ child' = [child EXCEPT ![a] = c1]
        /\ \/ thr' = [thr EXCEPT ![g][d].pc = "wait"]
           \/ Throw(g, d, "infra")
    BY <1>4 DEF SendStart
  <1>8. PICK t \in LaunchType :
          Moves(g, d, t) /\ t.n = n /\ t.first = thr[g][d].first /\ t.pc \in {"wait", "fail"}
    <2>1. CASE Throw(g, d, "infra") BY <1>2, <2>1, ThrowLaunch
    <2>2. CASE thr' = [thr EXCEPT ![g][d].pc = "wait"]
      <3> DEFINE t == [thr[g][d] EXCEPT !.pc = "wait"]
      <3>1. t \in LaunchType /\ t.n = n /\ t.pc = "wait" /\ t.first = thr[g][d].first
        BY <1>0, <1>2, LaunchKnows, ZenonT(60) DEF LaunchType, LaunchSteps
      <3>2. Moves(g, d, t) BY <2>2 DEF Moves
      <3> QED BY <3>1, <3>2
    <2> QED BY <1>7, <2>1, <2>2
  <1>9. op = [op EXCEPT ![a] = op[a]] /\ child = [child EXCEPT ![a] = child[a]] BY <1>3, SameChild
  <1>10. o1.failure = op[a].failure /\ o1.state = "running"
    <2> HIDE DEF a
    <2> QED BY <1>3 DEF OpType
  <1>11. c1.state = child[a].state \/ (child[a].state = "shaken" /\ c1.state = "told")
    <2> HIDE DEF a
    <2> QED BY <1>3 DEF ChildType
  <1> HIDE DEF o1, c1
  <1>12. PICK o : op' = [op EXCEPT ![a] = o] /\ (o = op[a] \/ o = o1)
    <2> HIDE DEF a
    <2> QED BY <1>7, <1>9
  <1>13. PICK c : child' = [child EXCEPT ![a] = c] /\ (c = child[a] \/ c = c1)
    <2> HIDE DEF a
    <2> QED BY <1>7, <1>9
  <1>14. Records(d, n, o, c) BY <1>12, <1>13 DEF Records
  <1>15. /\ o.failure = op[a].failure /\ (o.state = "reconciled" => op[a].state = "reconciled")
         /\ child[a].state = "finished" => c.state = "finished"
         /\ c.state \in Live => child[a].state \in Live
         /\ child[a].state = "none" => c.state = "none"
    BY <1>10, <1>11, <1>12, <1>13 DEF Live
  <1>16. WriterTurns(g, d, t) BY <1>1, <1>6 DEF WriterTurns
  <1> HIDE DEF WriterTurns, Proven, Safe, Moves, Records
  <1> QED BY <1>0, <1>1, <1>2, <1>8, <1>14, <1>15, <1>16, LaunchRecords

LEMMA SafeImport ==
  ASSUME Inv, Admission, NEW g \in Commands, NEW d \in Delegations, Import(g, d) \/ Receipt(g, d)
  PROVE  Admission'
  <1>0. cmd[g].pc = "run" /\ thr[g][d].pc \in {"import", "receipt"} /\ writer.by = 0
    BY DEF Import, Receipt, Launching, WriterFree
  <1>1. UNCHANGED <<session, op, child>> BY DEF Import, Receipt
  <1>2. CASE Goto(g, d, "rejected") /\ UNCHANGED writer BY <1>0, <1>1, <1>2, GivesUp
  <1>3. CASE /\ \E q : /\ \A i \in DOMAIN q : q[i].type \notin Promising
                       /\ \E then \in {"receipt", "settle"} : Hold(g, d, q, then, "rejected")
             /\ Goto(g, d, "holding")
    <2>a. PICK q : /\ \A i \in DOMAIN q : q[i].type \notin Promising
                   /\ \E then \in {"receipt", "settle"} : Hold(g, d, q, then, "rejected")
      <3> HIDE DEF Hold
      <3> QED BY <1>3
    <2>1. PICK then \in {"receipt", "settle"} : Hold(g, d, q, then, "rejected") BY <2>a
    <2>2. WriterSafe' BY <2>a, <2>1, BareHold
    <2>3. Learned(thr[g][d], thr[g][d].pc, d) BY <1>0, LaunchLearned
    <2>4. child[<<d, thr[g][d].n>>].state = "finished" BY <1>0, <2>3 DEF Learned
    <2> HIDE DEF WriterSafe, Hold, Goto
    <2> QED BY <1>0, <1>1, <1>3, <2>1, <2>2, <2>4, JustHold
  <1>4. CASE Import(g, d)
    <2> DEFINE a == ActorIn(g, d)
               q == <<WithKind("terminal", a, child[a].result)>>
    <2>1. \A i \in DOMAIN q : q[i].type \notin Promising BY DEF WithKind, Promising
    <2>2. \/ Hold(g, d, q, "receipt", "rejected") /\ Goto(g, d, "holding")
          \/ Goto(g, d, "rejected") /\ UNCHANGED writer
      BY <1>4 DEF Import
    <2> HIDE DEF q, Hold, Goto
    <2> QED BY <1>2, <1>3, <2>1, <2>2
  <1>5. CASE Receipt(g, d)
    <2> DEFINE a == ActorIn(g, d)
               q(r) == <<WithKind("ready", a, r), Of("accepted", d), OfAttempt("settled", a)>>
    <2>1. ASSUME NEW r PROVE \A i \in DOMAIN q(r) : q(r)[i].type \notin Promising
      BY DEF WithKind, Of, OfAttempt, Promising
    <2>2. \/ (\E r : Hold(g, d, q(r), "settle", "rejected")) /\ Goto(g, d, "holding")
          \/ Goto(g, d, "rejected") /\ UNCHANGED writer
      BY <1>5 DEF Receipt
    <2> HIDE DEF q, Hold, Goto
    <2> QED BY <1>2, <1>3, <2>1, <2>2
  <1> QED BY <1>4, <1>5

LEMMA RecoveringHarmless ==
  ASSUME Inv, NEW d \in Delegations, NEW n \in 1..2, Recoverable(session, <<d, n>>)
  PROVE  Recovering(session, <<d, n>>) \in Seq(Harmless)
  <1> DEFINE a == <<d, n>>
             e1 == OfAttempt("pre_effect_cancelled", a)
             e2 == WithKind("terminal", a, "pre_effect")
             e3 == OfAttempt("settled", a)
             q == Recovering(session, a)
  <1>2. n \in 0..2 /\ n # 0 /\ "pre_effect" \in Terminals \cup Known BY DEF Terminals
  <1>a. About(e1, "pre_effect_cancelled", d, n) BY <1>2, AttemptMade
  <1>b. About(e3, "settled", d, n) BY <1>2, AttemptMade
  <1>c. About(e2, "terminal", d, n) BY <1>2, KindMade
  <1>d. q = (IF Attempt(session, d, n).terminal = "none"
             THEN <<IF op[a].failure = "cancelled" THEN e1 ELSE e2>> ELSE <<>>)
            \o (IF Attempt(session, d, n).settled THEN <<>> ELSE <<e3>>)
    BY DEF Recovering
  <1> HIDE DEF e1, e2, e3, q
  <1>3. e1 \in Event /\ e1.type = "pre_effect_cancelled" /\ ActorOf(e1) = a BY <1>a DEF About, ActorOf
  <1>4. e3 \in Event /\ e3.type = "settled" BY <1>b DEF About
  <1>5. e2 \in Event /\ e2.type = "terminal" BY <1>c DEF About
  <1> HIDE DEF ActorOf
  <1>6. e2 \in Harmless /\ e3 \in Harmless BY <1>4, <1>5 DEF Harmless, Promising
  <1>7. op[a].failure = "cancelled" => e1 \in Harmless BY <1>3 DEF Harmless
  <1> HIDE DEF Harmless
  <1>8. PICK x \in Harmless : x = IF op[a].failure = "cancelled" THEN e1 ELSE e2 BY <1>6, <1>7
  <1>9. <<x>> \in Seq(Harmless) /\ <<e3>> \in Seq(Harmless) /\ <<>> \in Seq(Harmless) BY <1>6
  <1>10. PICK p \in Seq(Harmless) : p = IF Attempt(session, d, n).terminal = "none" THEN <<x>> ELSE <<>>
    BY <1>9
  <1>11. PICK r \in Seq(Harmless) : r = IF Attempt(session, d, n).settled THEN <<>> ELSE <<e3>>
    BY <1>9
  <1>12. q = p \o r BY <1>d, <1>8, <1>10, <1>11
  <1>13. q \in Seq(Harmless) BY <1>12, ConcatFacts
  <1> QED BY <1>13 DEF q

LEMMA SafeRecover ==
  ASSUME Inv, Admission, NEW g \in Commands, NEW d \in Delegations, Recover(g, d)
  PROVE  Admission'
  <1>0. cmd[g].pc = "run" /\ thr[g][d].pc = "recover" /\ writer.by = 0
    BY DEF Recover, Launching, WriterFree
  <1>1. UNCHANGED <<session, op, child>> BY DEF Recover
  <1>2. PICK n \in 1..2 : n = thr[g][d].n BY <1>0, LaunchKnows
  <1> DEFINE a == <<d, n>>
             q == Recovering(session, a)
  <1>3. CASE Goto(g, d, "rejected") /\ UNCHANGED writer BY <1>0, <1>1, <1>3, GivesUp
  <1>4. CASE Recoverable(session, a) /\ HoldOrGo(g, d, q, "reconcile", "rejected")
    <2>1. Learned(thr[g][d], "recover", d) BY <1>0, LaunchLearned
    <2>2. Proven(op, <<d, thr[g][d].n>>) BY <2>1 DEF Learned
    <2>3. q \in Seq(Harmless)
      <3> HIDE DEF Harmless, Recoverable, Recovering
      <3> QED BY <1>4, RecoveringHarmless
    <2>4. "reconcile" \in LaunchSteps BY DEF LaunchSteps
    <2> HIDE DEF q, Harmless
    <2>5. CASE q = <<>>
      <3>1. Goto(g, d, "reconcile") /\ UNCHANGED writer BY <1>4, <2>5 DEF HoldOrGo
      <3> HIDE DEF Goto, Proven
      <3> QED BY <1>0, <1>1, <2>2, <2>4, <3>1, JustGoto
    <2>6. CASE q # <<>>
      <3>1. Hold(g, d, q, "reconcile", "rejected") /\ Goto(g, d, "holding") BY <1>4, <2>6 DEF HoldOrGo
      <3>2. WriterSafe' BY <1>1, <2>3, <3>1, HarmlessHold
      <3> HIDE DEF WriterSafe, Hold, Goto, Proven
      <3> QED BY <1>0, <1>1, <2>2, <3>1, <3>2, JustHold
    <2> QED BY <2>5, <2>6
  <1> QED BY <1>2, <1>3, <1>4 DEF Recover, ActorIn

\* What a release says.
Frees(e, type, d, n, g) ==
  e \in Event /\ e.type = type /\ ActorOf(e) = <<d, n>> /\ e.d = d /\ e.n = n /\ e.group = g

LEMMA HeldFields ==
  ASSUME NEW d \in Delegations, NEW n \in 1..2, NEW type \in {"claim_released", "slot_released"},
         NEW g \in 0..MaxCommands
  PROVE  Frees(Held(type, <<d, n>>, g), type, d, n, g)
  <1>1. Held(type, <<d, n>>, g) \in Event BY HeldMade
  <1> HIDE DEF Event
  <1> QED BY <1>1 DEF Held, ActorOf, Frees

LEMMA HarmlessHeld ==
  ASSUME NEW d \in Delegations, NEW n \in 1..2, NEW g \in 0..MaxCommands, Spent(<<d, n>>)
  PROVE  /\ Held("claim_released", <<d, n>>, g) \in Harmless
         /\ Held("slot_released", <<d, n>>, g) \in Harmless
         /\ Releasing(<<d, n>>, g) \in Seq(Harmless)
  <1> DEFINE e == Held("claim_released", <<d, n>>, g)
             f == Held("slot_released", <<d, n>>, g)
  <1>1. Frees(e, "claim_released", d, n, g) BY HeldFields
  <1>2. Frees(f, "slot_released", d, n, g) BY HeldFields
  <1>3. Releasing(<<d, n>>, g) = <<e, f>> BY DEF Releasing
  <1> HIDE DEF e, f, ActorOf, Spent
  <1>4. e \in Harmless /\ f \in Harmless BY <1>1, <1>2 DEF Harmless, Frees
  <1> HIDE DEF Harmless
  <1>5. <<e, f>> \in Seq(Harmless) BY <1>4
  <1> QED BY <1>3, <1>4, <1>5 DEF e, f

LEMMA SafeRelease ==
  ASSUME Inv, Admission, NEW g \in Commands, NEW d \in Delegations, Release(g, d)
  PROVE  Admission'
  <1>0. cmd[g].pc = "run" /\ thr[g][d].pc = "release" /\ writer.by = 0
    BY DEF Release, Launching, WriterFree
  <1>1. UNCHANGED <<session, op, child>> BY DEF Release
  <1>2. PICK n \in 1..2 : n = thr[g][d].n BY <1>0, LaunchKnows
  <1> DEFINE q == Releasing(<<d, n>>, g)
  <1>3. Hold(g, d, q, "prepare", "rejected") /\ Goto(g, d, "holding") BY <1>2 DEF Release, ActorIn
  <1>4. Learned(thr[g][d], "release", d) BY <1>0, LaunchLearned
  <1>5. op[<<d, n>>].failure = "infra" BY <1>2, <1>4 DEF Learned
  <1>6. g \in 0..MaxCommands BY DEF Commands
  <1>7. q \in Seq(Harmless)
    <2>1. Spent(<<d, n>>) BY <1>5 DEF Spent, Proven
    <2> HIDE DEF Harmless, Spent, Releasing
    <2> QED BY <1>6, <2>1, HarmlessHeld
  <1> HIDE DEF q, Harmless
  <1>8. WriterSafe' BY <1>1, <1>3, <1>7, HarmlessHold
  <1> HIDE DEF WriterSafe, Hold, Goto, Proven
  <1> QED BY <1>0, <1>1, <1>2, <1>3, <1>5, <1>8, JustHold

LEMMA SafePrepare ==
  ASSUME Inv, Admission, NEW g \in Commands, NEW d \in Delegations, Prepare(g, d)
  PROVE  Admission'
  <1>0. cmd[g].pc = "run" /\ thr[g][d].pc = "prepare" /\ writer.by = 0
    BY DEF Prepare, Launching, WriterFree
  <1>1. UNCHANGED <<session, op, child, cmd>> BY DEF Prepare
  <1>2. PICK n \in 1..2 : n = thr[g][d].n BY <1>0, LaunchKnows
  <1>3. Learned(thr[g][d], "prepare", d) BY <1>0, LaunchLearned
  <1>4. op[<<d, n>>].failure = "infra" BY <1>2, <1>3 DEF Learned
  <1>5. PICK pc \in {"holding", "rejected"} :
          /\ thr' = [thr EXCEPT ![g][d].pc = pc, ![g][d].slot = 0]
          /\ pc = "rejected" => UNCHANGED writer
          /\ pc = "holding" => Hold(g, d, <<Of("prepared", d)>>, "readmit", "rejected")
    <2> HIDE DEF Hold
    <2> QED BY DEF Prepare
  <1> DEFINE t == SlotAt(thr[g][d], pc, 0)
  <1>6. t \in LaunchType /\ t.pc = pc /\ t.n = n /\ t.first = thr[g][d].first
    <2>1. thr[g][d] \in LaunchType BY DEF Inv, Types
    <2>2. pc \in LaunchSteps /\ 0 \in 0..2 BY DEF LaunchSteps
    <2> QED BY <1>2, <2>1, <2>2, LaunchSlot
  <1>7. Moves(g, d, t) BY <1>5 DEF Moves, SlotAt, Inv, Types
  <1> HIDE DEF t
  <1>8. pc = "holding" => WriterSafe' /\ writer'.then = "readmit"
    <2> SUFFICES ASSUME pc = "holding" PROVE WriterSafe' /\ writer'.then = "readmit" OBVIOUS
    <2>1. PICK q : q = <<Of("prepared", d)>> OBVIOUS
    <2>2. \A i \in DOMAIN q : q[i].type \notin Promising BY <2>1 DEF Of, Promising
    <2>3. Hold(g, d, q, "readmit", "rejected") BY <1>5, <2>1
    <2>4. WriterSafe' BY <2>2, <2>3, BareHold
    <2> QED BY <2>3, <2>4 DEF Hold
  <1>9. WriterTurns(g, d, t) BY <1>0, <1>5, <1>6, <1>8 DEF WriterTurns
  <1>10. PICK w : w = IF t.pc = "holding" THEN writer'.then ELSE t.pc OBVIOUS
  <1>11. w \in {"readmit", "rejected"} /\ t.pc \in {"holding", "rejected"} BY <1>6, <1>8, <1>10
  <1> HIDE DEF WriterTurns, Proven, Safe, Moves
  <1> QED BY <1>0, <1>1, <1>2, <1>4, <1>6, <1>7, <1>9, <1>10, <1>11, JustPasses

LEMMA SafeLaunchRequest ==
  ASSUME Inv, Admission, NEW g \in Commands, NEW d \in Delegations, LaunchRequest(g, d)
  PROVE  Admission'
  <1>0. cmd[g].pc = "run" /\ thr[g][d].pc = "launch" /\ writer.by = 0
    BY DEF LaunchRequest, Launching, WriterFree
  <1>1. UNCHANGED <<session, child>> BY DEF LaunchRequest
  <1>2. PICK n \in 1..2 : n = thr[g][d].n BY <1>0, LaunchKnows
  <1> DEFINE a == <<d, n>>
  <1>3. a \in Actors /\ ActorIn(g, d) = a BY <1>2 DEF Actors, ActorIn
  <1>4. CASE Goto(g, d, "rejected") /\ UNCHANGED <<op, writer>> BY <1>0, <1>1, <1>4, GivesUp
  <1>5. CASE /\ op' = op \/ op' = [op EXCEPT ![a].state = "requested"]
             /\ Hold(g, d, <<OfAttempt("reserved", a), OfAttempt("launch_requested", a)>>,
                     "spawn", "rejected")
             /\ Goto(g, d, "holding")
    <2>1. "holding" \in LaunchSteps BY DEF LaunchSteps
    <2>2. PICK t \in LaunchType :
            Moves(g, d, t) /\ t.pc = "holding" /\ t.n = thr[g][d].n /\ t.first = thr[g][d].first
      BY <1>5, <2>1, GotoLaunch
    <2>3. UNCHANGED cmd BY <1>5, <2>1, GotoLaunch
    <2>4. PICK q : q = <<OfAttempt("reserved", a), OfAttempt("launch_requested", a)>> OBVIOUS
    <2>5. \A i \in DOMAIN q : q[i].type \notin Promising BY <2>4 DEF OfAttempt, Promising
    <2>6. Hold(g, d, q, "spawn", "rejected") BY <1>5, <2>4
    <2>7. WriterSafe' BY <2>5, <2>6, BareHold
    <2>8. writer'.then = "spawn" BY <2>6 DEF Hold
    <2>9. WriterTurns(g, d, t) BY <1>0, <2>7 DEF WriterTurns
    <2>10. op[a] \in OpType /\ op = [op EXCEPT ![a] = op[a]] /\ child = [child EXCEPT ![a] = child[a]]
      BY <1>3, SameChild
    <2> DEFINE o1 == [op[a] EXCEPT !.state = "requested"]
    <2>11. o1.failure = op[a].failure /\ o1.state = "requested"
      <3> HIDE DEF a
      <3> QED BY <2>10 DEF OpType
    <2>a. op' = op \/ op' = [op EXCEPT ![a] = o1] BY <1>5
    <2> HIDE DEF o1
    <2>12. PICK o : op' = [op EXCEPT ![a] = o] /\ (o = op[a] \/ o = o1)
      <3> HIDE DEF a
      <3> QED BY <2>a, <2>10
    <2>13. PICK c : c = child[a] OBVIOUS
    <2>14. Records(d, n, o, c) BY <1>1, <2>10, <2>12, <2>13 DEF Records
    <2>15. /\ o.failure = op[a].failure /\ (o.state = "reconciled" => op[a].state = "reconciled")
      BY <2>11, <2>12
    <2>16. Learned(thr[g][d], "launch", d) BY <1>0, LaunchLearned
    <2>17. Safe(a) BY <1>0, <1>2, <2>16 DEF Learned
    <2>18. PICK w : w = "spawn" OBVIOUS
    <2>19. w = IF t.pc = "holding" THEN writer'.then ELSE t.pc BY <2>2, <2>8, <2>18
    <2> HIDE DEF WriterTurns, Proven, Safe, Moves, Records, Hold, Goto, WriterSafe
    <2> QED BY <1>0, <1>1, <1>2, <2>2, <2>3, <2>9, <2>13, <2>14, <2>15, <2>17, <2>18, <2>19, LaunchRecords
  <1> QED BY <1>3, <1>4, <1>5 DEF LaunchRequest

LEMMA Leaves ==
  ASSUME Inv, Admission, UNCHANGED <<session, writer, cmd, op, child>>, NEW g \in Commands, NEW d \in Delegations,
         cmd[g].pc = "run", thr[g][d].pc \notin {"idle", "holding"},
         NEW t \in LaunchType, Moves(g, d, t), t.pc = "rejected", t.n = thr[g][d].n,
         t.first = thr[g][d].first
  PROVE  Admission'
  <1>1. PICK n : n = thr[g][d].n OBVIOUS
  <1>2. WriterTurns(g, d, t) BY DEF WriterTurns
  <1>3. PICK w : w = "rejected" OBVIOUS
  <1> HIDE DEF WriterTurns, Proven, Safe, Moves
  <1> QED BY <1>1, <1>2, <1>3, JustPasses

\* The retry is admitted again, with the envelope prepared for it.
LEMMA SafeReadmit ==
  ASSUME Inv, Admission, NEW g \in Commands, NEW d \in Delegations, Readmit(g, d)
  PROVE  Admission'
  <1> DEFINE A == {e \in Delegations : thr[g][e].slot # 0}
             k == CHOOSE i \in 1..3 : /\ \A e \in A : thr[g][e].slot # i
                                     /\ \A j \in 1 .. i - 1 : \E e \in A : thr[g][e].slot = j
  <1>0. cmd[g].pc = "run" /\ thr[g][d].pc = "readmit" /\ writer.by = 0
    BY DEF Readmit, Launching, WriterFree
  <1>1. thr[g][d].n \in 1..2 /\ thr[g][d].n <= session.envelopes[d] /\ thr[g][d] \in LaunchType
    BY <1>0, LaunchKnows
  <1>2. session.envelopes[d] \in 0..2 BY SessionFields DEF Inv, Types
  <1>3. PICK n \in 1..2 : n = session.envelopes[d] BY <1>1, <1>2
  <1>4. UNCHANGED <<session, op, child, cmd>> BY DEF Readmit
  <1>5. PICK m \in 1..2 : m = thr[g][d].n BY <1>1
  <1>6. Learned(thr[g][d], "readmit", d) BY <1>0, LaunchLearned
  <1>7. op[<<d, m>>].failure = "infra" BY <1>5, <1>6 DEF Learned
  <1>8. CASE thr' = [thr EXCEPT ![g][d].pc = "rejected"] /\ UNCHANGED writer
    <2> HIDE DEF A, k
    <2>a. PICK t : t = [thr[g][d] EXCEPT !.pc = "rejected"] OBVIOUS
    <2>1. t \in LaunchType /\ t.pc = "rejected" /\ t.n = m /\ t.first = thr[g][d].first
      <3>1. "rejected" \in LaunchSteps BY DEF LaunchSteps
      <3> QED BY <1>1, <1>5, <2>a, <3>1 DEF LaunchType
    <2>2. Moves(g, d, t) BY <1>8, <2>a DEF Moves
    <2> HIDE DEF Moves
    <2> QED BY <1>0, <1>4, <1>5, <1>8, <2>1, <2>2, Leaves
  <1>9. CASE /\ Hold(g, d, Claiming(<<d, n>>, g, k), "launch", "rejected")
             /\ thr' = [thr EXCEPT ![g][d] = [@ EXCEPT !.pc = "holding", !.n = n,
                                                      !.slot = k, !.seen = FALSE, !.err = "none"]]
    <2> HIDE DEF A, k
    <2>a. PICK t : t = [thr[g][d] EXCEPT !.pc = "holding", !.n = n, !.slot = k, !.seen = FALSE, !.err = "none"]
      OBVIOUS
    <2> DEFINE q == Claiming(<<d, n>>, g, k)
    <2>1. thr' = [thr EXCEPT ![g][d] = t] /\ Hold(g, d, q, "launch", "rejected") BY <1>9, <2>a
    <2>2. t \in LaunchType
      <3>1. Types' BY StepReadmit DEF Inv
      <3>2. thr'[g][d] \in LaunchType BY <3>1 DEF Types
      <3>3. thr'[g][d] = t BY <2>1 DEF Inv, Types
      <3> QED BY <3>2, <3>3
    <2>3. t.pc = "holding" /\ t.n = n /\ t.first = thr[g][d].first BY <1>1, <2>a DEF LaunchType
    <2>4. Moves(g, d, t) BY <2>1 DEF Moves
    <2>5. thr'[g][d].n = n BY <2>1, <2>3 DEF Inv, Types
    <2>6. /\ DOMAIN q = {1, 2} /\ q[1].type = "slot_claimed" /\ q[2].type = "claim_granted"
          /\ \A i \in {1, 2} : q[i].d = d /\ q[i].n = n /\ q[i].group = g
      BY DEF Claiming, Held
    <2> HIDE DEF q
    <2>7. d \in session'.barriers[g].required
      <3>1. LaunchOK(g, d) BY DEF Inv
      <3>2. d \in cmd[g].adm BY <1>0, <3>1 DEF LaunchOK
      <3>3. CommandSafe(g) BY DEF Admission
      <3> QED BY <1>0, <1>4, <3>2, <3>3 DEF CommandSafe
    <2>8. n = 2 \/ Spent(<<d, n>>)'
      <3>1. n # 2 => m = n BY <1>1, <1>3, <1>5
      <3> QED BY <1>4, <1>7, <3>1 DEF Spent, Proven
    <2>9. /\ writer'.by = g /\ writer'.of = d /\ writer'.todo = q /\ writer'.then = "launch"
      BY <2>1 DEF Hold
    <2>10. ASSUME NEW i \in DOMAIN q PROVE Promised(session, writer, i)'
      <3>1. q[i].type \in {"slot_claimed", "claim_granted"} /\ ActorOf(q[i]) = <<d, n>> /\ q[i].group = g
            /\ q[i].d = d /\ q[i].n = n
        BY <2>6 DEF ActorOf
      <3>2. Required(session, writer.todo, i)' BY <2>7, <2>9, <3>1 DEF Required
      <3> HIDE DEF Required, Spent, ActorOf
      <3> QED BY <2>8, <2>9, <3>1, <3>2 DEF Promised
    <2>11. Coming(session, writer, <<d, n>>)' BY <2>6, <2>9 DEF Coming, Pending
    <2>12. WriterSafe'
      <3> HIDE DEF Promised, Coming
      <3> QED BY <2>5, <2>9, <2>10, <2>11 DEF WriterSafe
    <2>13. WriterTurns(g, d, t) BY <1>0, <2>12 DEF WriterTurns
    <2>14. PICK w : w = "launch" OBVIOUS
    <2>15. w = IF t.pc = "holding" THEN writer'.then ELSE t.pc BY <2>3, <2>9, <2>14
    <2>16. Learned(t, w, d)'
      <3>1. t.first \in 1..2 /\ (m # t.first => op[<<d, t.first>>].failure = "infra")
        BY <1>5, <1>6, <2>3 DEF Learned
      <3>2. n # t.first => op'[<<d, t.first>>].failure = "infra" BY <1>4, <1>7, <3>1
      <3> QED BY <2>3, <2>14, <3>1, <3>2 DEF Learned
    <2>17. AllKept /\ SameBook /\ Births(g, d)
      <3>1. AllKept BY <1>4, KeptAll
      <3>2. SameBook BY <1>4, SessionSame
      <3> QED BY <1>4, <3>1, <3>2 DEF Births
    <2> HIDE DEF WriterTurns, Learned, Moves, AllKept, SameBook, Births, WriterSafe, Hold
    <2> QED BY <1>0, <1>4, <2>2, <2>4, <2>13, <2>15, <2>16, <2>17, LaunchAdvances
  <1> HIDE DEF A, k
  <1> QED BY <1>3, <1>8, <1>9 DEF Readmit, A, k

-----------------------------------------------------------------------------
(* The steps of a command. *)

\* The writer is nobody's, stays whose it is, or is taken from g.
WriterLeaves(g, c) ==
  \/ UNCHANGED writer
  \/ writer.by = 0
  \/ writer.by = g /\ c.pc # "run"

\* A group that g may take over.
Takes(g, b) == b \in Commands /\ b # g /\ Past(b) /\ Abandoned(session, b)

LEMMA CommandAdvances ==
  ASSUME Inv, Admission, AllKept, SameBook, NEW g \in Commands, NEW c \in CommandType, Comes(g, c),
         \A h \in Commands : h # g => thr'[h] = thr[h],
         c.pc = "run" => cmd[g].pc = "run" /\ c.adm = cmd[g].adm /\ thr'[g] = thr[g],
         WriterLeaves(g, c),
         \A a \in Actors : child[a].state = "none" => child'[a].state = "none",
         Past(g) => Past(g)', Fresh(g)' => Fresh(g),
         c.pc \in {"seize", "adopt"} => Takes(g, c.grp),
         WriterSafe'
  PROVE  Admission'
  <1>1. cmd'[g] = c /\ \A h \in Commands : h # g => cmd'[h] = cmd[h] BY ComesFacts
  <1>2. /\ \A h \in Commands, e \in Delegations :
             (h # g \/ c.pc = "run") /\ thr[h][e].pc = "holding" => writer'.then = writer.then
        /\ \A h \in Commands : h # g /\ cmd[h].pc = "holding" => writer'.then = writer.then
    <2>1. CASE UNCHANGED writer BY <2>1
    <2>2. CASE writer.by = 0 BY <2>2, NobodyHolds
    <2>3. CASE writer.by = g /\ c.pc # "run"
      <3>1. g # 0 BY DEF Commands
      <3> QED BY <2>3, <3>1, OthersDoNotHold
    <2> QED BY <2>1, <2>2, <2>3 DEF WriterLeaves
  <1>3. ASSUME NEW h \in Commands, NEW e \in Delegations PROVE LaunchSafe(h, e)'
    <2>1. CASE cmd'[h].pc # "run" BY <2>1 DEF LaunchSafe
    <2>2. CASE cmd'[h].pc = "run"
      <3>1. cmd[h].pc = "run" /\ thr'[h] = thr[h] /\ (h # g \/ c.pc = "run") BY <1>1, <2>2
      <3>2. thr[h][e].pc = "spawn" =>
              child'[<<e, thr[h][e].n>>].state = child[<<e, thr[h][e].n>>].state
        <4> SUFFICES ASSUME thr[h][e].pc = "spawn"
                     PROVE  child'[<<e, thr[h][e].n>>].state = child[<<e, thr[h][e].n>>].state
          OBVIOUS
        <4>1. Learned(thr[h][e], "spawn", e) BY <3>1, LaunchLearned
        <4>2. child[<<e, thr[h][e].n>>].state = "none" BY <4>1 DEF Learned
        <4>3. <<e, thr[h][e].n>> \in Actors BY LaunchKnows
        <4> QED BY <4>2, <4>3
      <3> QED BY <1>2, <3>1, <3>2, LaunchStays
    <2> QED BY <2>1, <2>2
  <1>4. \A h \in Commands : h # g => Alone(h) BY <1>1, <1>2 DEF Alone
  <1>5. \A h \in Commands : Past(h) => Past(h)'
    <2>1. ASSUME NEW h \in Commands, h # g PROVE Past(h) => Past(h)' BY <1>4, <2>1, AloneFacts
    <2> HIDE DEF Past
    <2> QED BY <2>1
  <1>6. CommandSafe(g)'
    <2>1. CommandSafe(g) BY DEF Admission
    <2>2. c.pc = "run" => c.adm \subseteq session'.barriers[g].required
      BY <2>1 DEF CommandSafe, SameBook
    <2>3. Fresh(g)' => Unbooked(session, g)'
      <3> HIDE DEF Fresh, Unbooked
      <3> QED BY <2>1, UnbookedStays DEF CommandSafe
    <2>4. c.pc \in {"seize", "adopt"} => c.grp \in Commands /\ c.grp # g BY DEF Takes
    <2>5. cmd'[g].pc \in {"seize", "adopt"} =>
            Past(cmd[g].grp)' /\ Abandoned(session, cmd[g].grp)'
      <3>1. PICK b : b = c.grp OBVIOUS
      <3>2. c.pc \in {"seize", "adopt"} => Past(b)' /\ Abandoned(session, b)'
        <4>1. Takes(g, b) => Past(b)' /\ Abandoned(session, b)'
          <5> HIDE DEF Past, Abandoned
          <5> QED BY <1>5, AbandonedStays DEF Takes
        <4> HIDE DEF Past, Abandoned, Takes
        <4> QED BY <3>1, <4>1
      <3>3. b = cmd'[g].grp BY <1>1, <3>1
      <3> QED BY <1>1, <3>2, <3>3 DEF Past, Abandoned, Spent
    <2> HIDE DEF Fresh, Past, Unbooked, Abandoned
    <2> QED BY <1>1, <2>2, <2>3, <2>4, <2>5 DEF CommandSafe
  <1>7. ASSUME NEW h \in Commands PROVE CommandSafe(h)'
    <2>1. CASE h = g BY <1>6, <2>1
    <2>2. CASE h # g
      <3> HIDE DEF Alone, Past
      <3> QED BY <1>4, <1>5, <2>2, CommandStays
    <2> QED BY <2>1, <2>2
  <1> HIDE DEF LaunchSafe, CommandSafe, WriterSafe
  <1> QED BY <1>3, <1>7, StepIsSafe

\* The writer of somebody else does not mind the step of a command.
LEMMA WriterOfOthers ==
  ASSUME Inv, Admission, AllKept, SameBook, UNCHANGED writer, NEW g \in Commands, NEW c \in CommandType,
         Comes(g, c), \A h \in Commands : h # g => thr'[h] = thr[h],
         cmd[g].pc # "holding", cmd[g].pc = "run" => writer.by = 0
  PROVE  WriterSafe'
  <1>1. \A h \in Commands : h # g => cmd'[h] = cmd[h] BY ComesFacts
  <1>2. writer.by # 0 /\ writer.then = "run" => writer.by \in Commands /\ writer.by # g
    BY AdmissionHolder
  <1>3. writer.by # 0 /\ writer.then = "launch" => writer.by \in Commands /\ writer.by # g
    BY AdmissionHolder
  <1> HIDE DEF AllKept, SameBook
  <1> QED BY <1>1, <1>2, <1>3, WriterStays

LEMMA CommandPasses ==
  ASSUME Inv, Admission, UNCHANGED <<session, writer>>, AllKept,
         \A a \in Actors : child[a].state = "none" => child'[a].state = "none",
         NEW g \in Commands, NEW c \in CommandType, Comes(g, c),
         \A h \in Commands : h # g => thr'[h] = thr[h],
         c.pc \notin {"holding", "run"}, cmd[g].pc # "holding", cmd[g].pc = "run" => writer.by = 0,
         cmd[g].pc \in {"run", "release", "done"} => c.pc \in {"release", "done"},
         cmd[g].pc \notin {"run", "release", "done"} => c.pc # "release",
         c.pc \in {"seize", "adopt"} => Takes(g, c.grp)
  PROVE  Admission'
  <1>1. SameBook BY SessionSame
  <1>2. WriterSafe'
    <2> HIDE DEF AllKept, SameBook, WriterSafe, Comes
    <2> QED BY <1>1, WriterOfOthers
  <1>3. cmd'[g] = c BY ComesFacts
  <1>4. (Past(g) => Past(g)') /\ (Fresh(g)' => Fresh(g)) BY <1>3 DEF Past, Fresh
  <1>5. WriterLeaves(g, c) BY DEF WriterLeaves
  <1> HIDE DEF AllKept, SameBook, WriterSafe, Comes, Past, Fresh, WriterLeaves, Takes
  <1> QED BY <1>1, <1>2, <1>4, <1>5, CommandAdvances

LEMMA SafeOver ==
  ASSUME Inv, Admission, UNCHANGED <<session, writer, op, child>>, NEW g \in Commands, Over(g),
         cmd[g].pc # "holding", cmd[g].pc = "run" => writer.by = 0
  PROVE  Admission'
  <1>1. PICK c \in CommandType : Comes(g, c) /\ c.pc = "done" BY OverFacts
  <1>2. \A h \in Commands : h # g => thr'[h] = thr[h] BY OverFacts, QuitsLaunches
  <1>3. AllKept BY KeptAll
  <1> HIDE DEF AllKept, Comes, Takes
  <1> QED BY <1>1, <1>2, <1>3, CommandPasses

\* A command goes on without a word to the session.
LEMMA CommandGotoSafe ==
  ASSUME Inv, Admission, UNCHANGED <<session, writer, child>>, AllKept, NEW g \in Commands,
         NEW to \in CommandSteps \ {"holding", "run", "release", "seize"}, Goto(g, 0, to),
         cmd[g].pc # "holding", cmd[g].pc = "run" => writer.by = 0,
         cmd[g].pc \in {"run", "release", "done"} => to = "done",
         to = "adopt" => cmd[g].pc = "seize"
  PROVE  Admission'
  <1>1. CASE to = "done"
    <2>1. Over(g) BY <1>1 DEF Goto
    <2>2. PICK c \in CommandType : Comes(g, c) /\ c.pc = "done" BY <2>1, OverFacts
    <2>3. \A h \in Commands : h # g => thr'[h] = thr[h] BY <2>1, OverFacts, QuitsLaunches
    <2> HIDE DEF AllKept, Comes, Takes
    <2> QED BY <2>2, <2>3, CommandPasses
  <1>2. CASE to # "done"
    <2>1. cmd' = [cmd EXCEPT ![g].pc = to] /\ UNCHANGED thr BY <1>2 DEF Goto
    <2>2. cmd[g] \in CommandType BY CommandKnows
    <2>3. PICK c : c = [cmd[g] EXCEPT !.pc = to] OBVIOUS
    <2>4. c \in CommandType /\ c.pc = to /\ c.grp = cmd[g].grp BY <2>2, <2>3 DEF CommandType
    <2>5. Comes(g, c) BY <2>1, <2>3 DEF Comes, Inv, Types
    <2>6. c.pc \in {"seize", "adopt"} => Takes(g, c.grp)
      <3>1. CommandSafe(g) BY DEF Admission
      <3> HIDE DEF Past, Abandoned
      <3> QED BY <2>4, <3>1 DEF CommandSafe, Takes
    <2> HIDE DEF AllKept, Comes, Takes
    <2> QED BY <1>2, <2>1, <2>4, <2>5, <2>6, CommandPasses
  <1> QED BY <1>1, <1>2

LEMMA CommandOnSafe ==
  ASSUME Inv, Admission, UNCHANGED <<session, writer, op, child>>, NEW g \in Commands,
         NEW to \in CommandSteps \ {"holding", "run", "release", "seize"}, Goto(g, 0, to),
         cmd[g].pc # "holding", cmd[g].pc = "run" => writer.by = 0,
         cmd[g].pc \in {"run", "release", "done"} => to = "done",
         to = "adopt" => cmd[g].pc = "seize"
  PROVE  Admission'
  <1>1. AllKept BY KeptAll
  <1> HIDE DEF AllKept, Goto
  <1> QED BY <1>1, CommandGotoSafe

\* A command takes the writer.
LEMMA CommandHoldSafe ==
  ASSUME Inv, Admission, UNCHANGED <<session, op, child>>, NEW g \in Commands, writer.by = 0,
         NEW events, NEW then \in {"run", "release", "done", "read", "reclaim", "yield"},
         cmd[g].pc \notin {"unused", "done", "holding", "release"},
         cmd[g].pc = "run" => then \in {"release", "done"},
         Hold(g, 0, events, then, "done"), cmd' = [cmd EXCEPT ![g].pc = "holding"],
         \A h \in Commands : h # g => thr'[h] = thr[h], WriterSafe'
  PROVE  Admission'
  <1>1. cmd[g] \in CommandType BY CommandKnows
  <1>2. PICK c : c = [cmd[g] EXCEPT !.pc = "holding"] OBVIOUS
  <1>3. c \in CommandType /\ c.pc = "holding"
    <2>1. "holding" \in CommandSteps BY DEF CommandSteps
    <2> QED BY <1>1, <1>2, <2>1 DEF CommandType
  <1>4. Comes(g, c) BY <1>2 DEF Comes, Inv, Types
  <1>5. cmd'[g] = c BY <1>3, <1>4, ComesFacts
  <1>6. writer'.then = then BY DEF Hold
  <1>7. (Past(g) => Past(g)') /\ (Fresh(g)' => Fresh(g)) BY <1>3, <1>5, <1>6 DEF Past, Fresh
  <1>8. WriterLeaves(g, c) BY DEF WriterLeaves
  <1>9. AllKept BY KeptAll
  <1>10. SameBook BY SessionSame
  <1> HIDE DEF AllKept, SameBook, WriterSafe, Comes, Past, Fresh, WriterLeaves, Takes, Hold
  <1> QED BY <1>3, <1>4, <1>7, <1>8, <1>9, <1>10, CommandAdvances

LEMMA HarmlessCommandHold ==
  ASSUME Inv, Admission, UNCHANGED <<session, op, child>>, NEW g \in Commands, writer.by = 0,
         NEW events \in Seq(Harmless), NEW then \in {"release", "done", "read", "reclaim", "yield"},
         cmd[g].pc \notin {"unused", "done", "holding", "release"},
         cmd[g].pc = "run" => then \in {"release", "done"},
         Hold(g, 0, events, then, "done"), Goto(g, 0, "holding")
  PROVE  Admission'
  <1>1. cmd' = [cmd EXCEPT ![g].pc = "holding"] /\ UNCHANGED thr BY DEF Goto
  <1>2. WriterSafe'
    <2> HIDE DEF Harmless, Hold, WriterSafe
    <2> QED BY HarmlessHold
  <1> HIDE DEF Harmless, Hold, WriterSafe
  <1> QED BY <1>1, <1>2, CommandHoldSafe

LEMMA PlainHarmless ==
  ASSUME NEW e \in Event, e.type \notin Promising PROVE <<e>> \in Seq(Harmless)
  <1>1. e \in Harmless BY DEF Harmless
  <1> HIDE DEF Harmless
  <1> QED BY <1>1

LEMMA SafeBegin ==
  ASSUME Inv, Admission, NEW g \in Commands, Begin(g)
  PROVE  Admission'
  <1>1. PICK d \in Delegations, pc \in {"read", "inspect"} : cmd' = [cmd EXCEPT ![g].pc = pc, ![g].sel = d]
    BY DEF Begin
  <1>2. UNCHANGED <<session, writer, op, child, thr>> /\ cmd[g].pc = "unused" BY DEF Begin
  <1>3. PICK c : c = [cmd[g] EXCEPT !.pc = pc, !.sel = d] OBVIOUS
  <1>4. cmd[g] \in CommandType BY CommandKnows
  <1>5. c \in CommandType /\ c.pc = pc
    <2>1. pc \in CommandSteps /\ d \in 0..NDelegations BY DEF CommandSteps, Delegations
    <2> QED BY <1>3, <1>4, <2>1 DEF CommandType
  <1>6. Comes(g, c) BY <1>1, <1>3 DEF Comes, Inv, Types
  <1>7. AllKept BY <1>2, KeptAll
  <1> HIDE DEF AllKept, Comes, Takes
  <1> QED BY <1>2, <1>5, <1>6, <1>7, CommandPasses

LEMMA SafeRead ==
  ASSUME Inv, Admission, NEW g \in Commands, Read(g)
  PROVE  Admission'
  <1> DEFINE adm == Admit({}, Ready(session))
  <1>1. /\ UNCHANGED <<session, writer, op, child>> /\ cmd[g].pc = "read"
        /\ \/ Over(g)
           \/ cmd' = [cmd EXCEPT ![g].pc = "fence", ![g].adm = adm] /\ UNCHANGED thr
    BY DEF Read
  <1>2. CASE Over(g) BY <1>1, <1>2, SafeOver
  <1>3. CASE cmd' = [cmd EXCEPT ![g].pc = "fence", ![g].adm = adm] /\ UNCHANGED thr
    <2>1. cmd[g] \in CommandType BY CommandKnows
    <2>2. adm \subseteq Delegations BY AdmitNone
    <2> HIDE DEF adm
    <2>3. PICK c : c = [cmd[g] EXCEPT !.pc = "fence", !.adm = adm] OBVIOUS
    <2>4. Comes(g, c) BY <1>3, <2>3 DEF Comes, Inv, Types
    <2>5. c \in CommandType /\ c.pc = "fence"
      <3>1. "fence" \in CommandSteps BY DEF CommandSteps
      <3> QED BY <2>1, <2>2, <2>3, <3>1 DEF CommandType
    <2>6. AllKept BY <1>1, KeptAll
    <2> HIDE DEF AllKept, Comes, Takes
    <2> QED BY <1>1, <1>3, <2>4, <2>5, <2>6, CommandPasses
  <1> HIDE DEF adm
  <1> QED BY <1>1, <1>2, <1>3

LEMMA SafeCommandGoes ==
  ASSUME Inv, Admission, NEW g \in Commands,
         Fence(g) \/ Acquire(g) \/ ReleaseLease(g) \/ Unlease(g) \/ Yield(g) \/ Again(g) \/ Seize(g)
  PROVE  Admission'
  <1>1. UNCHANGED <<session, writer, op, child>>
    BY DEF Fence, Acquire, ReleaseLease, Unlease, Yield, Again, Seize
  <1>2. cmd[g].pc \in {"fence", "acquire", "release", "unlease", "yield", "again", "seize"}
    BY DEF Fence, Acquire, ReleaseLease, Unlease, Yield, Again, Seize
  <1>3. PICK to \in {"acquire", "admit", "cancelled", "again", "prepare", "read", "adopt", "done"} :
          /\ Goto(g, 0, to)
          /\ cmd[g].pc = "release" => to = "done"
          /\ to = "adopt" => cmd[g].pc = "seize"
    <2> HIDE DEF Goto
    <2>1. CASE Fence(g) BY <2>1 DEF Fence
    <2>2. CASE Acquire(g) BY <2>2 DEF Acquire
    <2>3. CASE ReleaseLease(g) BY <2>3 DEF ReleaseLease
    <2>4. CASE Unlease(g) BY <2>4 DEF Unlease
    <2>5. CASE Yield(g) BY <2>5 DEF Yield
    <2>6. CASE Again(g) BY <2>6 DEF Again
    <2>7. CASE Seize(g) BY <2>7 DEF Seize
    <2> QED BY <2>1, <2>2, <2>3, <2>4, <2>5, <2>6, <2>7
  <1>4. to \in CommandSteps \ {"holding", "run", "release", "seize"} BY DEF CommandSteps
  <1> HIDE DEF Goto
  <1> QED BY <1>1, <1>2, <1>3, <1>4, CommandOnSafe

LEMMA CommandQuits ==
  ASSUME Inv, Admission, UNCHANGED <<session, writer, op, child>>, NEW g \in Commands,
         cmd[g].pc # "holding", cmd[g].pc = "run" => writer.by = 0, Goto(g, 0, "done")
  PROVE  Admission'
  <1>1. "done" \in CommandSteps \ {"holding", "run", "release", "seize"} BY DEF CommandSteps
  <1> HIDE DEF Goto
  <1> QED BY <1>1, CommandOnSafe

LEMMA SafeAppendPreEffectTerminal ==
  ASSUME Inv, Admission, NEW g \in Commands, AppendPreEffectTerminal(g)
  PROVE  Admission'
  <1>1. UNCHANGED <<session, op, child>> /\ cmd[g].pc = "cancelled" /\ writer.by = 0
    BY DEF AppendPreEffectTerminal, WriterFree
  <1>2. CASE Goto(g, 0, "done") /\ UNCHANGED writer BY <1>1, <1>2, CommandQuits
  <1>3. CASE /\ Hold(g, 0, <<OfAttempt("pre_effect_cancelled", <<cmd[g].sel, 0>>)>>, "done", "done")
             /\ Goto(g, 0, "holding")
    <2>1. PICK d \in Delegations : d = cmd[g].sel BY <1>1, CommandKnows DEF Knows
    <2>2. PICK n \in 0..2 : n = 0 OBVIOUS
    <2>3. PICK e : e = OfAttempt("pre_effect_cancelled", <<d, n>>) OBVIOUS
    <2>4. About(e, "pre_effect_cancelled", d, n) BY <2>3, AttemptMade
    <2>5. e \in Event /\ e.type = "pre_effect_cancelled" /\ e.n = 0 BY <2>2, <2>4 DEF About
    <2>6. <<e>> \in Seq(Harmless)
      <3>1. e \in Harmless BY <2>5 DEF Harmless
      <3> HIDE DEF Harmless
      <3> QED BY <3>1
    <2>7. Hold(g, 0, <<e>>, "done", "done") BY <1>3, <2>1, <2>2, <2>3
    <2> HIDE DEF Harmless, Hold, Goto
    <2> QED BY <1>1, <1>3, <2>6, <2>7, HarmlessCommandHold
  <1> QED BY <1>2, <1>3 DEF AppendPreEffectTerminal

LEMMA SafePrepareAgain ==
  ASSUME Inv, Admission, NEW g \in Commands, PrepareAgain(g)
  PROVE  Admission'
  <1>1. UNCHANGED <<session, op, child>> /\ cmd[g].pc = "prepare" /\ writer.by = 0
    BY DEF PrepareAgain, WriterFree
  <1>2. CASE Goto(g, 0, "done") /\ UNCHANGED writer BY <1>1, <1>2, CommandQuits
  <1>3. CASE Hold(g, 0, <<Of("prepared", cmd[g].sel)>>, "read", "done") /\ Goto(g, 0, "holding")
    <2>1. PICK d \in Delegations : d = cmd[g].sel BY <1>1, CommandKnows DEF Knows
    <2>2. PICK e : e = Of("prepared", d) OBVIOUS
    <2>3. e \in Event /\ e.type = "prepared" BY <2>2, OfMade
    <2>4. <<e>> \in Seq(Harmless) BY <2>3, PlainHarmless DEF Promising
    <2>5. Hold(g, 0, <<e>>, "read", "done") BY <1>3, <2>1, <2>2
    <2> HIDE DEF Harmless, Hold, Goto
    <2> QED BY <1>1, <1>3, <2>4, <2>5, HarmlessCommandHold
  <1> QED BY <1>2, <1>3 DEF PrepareAgain

LEMMA SafeInspect ==
  ASSUME Inv, Admission, NEW g \in Commands, Inspect(g)
  PROVE  Admission'
  <1> DEFINE a == LastActor(session, cmd[g].sel)
             r == [cmd[g] EXCEPT !.pc = "recover", !.n = a[2], !.grp = GroupOf(session, a)]
  <1>1. UNCHANGED <<session, op, child>> /\ cmd[g].pc = "inspect" /\ writer.by = 0
    BY DEF Inspect, WriterFree
  <1>2. CASE cmd' = [cmd EXCEPT ![g] = r] /\ UNCHANGED <<writer, thr>>
    <2>1. Types' BY StepInspect DEF Inv
    <2>2. PICK c : c = r OBVIOUS
    <2>3. Comes(g, c) BY <1>2, <2>2 DEF Comes
    <2>4. cmd'[g] = c BY <2>3 DEF Comes, Inv, Types
    <2>5. c \in CommandType BY <2>1, <2>4 DEF Types
    <2>6. cmd[g] \in CommandType BY CommandKnows
    <2>7. c.pc = "recover"
      <3> HIDE DEF a, GroupOf
      <3> QED BY <2>2, <2>6 DEF CommandType
    <2>8. AllKept BY <1>1, KeptAll
    <2> HIDE DEF AllKept, Comes, Takes, r
    <2> QED BY <1>1, <1>2, <2>3, <2>5, <2>7, <2>8, CommandPasses
  <1>3. CASE \E to \in {"takeover", "prepare", "read", "done"} : Goto(g, 0, to) /\ UNCHANGED writer
    <2>1. PICK to \in {"takeover", "prepare", "read", "done"} : Goto(g, 0, to) /\ UNCHANGED writer BY <1>3
    <2>2. to \in CommandSteps \ {"holding", "run", "release", "seize"} BY DEF CommandSteps
    <2> HIDE DEF Goto
    <2> QED BY <1>1, <2>1, <2>2, CommandOnSafe
  <1>4. CASE Hold(g, 0, <<Of("queued", cmd[g].sel)>>, "done", "done") /\ Goto(g, 0, "holding")
    <2>1. PICK d \in Delegations : d = cmd[g].sel BY <1>1, CommandKnows DEF Knows
    <2>2. PICK e : e = Of("queued", d) OBVIOUS
    <2>3. e \in Event /\ e.type = "queued" BY <2>2, OfMade
    <2>4. <<e>> \in Seq(Harmless) BY <2>3, PlainHarmless DEF Promising
    <2>5. Hold(g, 0, <<e>>, "done", "done") BY <1>4, <2>1, <2>2
    <2> HIDE DEF Harmless, Hold, Goto
    <2> QED BY <1>1, <1>4, <2>4, <2>5, HarmlessCommandHold
  <1> HIDE DEF Goto, Hold
  <1> QED BY <1>2, <1>3, <1>4 DEF Inspect

LEMMA OpenedHarmless ==
  ASSUME NEW b \in Commands, NEW k \in {"completed", "cancelled", "blocked"}
  PROVE  <<Opened(b, k)>> \in Seq(Harmless)
  <1>1. Opened(b, k) \in Event /\ Opened(b, k).type = "barrier_released"
    <2>1. Opened(b, k) \in Plain BY OpenedPlain
    <2>2. Opened(b, k) \in Event BY <2>1 DEF Plain
    <2> HIDE DEF Event
    <2> QED BY <2>2 DEF Opened
  <1> HIDE DEF Opened, Event
  <1> QED BY <1>1, PlainHarmless DEF Promising

LEMMA OpeningHarmless ==
  ASSUME NEW B, NEW kind, \A b \in Commands : kind[b] \in {"completed", "cancelled", "blocked"}
  PROVE  Opening(B, kind) \in Seq(Harmless)
  <1> DEFINE F == [b \in Commands |-> IF b \in B THEN <<Opened(b, kind[b])>> ELSE <<>>]
  <1>1. ASSUME NEW b \in Commands PROVE <<Opened(b, kind[b])>> \in Seq(Harmless)
    <2>1. PICK k : k = kind[b] OBVIOUS
    <2>2. <<Opened(b, k)>> \in Seq(Harmless) BY <2>1, OpenedHarmless
    <2> QED BY <2>1, <2>2
  <1>2. F \in [Commands -> Seq(Harmless)]
    <2>1. <<>> \in Seq(Harmless) OBVIOUS
    <2> HIDE DEF Harmless, Opened
    <2> QED BY <1>1, <2>1
  <1>3. Opening(B, kind) = Flatten(F) BY DEF Opening, Opened
  <1> HIDE DEF F, Harmless
  <1> QED BY <1>2, <1>3, LoopCommands

\* A child that gives its claims back when all launches have settled is spent.
LEMMA OverIsSpent ==
  ASSUME Inv, Admission, NEW g \in Commands, NEW d \in Delegations, cmd[g].pc = "run",
         thr[g][d].pc \in {"fulfilled", "rejected"}, thr[g][d].pc = "fulfilled" \/ CancelledPreStart(g, d),
         NEW n, n = thr[g][d].n
  PROVE  n \in 1..2 /\ Spent(<<d, n>>)
  <1>1. n \in 1..2 BY LaunchKnows
  <1>2. Learned(thr[g][d], thr[g][d].pc, d) BY LaunchLearned
  <1>3. CASE thr[g][d].pc = "fulfilled" BY <1>1, <1>2, <1>3 DEF Learned, Spent
  <1>4. CASE CancelledPreStart(g, d)
    <2>1. PICK m \in 1..2 : m = thr[g][d].first BY <1>2 DEF Learned
    <2>2. n # m => op[<<d, m>>].failure = "infra" BY <1>2, <2>1 DEF Learned
    <2>3. Has(session, d, m) /\ Clean(Attempt(session, d, m)) BY <1>4, <2>1 DEF CancelledPreStart, Clean
    <2>4. session \in SessionType /\ Len(session.attempts[d]) <= 2 BY AttemptsBound DEF Inv, Types
    <2>5. PICK i \in DOMAIN session.attempts[d] : i = At(session, d, m) /\ session.attempts[d][i].actor = m
      BY <2>3, <2>4, AtFacts
    <2>6. Clean(session.attempts[d][i]) BY <2>3, <2>5 DEF Attempt
    <2>7. op[<<d, m>>].failure = "cancelled"
      <3> HIDE DEF Clean
      <3> QED BY <2>5, <2>6 DEF Admission, CleanIsCancelled
    <2> QED BY <1>1, <2>2, <2>7 DEF Spent, Proven
  <1> QED BY <1>3, <1>4

LEMMA SafeFinish ==
  ASSUME Inv, Admission, NEW g \in Commands, Finish(g)
  PROVE  Admission'
  <1> DEFINE over == {d \in cmd[g].adm : thr[g][d].pc = "fulfilled" \/ CancelledPreStart(g, d)}
             kept == {d \in over : \A e \in over : thr[g][e].slot = 0 => d < e}
             F == [d \in Delegations |->
                     IF d \in kept THEN Releasing(<<d, thr[g][d].n>>, g) ELSE <<>>]
             open == /\ kept = over /\ ~Admitted(Project(session, Flatten(F)), g)
                     /\ \A d \in cmd[g].adm : session.status[d] \in Known
             last == IF open THEN <<Opened(g, BarrierKind(g))>> ELSE <<>>
             q == Flatten(F) \o last
             to == IF open THEN "release" ELSE "done"
  <1>1. /\ UNCHANGED <<session, op, child>>
        /\ cmd[g].pc = "run" /\ writer.by = 0
        /\ \A d \in cmd[g].adm : thr[g][d].pc \in {"fulfilled", "rejected"}
        /\ HoldOrGo(g, 0, q, to, "done")
    BY DEF Finish, WriterFree, Opened
  <1>2. cmd[g].adm \subseteq Delegations BY CommandKnows DEF CommandType
  <1>3. /\ kept \subseteq cmd[g].adm
        /\ \A d \in kept : thr[g][d].pc = "fulfilled" \/ CancelledPreStart(g, d)
    OBVIOUS
  <1> HIDE DEF kept, CancelledPreStart
  <1>4. ASSUME NEW d \in kept PROVE Releasing(<<d, thr[g][d].n>>, g) \in Seq(Harmless)
    <2>1. d \in Delegations /\ thr[g][d].pc \in {"fulfilled", "rejected"} BY <1>1, <1>2, <1>3
    <2>2. PICK n : n = thr[g][d].n OBVIOUS
    <2>3. n \in 1..2 /\ Spent(<<d, n>>) BY <1>1, <1>3, <2>1, <2>2, OverIsSpent
    <2>4. g \in 0..MaxCommands BY DEF Commands
    <2>5. Releasing(<<d, n>>, g) \in Seq(Harmless)
      <3> HIDE DEF Harmless, Spent, Releasing
      <3> QED BY <2>1, <2>3, <2>4, HarmlessHeld
    <2> QED BY <2>2, <2>5
  <1>5. F \in [Delegations -> Seq(Harmless)]
    <2>1. <<>> \in Seq(Harmless) OBVIOUS
    <2> HIDE DEF Harmless, Releasing
    <2> QED BY <1>4, <2>1
  <1>6. last \in Seq(Harmless)
    <2>1. PICK k \in {"completed", "cancelled", "blocked"} : k = BarrierKind(g) BY DEF BarrierKind
    <2>2. <<Opened(g, k)>> \in Seq(Harmless) BY OpenedHarmless
    <2>3. <<>> \in Seq(Harmless) OBVIOUS
    <2> HIDE DEF Harmless, Opened, open
    <2> QED BY <2>1, <2>2, <2>3
  <1>7. Flatten(F) \in Seq(Harmless)
    <2> HIDE DEF F, Harmless
    <2> QED BY <1>5, LoopDelegations
  <1>8. q \in Seq(Harmless) /\ (q = <<>> => last = <<>>)
    <2> HIDE DEF F, last, Harmless, Pending
    <2> QED BY <1>6, <1>7, PendingConcat
  <1>9. q = <<>> => to = "done"
    <2> HIDE DEF q, open, Opened
    <2> QED BY <1>8
  <1> HIDE DEF q, last, F, open
  <1>10. CASE q = <<>>
    <2>1. Goto(g, 0, "done") /\ UNCHANGED writer BY <1>1, <1>9, <1>10 DEF HoldOrGo
    <2> HIDE DEF Goto
    <2> QED BY <1>1, <2>1, CommandQuits
  <1>11. CASE q # <<>>
    <2>1. Hold(g, 0, q, to, "done") /\ Goto(g, 0, "holding") BY <1>1, <1>11 DEF HoldOrGo
    <2>2. to \in {"release", "done"} OBVIOUS
    <2> HIDE DEF to, Hold, Goto, Harmless
    <2> QED BY <1>1, <1>8, <2>1, <2>2, HarmlessCommandHold
  <1> QED BY <1>10, <1>11

LEMMA SafeRecoverLater ==
  ASSUME Inv, Admission, NEW g \in Commands, RecoverLater(g)
  PROVE  Admission'
  <1>0. UNCHANGED <<session, op, child>> /\ cmd[g].pc = "recover" /\ writer.by = 0
    BY DEF RecoverLater, WriterFree
  <1>1. cmd[g] \in CommandType /\ Knows(cmd[g]) BY CommandKnows
  <1>2. PICK d \in Delegations : d = cmd[g].sel BY <1>0, <1>1 DEF Knows
  <1>3. PICK n \in 1..2 : n = cmd[g].n BY <1>0, <1>1 DEF Knows
  <1>4. PICK x \in 0..MaxCommands : x = cmd[g].grp BY <1>1 DEF CommandType
  <1>5. CASE Goto(g, 0, "done") /\ UNCHANGED writer BY <1>0, <1>5, CommandQuits
  <1> DEFINE a == <<d, n>>
             pre == Recovering(session, a)
             given == IF ClaimsOf(session, a) # {} THEN <<Held("claim_released", a, x)>> ELSE <<>>
             freed == IF SlotsOf(session, a) # {} THEN <<Held("slot_released", a, x)>> ELSE <<>>
             s == Project(session, pre \o (given \o freed))
             kind == [b \in Commands |->
                        IF \A e \in s.barriers[b].required : s.status[e] = "cancelled"
                        THEN "cancelled" ELSE "blocked"]
             rest == Opening({b \in Suspended(s, d) : NothingLeft(s, b, x)}, kind)
             q == (pre \o (given \o freed)) \o rest
  <1>6. CASE Recoverable(session, a) /\ HoldOrGo(g, 0, q, "reclaim", "done")
    <2>1. pre \in Seq(Harmless) BY <1>6, RecoveringHarmless
    <2>2. Spent(a) BY <1>6 DEF Recoverable, Spent, Proven
    <2>3. given \in Seq(Harmless) /\ freed \in Seq(Harmless)
      <3>1. Held("claim_released", a, x) \in Harmless /\ Held("slot_released", a, x) \in Harmless
        <4> HIDE DEF Harmless, Spent
        <4> QED BY <2>2, HarmlessHeld
      <3> HIDE DEF Harmless, Held, ClaimsOf, SlotsOf
      <3> QED BY <3>1
    <2>4. rest \in Seq(Harmless)
      <3>1. \A b \in Commands : kind[b] \in {"completed", "cancelled", "blocked"} OBVIOUS
      <3> HIDE DEF kind, s, Harmless
      <3> QED BY <3>1, OpeningHarmless
    <2> HIDE DEF given, freed, rest, pre
    <2>5. given \o freed \in Seq(Harmless)
      <3> HIDE DEF Harmless
      <3> QED BY <2>3, ConcatFacts
    <2>6. pre \o (given \o freed) \in Seq(Harmless)
      <3> HIDE DEF Harmless
      <3> QED BY <2>1, <2>5, ConcatFacts
    <2>7. q \in Seq(Harmless)
      <3> HIDE DEF Harmless
      <3> QED BY <2>4, <2>6, ConcatFacts
    <2> HIDE DEF q
    <2>8. CASE q = <<>>
      <3>1. Goto(g, 0, "reclaim") /\ UNCHANGED writer BY <1>6, <2>8 DEF HoldOrGo
      <3>2. "reclaim" \in CommandSteps \ {"holding", "run", "release", "seize"} BY DEF CommandSteps
      <3> HIDE DEF Goto
      <3> QED BY <1>0, <3>1, <3>2, CommandOnSafe
    <2>9. CASE q # <<>>
      <3>1. Hold(g, 0, q, "reclaim", "done") /\ Goto(g, 0, "holding") BY <1>6, <2>9 DEF HoldOrGo
      <3> HIDE DEF Hold, Goto, Harmless
      <3> QED BY <1>0, <2>7, <3>1, HarmlessCommandHold
    <2> QED BY <2>8, <2>9
  <1>7. \/ Recoverable(session, a) /\ HoldOrGo(g, 0, q, "reclaim", "done")
        \/ Goto(g, 0, "done") /\ UNCHANGED writer
    <2> DEFINE kinds(t) == [b \in Commands |->
                              IF \A e \in t.barriers[b].required : t.status[e] = "cancelled"
                              THEN "cancelled" ELSE "blocked"]
               all(t) == (pre \o (given \o freed))
                         \o Opening({b \in Suspended(t, d) : NothingLeft(t, b, x)}, kinds(t))
    <2>1. \/ Recoverable(session, a) /\ \E t \in {s} : HoldOrGo(g, 0, all(t), "reclaim", "done")
          \/ Goto(g, 0, "done") /\ UNCHANGED writer
      BY <1>2, <1>3, <1>4, ZenonT(60) DEF RecoverLater
    <2>2. q = all(s) OBVIOUS
    <2> HIDE DEF q, s, all
    <2> QED BY <2>1, <2>2
  <1> QED BY <1>5, <1>6, <1>7

LEMMA SafeReclaim ==
  ASSUME Inv, Admission, NEW g \in Commands, Reclaim(g)
  PROVE  Admission'
  <1>0. /\ UNCHANGED <<session, writer, child, thr>>
        /\ cmd[g].pc = "reclaim" /\ op' = Reconciled(<<cmd[g].sel, cmd[g].n>>)
    BY DEF Reclaim
  <1>1. Knows(cmd[g]) BY CommandKnows
  <1>2. PICK d \in Delegations : d = cmd[g].sel BY <1>0, <1>1 DEF Knows
  <1>3. PICK n \in 1..2 : n = cmd[g].n BY <1>0, <1>1 DEF Knows
  <1>4. PICK a \in Actors : a = <<d, n>> BY DEF Actors
  <1>5. \/ op' = op
        \/ op[a].state = "pre_effect_terminal" /\ op' = [op EXCEPT ![a].state = "reconciled"]
    BY <1>0, <1>2, <1>3, <1>4 DEF Reconciled
  <1>6. AllKept
    <2>1. CASE op' = op BY <1>0, <2>1, KeptAll
    <2>2. CASE op[a].state = "pre_effect_terminal" /\ op' = [op EXCEPT ![a].state = "reconciled"]
      <3>1. Proven(op, a) BY <2>2 DEF Inv, OperationOK
      <3>2. op \in [Actors -> OpType] BY DEF Inv, Types
      <3>3. op'[a].failure = op[a].failure /\ \A b \in Actors : b # a => op'[b] = op[b]
        BY <2>2, <3>2 DEF OpType
      <3>4. Spent(a)' BY <3>1, <3>3 DEF Spent, Proven
      <3>5. Kept(a)
        <4> HIDE DEF Spent, Safe
        <4> QED BY <1>0, <3>3, <3>4 DEF Kept
      <3> HIDE DEF Kept
      <3> QED BY <1>0, <3>3, <3>5, KeptButOne
    <2> QED BY <1>5, <2>1, <2>2
  <1>7. PICK to \in {"unlease", "again"} : cmd' = [cmd EXCEPT ![g].pc = to] BY DEF Reclaim
  <1>8. Goto(g, 0, to) BY <1>0, <1>7 DEF Goto
  <1>9. to \in CommandSteps \ {"holding", "run", "release", "seize"} BY DEF CommandSteps
  <1> HIDE DEF Goto, AllKept
  <1> QED BY <1>0, <1>6, <1>8, <1>9, CommandGotoSafe

\* A group that is booked and whose children are all reconciled may be taken over.
LEMMA MayTake ==
  ASSUME Inv, Admission, writer.by = 0, NEW g \in Commands, NEW b \in Commands, Fresh(g),
         ~Unbooked(session, b),
         \A x \in session.slots : x.group = b => op[x.actor].state = "reconciled",
         \A x \in session.claims : x.group = b => op[x.actor].state = "reconciled"
  PROVE  Takes(g, b)
  <1>1. CommandSafe(g) /\ CommandSafe(b) BY DEF Admission
  <1>2. Unbooked(session, g) /\ ~Fresh(b)
    <2> HIDE DEF Fresh, Unbooked
    <2> QED BY <1>1 DEF CommandSafe
  <1>3. b # g
    <2> HIDE DEF Fresh, Unbooked
    <2> QED BY <1>2
  <1>4. cmd[b].pc # "holding" BY NobodyHolds
  <1>5. Past(b) BY <1>2, <1>4 DEF Fresh, Past
  <1>6. /\ \A x \in session.slots : x.actor \in Actors
        /\ \A x \in session.claims : x.actor \in Actors
    <2>1. /\ session.slots \subseteq [actor : Actors, group : Commands, slot : 1..2]
          /\ session.claims \subseteq [actor : Actors, group : Commands]
      BY DEF Inv, Types, SessionType
    <2> QED BY <2>1
  <1>7. Abandoned(session, b)
    <2>1. ReconciledIsSpent BY DEF Admission
    <2> HIDE DEF Spent
    <2> QED BY <1>6, <2>1 DEF Abandoned, ReconciledIsSpent
  <1> HIDE DEF Past, Abandoned
  <1> QED BY <1>3, <1>5, <1>7 DEF Takes

LEMMA SafeTakeover ==
  ASSUME Inv, Admission, NEW g \in Commands, Takeover(g)
  PROVE  Admission'
  <1>0. /\ UNCHANGED <<session, writer, op, child>>
        /\ cmd[g].pc = "takeover" /\ writer.by = 0
    BY DEF Takeover, WriterFree
  <1>1. cmd[g] \in CommandType /\ Knows(cmd[g]) BY CommandKnows
  <1>2. PICK d \in Delegations : d = cmd[g].sel BY <1>0, <1>1 DEF Knows
  <1>3. session.attempts[d] # <<>> BY <1>0, <1>1, <1>2 DEF Knows
  <1>4. PICK n \in 1..2 : /\ LastActor(session, d) = <<d, n>>
                          /\ session.claimed[d][n] \in Commands
                          /\ GroupOf(session, <<d, n>>) = session.claimed[d][n]
    BY <1>3, LastAttempt
  <1>6. CASE Over(g) BY <1>0, <1>6, SafeOver
  <1> DEFINE groups == {x.group : x \in SlotsOf(session, <<d, n>>) \cup ClaimsOf(session, <<d, n>>)}
             group == IF groups = {} THEN GroupOf(session, <<d, n>>) ELSE CHOOSE x \in groups : TRUE
             slots == {x.actor : x \in {y \in session.slots : y.group = group}}
             claims == {x.actor : x \in {y \in session.claims : y.group = group}}
  <1>7. group \in Commands /\ ~Unbooked(session, group)
    <2>1. /\ groups \subseteq Commands
          /\ \A x \in groups : (\E y \in session.slots : y.group = x) \/ (\E y \in session.claims : y.group = x)
      <3>1. /\ session.slots \subseteq [actor : Actors, group : Commands, slot : 1..2]
            /\ session.claims \subseteq [actor : Actors, group : Commands]
        BY DEF Inv, Types, SessionType
      <3> QED BY <3>1 DEF SlotsOf, ClaimsOf
    <2> HIDE DEF groups
    <2>2. CASE groups = {}
      <3>1. group = session.claimed[d][n] BY <1>4, <2>2
      <3> QED BY <1>4, <3>1 DEF Unbooked
    <2>3. CASE groups # {}
      <3>1. group \in groups BY <2>3
      <3> HIDE DEF group
      <3> QED BY <2>1, <3>1 DEF Unbooked
    <2> QED BY <2>2, <2>3
  <1> HIDE DEF group
  <1>8. CASE /\ slots = claims /\ \A x \in slots : Absorbed(session, x)
             /\ cmd' = [cmd EXCEPT ![g].pc = "seize", ![g].grp = group, ![g].from = session.nonce[group]]
             /\ UNCHANGED thr
    <2>1. PICK f \in 0..MaxCommands : f = session.nonce[group] BY <1>7 DEF Inv, Types, SessionType
    <2>2. PICK b \in Commands : b = group BY <1>7
    <2>3. PICK c : c = [cmd[g] EXCEPT !.pc = "seize", !.grp = b, !.from = f] OBVIOUS
    <2>4. Comes(g, c) BY <1>8, <2>1, <2>2, <2>3 DEF Comes, Inv, Types
    <2>5. c \in CommandType /\ c.pc = "seize" /\ c.grp = b
      <3>1. "seize" \in CommandSteps /\ b \in 0..MaxCommands BY DEF CommandSteps, Commands
      <3> QED BY <1>1, <2>3, <3>1 DEF CommandType
    <2>6. Fresh(g) BY <1>0 DEF Fresh
    <2>7. /\ \A x \in session.slots : x.group = b => op[x.actor].state = "reconciled"
          /\ \A x \in session.claims : x.group = b => op[x.actor].state = "reconciled"
      <3>1. \A x \in slots : op[x].state = "reconciled" BY <1>8 DEF Absorbed
      <3>2. \A x \in session.slots : x.group = b => x.actor \in slots BY <2>2
      <3>3. \A x \in session.claims : x.group = b => x.actor \in claims BY <2>2
      <3> HIDE DEF slots, claims
      <3> QED BY <1>8, <3>1, <3>2, <3>3
    <2>8. Takes(g, b)
      <3> HIDE DEF Takes, Fresh, Unbooked
      <3> QED BY <1>0, <1>7, <2>2, <2>6, <2>7, MayTake
    <2>9. AllKept BY <1>0, KeptAll
    <2> HIDE DEF AllKept, Comes, Takes, slots, claims
    <2> QED BY <1>0, <1>8, <2>4, <2>5, <2>8, <2>9, CommandPasses
  <1>9. \/ Over(g)
        \/ /\ slots = claims /\ \A x \in slots : Absorbed(session, x)
           /\ cmd' = [cmd EXCEPT ![g].pc = "seize", ![g].grp = group, ![g].from = session.nonce[group]]
           /\ UNCHANGED thr
    BY <1>2, <1>4, ZenonT(60) DEF Takeover, group
  <1> QED BY <1>6, <1>8, <1>9

\* The events that the takeover of b may append once the takeover is recorded.
Adopting(b) ==
  {e \in Event :
    \/ e.type \notin Promising
    \/ e.type = "takeover" /\ e.to # e.group
    \/ e.type \in {"slot_released", "claim_released"} /\ e.group = b /\ (Spent(ActorOf(e)) \/ e.n = 2)}

LEMMA AdoptingHold ==
  ASSUME NEW g, NEW b, NEW events \in Seq(Adopting(b)),
         Hold(g, 0, events, "yield", "done"), UNCHANGED <<op, child>>,
         events[1].type = "takeover", events[1].group = b
  PROVE  WriterSafe'
  <1>0. "yield" \notin {"run", "launch"} OBVIOUS
  <1>1. ASSUME NEW i \in DOMAIN events
        PROVE  Promised(session, [by |-> g, of |-> 0, todo |-> events, then |-> "yield", refused |-> "done"], i)'
    <2>1. PICK w : w = [by |-> g, of |-> 0, todo |-> events, then |-> "yield", refused |-> "done"] OBVIOUS
    <2>2. w.todo = events /\ w.then = "yield" BY <2>1
    <2>3. events[i] \in Adopting(b)
      <3> HIDE DEF Adopting
      <3> QED BY <1>1
    <2>4. \A a : Spent(a) => Spent(a)' BY DEF Spent, Proven
    <2>5. Promised(session, w, i)'
      <3> HIDE DEF Spent, ActorOf
      <3> QED BY <2>2, <2>3, <2>4 DEF Promised, Adopting, Promising
    <2> HIDE DEF Promised
    <2> QED BY <2>1, <2>5
  <1> HIDE DEF Promised, WriterSafe, Hold, Adopting
  <1> QED BY <1>0, <1>1, HoldIsSafe

LEMMA AdoptingHeld ==
  ASSUME NEW d \in Delegations, NEW n \in 1..2, NEW b \in 0..MaxCommands, n = 1 => Spent(<<d, n>>),
         NEW type \in {"claim_released", "slot_released"}
  PROVE  Held(type, <<d, n>>, b) \in Adopting(b)
  <1> DEFINE e == Held(type, <<d, n>>, b)
  <1>1. Frees(e, type, d, n, b) BY HeldFields
  <1> HIDE DEF e, ActorOf, Spent
  <1>2. n = 1 \/ n = 2 OBVIOUS
  <1>3. e \in Adopting(b) BY <1>1, <1>2 DEF Adopting, Frees
  <1> QED BY <1>3 DEF e

LEMMA AdoptGives ==
  ASSUME NEW S, \A y \in S : y.actor \in Actors, NEW x \in 0..MaxCommands,
         \A y \in S : y.group = x /\ y.actor[2] = 1 => Spent(y.actor),
         NEW type \in {"claim_released", "slot_released"}
  PROVE  Flatten([d \in Delegations |->
                    IF {y \in S : y.actor[1] = d /\ y.group = x} # {}
                    THEN <<Held(type, (CHOOSE y \in {z \in S : z.actor[1] = d /\ z.group = x} : TRUE).actor, x)>>
                    ELSE <<>>]) \in Seq(Adopting(x))
  <1> DEFINE M(d) == {y \in S : y.actor[1] = d /\ y.group = x}
             F == [d \in Delegations |->
                    IF M(d) # {} THEN <<Held(type, (CHOOSE y \in M(d) : TRUE).actor, x)>> ELSE <<>>]
  <1>1. ASSUME NEW d \in Delegations, M(d) # {}
        PROVE  <<Held(type, (CHOOSE y \in M(d) : TRUE).actor, x)>> \in Seq(Adopting(x))
    <2>1. PICK a \in Actors : a = (CHOOSE y \in M(d) : TRUE).actor /\ (a[2] = 1 => Spent(a))
      <3>1. (CHOOSE y \in M(d) : TRUE) \in M(d)
        <4> HIDE DEF M
        <4> QED BY <1>1
      <3>2. PICK z : z = (CHOOSE y \in M(d) : TRUE) OBVIOUS
      <3>3. z \in S /\ z.group = x BY <3>1, <3>2
      <3> HIDE DEF M, Spent
      <3> QED BY <3>2, <3>3
    <2>2. PICK e \in Delegations, n \in 1..2 : a = <<e, n>> BY DEF Actors
    <2>3. Held(type, <<e, n>>, x) \in Adopting(x)
      <3> HIDE DEF Adopting, Held, Spent
      <3>1. a[2] = n BY <2>2
      <3>2. n = 1 => Spent(<<e, n>>) BY <2>1, <2>2, <3>1
      <3> QED BY <3>2, AdoptingHeld
    <2>4. <<Held(type, a, x)>> \in Seq(Adopting(x))
      <3> HIDE DEF Adopting, Held
      <3> QED BY <2>2, <2>3
    <2> HIDE DEF Adopting, Held, M
    <2> QED BY <2>1, <2>4
  <1>2. <<>> \in Seq(Adopting(x)) OBVIOUS
  <1>3. F \in [Delegations -> Seq(Adopting(x))]
    <2> HIDE DEF Adopting, Held, M
    <2> QED BY <1>1, <1>2
  <1>4. Flatten(F) \in Seq(Adopting(x))
    <2> HIDE DEF F, Adopting
    <2> QED BY <1>3, LoopDelegations
  <1> QED BY <1>4

LEMMA AdoptOpens ==
  ASSUME NEW B, NEW x, NEW kind, \A b \in Commands : kind[b] \in {"completed", "cancelled", "blocked"}
  PROVE  Opening(B, kind) \in Seq(Adopting(x))
  <1> DEFINE F == [b \in Commands |-> IF b \in B THEN <<Opened(b, kind[b])>> ELSE <<>>]
  <1>1. ASSUME NEW b \in Commands PROVE <<Opened(b, kind[b])>> \in Seq(Adopting(x))
    <2>1. PICK k \in {"completed", "cancelled", "blocked"} : k = kind[b] OBVIOUS
    <2>2. Opened(b, k) \in Event /\ Opened(b, k).type = "barrier_released"
      <3>1. Opened(b, k) \in Plain BY OpenedPlain
      <3>2. Opened(b, k) \in Event BY <3>1 DEF Plain
      <3> HIDE DEF Event
      <3> QED BY <3>2 DEF Opened
    <2>3. Opened(b, k) \in Adopting(x)
      <3> HIDE DEF Opened, Event
      <3> QED BY <2>2 DEF Adopting, Promising
    <2> HIDE DEF Opened, Adopting
    <2> QED BY <2>1, <2>3
  <1>2. F \in [Commands -> Seq(Adopting(x))]
    <2>1. <<>> \in Seq(Adopting(x)) OBVIOUS
    <2> HIDE DEF Adopting, Opened
    <2> QED BY <1>1, <2>1
  <1>3. Opening(B, kind) = Flatten(F) BY DEF Opening, Opened
  <1> HIDE DEF F, Adopting
  <1> QED BY <1>2, <1>3, LoopCommands

LEMMA SafeAdopt ==
  ASSUME Inv, Admission, NEW g \in Commands, Adopt(g)
  PROVE  Admission'
  <1>0. /\ UNCHANGED <<session, op, child>>
        /\ cmd[g].pc = "adopt" /\ writer.by = 0
    BY DEF Adopt, WriterFree
  <1>1. cmd[g] \in CommandType /\ Knows(cmd[g]) BY CommandKnows
  <1>2. PICK x \in Commands : x = cmd[g].grp BY <1>0, <1>1 DEF Knows
  <1>3. PICK f \in 0..MaxCommands : f = cmd[g].from BY <1>1 DEF CommandType
  <1>4. x # g /\ Abandoned(session, x)
    <2>1. CommandSafe(g) BY DEF Admission
    <2> HIDE DEF Abandoned
    <2> QED BY <1>0, <1>2, <2>1 DEF CommandSafe
  <1>5. CASE Goto(g, 0, "done") /\ UNCHANGED writer BY <1>0, <1>5, CommandQuits
  <1> DEFINE e == [type |-> "takeover", group |-> x, from |-> f, to |-> g]
             given == Flatten([d \in Delegations |->
                        IF {y \in session.claims : y.actor[1] = d /\ y.group = x} # {}
                        THEN <<Held("claim_released",
                               (CHOOSE y \in {z \in session.claims : z.actor[1] = d /\ z.group = x} : TRUE).actor, x)>>
                        ELSE <<>>])
             freed == Flatten([d \in Delegations |->
                        IF {y \in session.slots : y.actor[1] = d /\ y.group = x} # {}
                        THEN <<Held("slot_released",
                               (CHOOSE y \in {z \in session.slots : z.actor[1] = d /\ z.group = x} : TRUE).actor, x)>>
                        ELSE <<>>])
             over == {b \in Commands : /\ session.barriers[b].status = "suspended"
                                       /\ \A d \in session.barriers[b].required :
                                            session.status[d] \in KnownTerminal}
             kind == [b \in Commands |->
                        IF \A d \in session.barriers[b].required : session.status[d] = "accepted"
                        THEN "completed" ELSE "blocked"]
             rest == Opening(over, kind)
             q == ((<<e>> \o given) \o freed) \o rest
  <1>6. CASE Hold(g, 0, q, "yield", "done") /\ Goto(g, 0, "holding")
    <2>1. e \in Adopting(x) /\ e.type = "takeover" /\ e.group = x
      <3>1. e \in TakeoverEvent /\ e.type = "takeover" /\ e.group = x /\ e.to = g BY DEF TakeoverEvent
      <3>2. \A y \in TakeoverEvent : y \in Event BY DEF Event
      <3> HIDE DEF TakeoverEvent, Event, e
      <3> QED BY <1>4, <3>1, <3>2 DEF Adopting
    <2> HIDE DEF e
    <2>2. <<e>> \in Seq(Adopting(x)) /\ Len(<<e>>) = 1 /\ <<e>>[1] = e
      <3> HIDE DEF Adopting
      <3> QED BY <2>1
    <2>3. /\ \A y \in session.claims : y.actor \in Actors
          /\ \A y \in session.slots : y.actor \in Actors
      <3>1. /\ session.slots \subseteq [actor : Actors, group : Commands, slot : 1..2]
            /\ session.claims \subseteq [actor : Actors, group : Commands]
        BY DEF Inv, Types, SessionType
      <3> QED BY <3>1
    <2>4. x \in 0..MaxCommands BY DEF Commands
    <2>4a. /\ \A y \in session.slots : y.group = x /\ y.actor[2] = 1 => Spent(y.actor)
           /\ \A y \in session.claims : y.group = x /\ y.actor[2] = 1 => Spent(y.actor)
      <3> HIDE DEF Spent
      <3> QED BY <1>4 DEF Abandoned
    <2> HIDE DEF Spent, Adopting
    <2>5. given \in Seq(Adopting(x)) BY <2>3, <2>4, <2>4a, AdoptGives, ZenonT(60)
    <2>6. freed \in Seq(Adopting(x)) BY <2>3, <2>4, <2>4a, AdoptGives, ZenonT(60)
    <2>7. rest \in Seq(Adopting(x))
      <3>1. \A b \in Commands : kind[b] \in {"completed", "cancelled", "blocked"} OBVIOUS
      <3> HIDE DEF kind, over
      <3> QED BY <3>1, AdoptOpens
    <2> HIDE DEF given, freed, rest
    <2> DEFINE p1 == <<e>> \o given
               p2 == p1 \o freed
    <2>8. p1 \in Seq(Adopting(x)) /\ Len(p1) >= 1 /\ p1[1] = e
      <3>1. /\ p1 \in Seq(Adopting(x)) /\ Len(given) \in Nat /\ Len(p1) = Len(<<e>>) + Len(given)
            /\ \A k \in 1 .. Len(<<e>>) : p1[k] = <<e>>[k]
        BY <2>2, <2>5, ConcatFacts
      <3> QED BY <2>2, <3>1
    <2> HIDE DEF p1
    <2>9. p2 \in Seq(Adopting(x)) /\ Len(p2) >= 1 /\ p2[1] = e
      <3>1. /\ p2 \in Seq(Adopting(x)) /\ Len(p1) \in Nat /\ Len(freed) \in Nat /\ Len(p2) = Len(p1) + Len(freed)
            /\ \A k \in 1 .. Len(p1) : p2[k] = p1[k]
        BY <2>6, <2>8, ConcatFacts
      <3> QED BY <2>8, <3>1
    <2> HIDE DEF p2
    <2>10. p2 \o rest \in Seq(Adopting(x)) /\ (p2 \o rest)[1] = e
      <3>1. /\ p2 \o rest \in Seq(Adopting(x)) /\ Len(p2) \in Nat
            /\ \A k \in 1 .. Len(p2) : (p2 \o rest)[k] = p2[k]
        BY <2>7, <2>9, ConcatFacts
      <3> QED BY <2>9, <3>1
    <2>11. q \in Seq(Adopting(x)) /\ q[1].type = "takeover" /\ q[1].group = x
      BY <2>1, <2>10 DEF p1, p2
    <2> HIDE DEF q
    <2>12. cmd' = [cmd EXCEPT ![g].pc = "holding"] /\ UNCHANGED thr BY <1>6 DEF Goto
    <2>13. WriterSafe'
      <3> HIDE DEF WriterSafe, Hold
      <3> QED BY <1>0, <1>6, <2>11, AdoptingHold
    <2> HIDE DEF WriterSafe, Hold
    <2> QED BY <1>0, <1>6, <2>12, <2>13, CommandHoldSafe
  <1>7. \/ Goto(g, 0, "done") /\ UNCHANGED writer
        \/ Hold(g, 0, q, "yield", "done") /\ Goto(g, 0, "holding")
    BY <1>2, <1>3 DEF Adopt
  <1> QED BY <1>5, <1>6, <1>7

\* The events that admit a delegation of R to the group g.
Grants(g, R) == {e \in Event : e.type \in {"slot_claimed", "claim_granted"} /\ e.group = g /\ e.d \in R}

\* The two events that admit the attempt <<d, n>>.
Pair(q, g, d, n) ==
  /\ Len(q) = 2 /\ q[1].type = "slot_claimed" /\ q[2].type = "claim_granted"
  /\ q[1].d = d /\ q[1].n = n /\ q[2].d = d /\ q[2].n = n

LEMMA ClaimingGrants ==
  ASSUME NEW g \in Commands, NEW R, NEW d \in Delegations, d \in R, NEW n \in 1..2, NEW k \in 1..2
  PROVE  /\ Claiming(<<d, n>>, g, k) \in Seq(Grants(g, R))
         /\ Pair(Claiming(<<d, n>>, g, k), g, d, n)
  <1> DEFINE e == SlotOf(d, n, g, k)
             f == Held("claim_granted", <<d, n>>, g)
  <1>1. e \in Event /\ e.type = "slot_claimed" BY SlotMade
  <1>2. f \in Event /\ f.type = "claim_granted" BY GrantMade
  <1>3. /\ e.d = d /\ e.n = n /\ e.group = g
        /\ f.d = d /\ f.n = n /\ f.group = g
    BY DEF SlotOf, Held
  <1>4. Claiming(<<d, n>>, g, k) = <<e, f>> BY DEF Claiming, SlotOf
  <1> HIDE DEF e, f, Event
  <1>5. e \in Grants(g, R) /\ f \in Grants(g, R) BY <1>1, <1>2, <1>3 DEF Grants
  <1>6. <<e, f>> \in Seq(Grants(g, R))
    <2> HIDE DEF Grants
    <2> QED BY <1>5
  <1>7. Pair(<<e, f>>, g, d, n) BY <1>1, <1>2, <1>3 DEF Pair
  <1> QED BY <1>4, <1>6, <1>7

LEMMA AdmittingGrants ==
  ASSUME NEW g \in Commands, NEW R \in SUBSET Delegations, Cardinality(R) <= 2,
         \A d \in R : session.envelopes[d] \in 1..2
  PROVE  /\ Admitting(g, R) \in Seq(Grants(g, R))
         /\ \A d \in R : /\ Pending(Admitting(g, R), "slot_claimed", <<d, session.envelopes[d]>>)
                         /\ Pending(Admitting(g, R), "claim_granted", <<d, session.envelopes[d]>>)
  <1> DEFINE F == [d \in Delegations |->
                     IF d \in R THEN Claiming(<<d, session.envelopes[d]>>, g, SlotNumber(R, d)) ELSE <<>>]
             q == Flatten(F)
  <1>1. ASSUME NEW d \in R
        PROVE  /\ Claiming(<<d, session.envelopes[d]>>, g, SlotNumber(R, d)) \in Seq(Grants(g, R))
               /\ Pair(Claiming(<<d, session.envelopes[d]>>, g, SlotNumber(R, d)), g, d, session.envelopes[d])
    <2>1. PICK k \in 1..2 : k = SlotNumber(R, d) BY SlotNumberBound
    <2>2. PICK n \in 1..2 : n = session.envelopes[d] OBVIOUS
    <2>3. d \in Delegations OBVIOUS
    <2>4. /\ Claiming(<<d, n>>, g, k) \in Seq(Grants(g, R))
          /\ Pair(Claiming(<<d, n>>, g, k), g, d, n)
      BY <2>3, ClaimingGrants
    <2> HIDE DEF Grants, Claiming, Pair
    <2> QED BY <2>1, <2>2, <2>4
  <1>2. <<>> \in Seq(Grants(g, R)) OBVIOUS
  <1>3. F \in [Delegations -> Seq(Grants(g, R))]
    <2> HIDE DEF Grants, Claiming, Pair
    <2> QED BY <1>1, <1>2
  <1>4. \A d \in R : F[d] = Claiming(<<d, session.envelopes[d]>>, g, SlotNumber(R, d)) OBVIOUS
  <1>4a. \A d \in R : Pair(F[d], g, d, session.envelopes[d])
    <2> HIDE DEF F, Pair, Claiming
    <2> QED BY <1>1, <1>4
  <1> HIDE DEF F, Grants, Claiming
  <1>5. /\ q \in Seq(Grants(g, R))
        /\ \A d \in Delegations : \A j \in 1 .. Len(F[d]) :
              \E k \in 1 .. Len(q) : q[k] = F[d][j]
    BY <1>3, LoopDelegations
  <1> HIDE DEF q
  <1>6. ASSUME NEW d \in R
        PROVE  /\ Pending(q, "slot_claimed", <<d, session.envelopes[d]>>)
               /\ Pending(q, "claim_granted", <<d, session.envelopes[d]>>)
    <2>0. PICK n, r : n = session.envelopes[d] /\ r = F[d] OBVIOUS
    <2>1. Pair(r, g, d, n) BY <1>4a, <2>0
    <2>2. /\ 1 \in 1 .. Len(r) /\ 2 \in 1 .. Len(r) BY <2>1 DEF Pair
    <2>3. PICK k \in 1 .. Len(q) : q[k] = r[1] BY <1>5, <2>0, <2>2
    <2>4. PICK m \in 1 .. Len(q) : q[m] = r[2] BY <1>5, <2>0, <2>2
    <2>5. k \in DOMAIN q /\ m \in DOMAIN q BY <1>5
    <2>6. Pending(q, "slot_claimed", <<d, n>>) /\ Pending(q, "claim_granted", <<d, n>>)
      BY <2>1, <2>3, <2>4, <2>5 DEF Pending, Pair
    <2> HIDE DEF Pending
    <2> QED BY <2>0, <2>6
  <1>7. Admitting(g, R) = q BY DEF Admitting, q, F
  <1> HIDE DEF Pending
  <1> QED BY <1>5, <1>6, <1>7

\* The whole admission: the barrier first, then what it waits for.
LEMMA GroupHold ==
  ASSUME NEW g \in Commands, NEW R \in SUBSET Delegations, Cardinality(R) <= 2,
         \A d \in R : session.envelopes[d] \in 1..2, UNCHANGED session,
         Hold(g, 0, Opens(g, R) \o Admitting(g, R), "run", "done"),
         cmd'[g].adm = R, \A d \in R : thr'[g][d].n = session.envelopes[d],
         \A d \in Delegations : thr'[g][d].pc # "idle" =>
           thr'[g][d].pc = "launch" /\ thr'[g][d].first = thr'[g][d].n
  PROVE  WriterSafe'
  <1>1. PICK q : q = Opens(g, R) \o Admitting(g, R) OBVIOUS
  <1>2. /\ Admitting(g, R) \in Seq(Grants(g, R))
        /\ \A d \in R : /\ Pending(Admitting(g, R), "slot_claimed", <<d, session.envelopes[d]>>)
                        /\ Pending(Admitting(g, R), "claim_granted", <<d, session.envelopes[d]>>)
    BY AdmittingGrants
  <1>3. Admitting(g, R) \in Seq(Event)
    <2>1. \A e \in Grants(g, R) : e \in Event
      <3> HIDE DEF Event
      <3> QED BY DEF Grants
    <2> HIDE DEF Grants, Event
    <2> QED BY <1>2, <2>1
  <1>4. Opens(g, R) \in Seq(Event) /\ Len(Opens(g, R)) = 3
    <2>1. Opens(g, R) \in Seq(Plain) BY OpensPlain
    <2>2. \A e \in Plain : e \in Event
      <3> HIDE DEF Event
      <3> QED BY DEF Plain
    <2>3. Opens(g, R) \in Seq(Event)
      <3> HIDE DEF Plain, Event, Opens
      <3> QED BY <2>1, <2>2
    <2> QED BY <2>3 DEF Opens
  <1>5. /\ Opens(g, R)[1].type = "lease_acquired" /\ Opens(g, R)[3].type = "barrier_suspended"
        /\ Opens(g, R)[2].type = "barrier_requested" /\ Opens(g, R)[2].group = g /\ Opens(g, R)[2].required = R
    BY DEF Opens
  <1>6. \A d \in R : /\ Pending(q, "slot_claimed", <<d, session.envelopes[d]>>)
                     /\ Pending(q, "claim_granted", <<d, session.envelopes[d]>>)
    <2> HIDE DEF Pending, Event, Opens
    <2> QED BY <1>1, <1>2, <1>3, <1>4, PendingConcat
  <1>7. /\ q \in Seq(Event) /\ Len(Admitting(g, R)) \in Nat /\ Len(q) = 3 + Len(Admitting(g, R))
        /\ \A k \in 1 .. 3 : q[k] = Opens(g, R)[k]
        /\ \A k \in 1 .. Len(Admitting(g, R)) : q[3 + k] = Admitting(g, R)[k]
    <2>1. PICK o, r : o = Opens(g, R) /\ r = Admitting(g, R) OBVIOUS
    <2>2. o \in Seq(Event) /\ r \in Seq(Event) /\ Len(o) = 3 /\ q = o \o r BY <1>1, <1>3, <1>4, <2>1
    <2> HIDE DEF Event, Opens
    <2>3. /\ o \o r \in Seq(Event) /\ Len(r) \in Nat /\ Len(o \o r) = Len(o) + Len(r)
          /\ \A k \in 1 .. Len(o) : (o \o r)[k] = o[k]
          /\ \A k \in 1 .. Len(r) : (o \o r)[Len(o) + k] = r[k]
      <3>1. PICK E : E = Event OBVIOUS
      <3>2. o \in Seq(E) /\ r \in Seq(E) BY <2>2, <3>1
      <3>3. /\ o \o r \in Seq(E) /\ Len(r) \in Nat /\ Len(o \o r) = Len(o) + Len(r)
            /\ \A k \in 1 .. Len(o) : (o \o r)[k] = o[k]
            /\ \A k \in 1 .. Len(r) : (o \o r)[Len(o) + k] = r[k]
        <4> HIDE DEF Admitting, Hold
        <4> QED BY <3>2, ConcatFacts
      <3> QED BY <3>1, <3>3
    <2>4. /\ q \in Seq(Event) /\ Len(r) \in Nat /\ Len(q) = 3 + Len(r)
          /\ \A k \in 1 .. 3 : q[k] = o[k]
          /\ \A k \in 1 .. Len(r) : q[3 + k] = r[k]
      BY <2>2, <2>3
    <2> QED BY <2>1, <2>4
  <1>8. \A k \in 1 .. Len(Admitting(g, R)) : Admitting(g, R)[k] \in Grants(g, R)
    <2> HIDE DEF Grants
    <2> QED BY <1>2
  <1>9. ASSUME NEW i \in 4 .. Len(q) PROVE q[i] \in Grants(g, R)
    <2>1. i - 3 \in 1 .. Len(Admitting(g, R)) /\ 3 + (i - 3) = i BY <1>7, <1>9
    <2>2. q[3 + (i - 3)] = Admitting(g, R)[i - 3] BY <1>7, <2>1
    <2> HIDE DEF Grants
    <2> QED BY <1>8, <2>1, <2>2
  <1>10. DOMAIN q = 1 .. Len(q) /\ Len(q) \in Nat
    <2> HIDE DEF Event
    <2> QED BY <1>7
  <1>11. /\ q[1].type = "lease_acquired" /\ q[3].type = "barrier_suspended"
         /\ q[2].type = "barrier_requested" /\ q[2].group = g /\ q[2].required = R
    <2> HIDE DEF Opens
    <2> QED BY <1>5, <1>7
  <1>12. writer'.by = g /\ writer'.of = 0 /\ writer'.todo = q /\ writer'.then = "run" BY <1>1 DEF Hold
  <1>13. ASSUME NEW i \in DOMAIN q PROVE Promised(session, writer, i)'
    <2>1. CASE i \in 1..3
      <3>1. q[i].type \notin {"slot_claimed", "claim_granted", "slot_released", "claim_released", "takeover",
                              "pre_effect_cancelled"}
        BY <1>11, <2>1
      <3> QED BY <1>12, <3>1 DEF Promised
    <2>2. CASE i \in 4 .. Len(q)
      <3>1. q[i].type \in {"slot_claimed", "claim_granted"} /\ q[i].group = g /\ q[i].d \in R
        BY <1>9, <2>2 DEF Grants
      <3>2. Required(session, writer.todo, i)'
        <4>1. 2 \in 1 .. i - 1 BY <2>2
        <4> QED BY <1>11, <1>12, <3>1, <4>1 DEF Required
      <3> HIDE DEF Required
      <3> QED BY <1>12, <3>1, <3>2 DEF Promised
    <2> QED BY <1>10, <1>13, <2>1, <2>2
  <1>14. ASSUME NEW d \in R PROVE Coming(session, writer, <<d, thr[g][d].n>>)'
    <2>1. thr'[g][d].n = session.envelopes[d] OBVIOUS
    <2>2. Pending(q, "slot_claimed", <<d, thr'[g][d].n>>) /\ Pending(q, "claim_granted", <<d, thr'[g][d].n>>)
      <3> HIDE DEF Pending
      <3> QED BY <1>6, <2>1
    <2> QED BY <1>12, <2>2 DEF Coming, Pending
  <1>15. writer'.then # "launch" BY <1>12
  <1> HIDE DEF Promised, Coming, Hold
  <1> QED BY <1>12, <1>13, <1>14, <1>15 DEF WriterSafe

LEMMA SafeAdmitGroup ==
  ASSUME Inv, Admission, NEW g \in Commands, AdmitGroup(g)
  PROVE  Admission'
  <1>1. /\ UNCHANGED <<session, op, child>>
        /\ cmd[g].pc = "admit" /\ writer.by = 0
    BY DEF AdmitGroup, WriterFree
  <1>2. CASE UNCHANGED writer /\ \E to \in {"cancelled", "done"} : Goto(g, 0, to)
    <2>1. PICK to \in {"cancelled", "done"} : Goto(g, 0, to) BY <1>2
    <2>2. to \in CommandSteps \ {"holding", "run", "release", "seize"} BY DEF CommandSteps
    <2> HIDE DEF Goto
    <2> QED BY <1>1, <1>2, <2>1, <2>2, CommandOnSafe
  <1> DEFINE T == [d \in Delegations |->
                     IF d \in cmd[g].adm
                     THEN [Idle EXCEPT !.pc = "launch", !.n = session.envelopes[d],
                                       !.first = session.envelopes[d], !.slot = SlotNumber(cmd[g].adm, d)]
                     ELSE Idle]
  <1>3. CASE /\ Hold(g, 0, Opens(g, cmd[g].adm) \o Admitting(g, cmd[g].adm), "run", "done")
             /\ cmd' = [cmd EXCEPT ![g].pc = "holding"] /\ thr' = [thr EXCEPT ![g] = T]
    <2>1. cmd[g] \in CommandType /\ Knows(cmd[g]) BY CommandKnows
    <2>2. PICK R : R = cmd[g].adm OBVIOUS
    <2>3. R \in SUBSET Delegations /\ Cardinality(R) <= 2 /\ \A d \in R : session.envelopes[d] > 0
      BY <1>1, <2>1, <2>2 DEF CommandType, Knows
    <2>4. \A d \in R : session.envelopes[d] \in 1..2
      <3>1. \A d \in Delegations : session.envelopes[d] \in 0..2 BY SessionFields DEF Inv, Types
      <3>2. \A x \in 0..2 : x > 0 => x \in 1..2 OBVIOUS
      <3> QED BY <2>3, <3>1, <3>2
    <2>5. /\ \A d \in R : T[d].n = session.envelopes[d]
          /\ \A d \in Delegations : T[d].pc # "idle" => T[d].pc = "launch" /\ T[d].first = T[d].n
      BY <2>2, <2>3 DEF Idle
    <2>6. thr'[g] = T /\ \A h \in Commands : h # g => thr'[h] = thr[h]
      <3>1. thr \in [Commands -> [Delegations -> LaunchType]] BY DEF Inv, Types
      <3> HIDE DEF T, LaunchType
      <3> QED BY <1>3, <3>1
    <2>7. cmd'[g].adm = R BY <1>3, <2>1, <2>2 DEF Inv, Types, CommandType
    <2> HIDE DEF T
    <2>8. Hold(g, 0, Opens(g, R) \o Admitting(g, R), "run", "done") BY <1>3, <2>2
    <2>9. WriterSafe'
      <3> HIDE DEF WriterSafe, Hold, Opens, Admitting
      <3> QED BY <1>1, <2>3, <2>4, <2>5, <2>6, <2>7, <2>8, GroupHold
    <2> HIDE DEF WriterSafe, Hold
    <2> QED BY <1>1, <1>3, <2>6, <2>8, <2>9, CommandHoldSafe
  <1>4. \/ UNCHANGED writer /\ \E to \in {"cancelled", "done"} : Goto(g, 0, to)
        \/ /\ Hold(g, 0, Opens(g, cmd[g].adm) \o Admitting(g, cmd[g].adm), "run", "done")
           /\ cmd' = [cmd EXCEPT ![g].pc = "holding"] /\ thr' = [thr EXCEPT ![g] = T]
    BY DEF AdmitGroup, Opens, Admitting
  <1> QED BY <1>2, <1>3, <1>4

-----------------------------------------------------------------------------
(* The steps of nobody's coordinator, and the ends of one. *)

\* Processes end and operations go on while nobody moves.
LEMMA QuietSafe ==
  ASSUME Inv, Admission, AllKept, SameBook, UNCHANGED <<writer, cmd, thr>>,
         \A a \in Actors : child[a].state = "none" => child'[a].state = "none"
  PROVE  Admission'
  <1>1. ASSUME NEW h \in Commands, NEW e \in Delegations PROVE LaunchSafe(h, e)'
    <2>1. CASE cmd[h].pc # "run" BY <2>1 DEF LaunchSafe
    <2>2. CASE cmd[h].pc = "run"
      <3>1. thr[h][e].pc = "spawn" =>
              child'[<<e, thr[h][e].n>>].state = child[<<e, thr[h][e].n>>].state
        <4> SUFFICES ASSUME thr[h][e].pc = "spawn"
                     PROVE  child'[<<e, thr[h][e].n>>].state = child[<<e, thr[h][e].n>>].state
          OBVIOUS
        <4>1. Learned(thr[h][e], "spawn", e) BY <2>2, LaunchLearned
        <4>2. child[<<e, thr[h][e].n>>].state = "none" BY <4>1 DEF Learned
        <4>3. <<e, thr[h][e].n>> \in Actors BY LaunchKnows
        <4> QED BY <4>2, <4>3
      <3> HIDE DEF AllKept, SameBook, LaunchSafe
      <3> QED BY <3>1, LaunchStays
    <2> QED BY <2>1, <2>2
  <1>2. \A h \in Commands : Alone(h) BY DEF Alone
  <1>3. \A h \in Commands : Past(h) => Past(h)' BY DEF Past
  <1>4. ASSUME NEW h \in Commands PROVE CommandSafe(h)'
    <2> HIDE DEF Alone, Past, AllKept, SameBook, CommandSafe
    <2> QED BY <1>2, <1>3, CommandStays
  <1>5. WriterSafe'
    <2> HIDE DEF AllKept, SameBook, WriterSafe
    <2> QED BY WriterStays
  <1> HIDE DEF LaunchSafe, CommandSafe, WriterSafe, AllKept, SameBook
  <1> QED BY <1>1, <1>4, <1>5, StepIsSafe

LEMMA SafeChild ==
  ASSUME Inv, Admission, NEW a \in Actors, ChildStart(a) \/ ChildEnd(a) \/ ChildDies(a)
  PROVE  Admission'
  <1>1. UNCHANGED <<session, writer, cmd, thr>> BY DEF ChildStart, ChildEnd, ChildDies
  <1>2. op \in [Actors -> OpType] /\ child \in [Actors -> ChildType] BY DEF Inv, Types
  <1>3. child[a].state \in Live
    BY DEF ChildStart, ChildEnd, ChildDies, Live
  <1>4. PICK c : child' = [child EXCEPT ![a] = c]
    <2>1. CASE ChildStart(a)
      <3>1. child' = [child EXCEPT ![a] =
              [child[a] EXCEPT !.state = IF op[a].state = "running" THEN "running" ELSE "dead"]]
        BY <1>2, <2>1 DEF ChildStart
      <3> QED BY <3>1
    <2>2. CASE ChildEnd(a)
      <3>1. \/ child' = [child EXCEPT ![a] = [child[a] EXCEPT !.state = "killed"]]
            \/ \E r \in Outcomes : child' = [child EXCEPT ![a] = [state |-> "finished", result |-> r]]
        BY <1>2, <2>2 DEF ChildEnd
      <3> QED BY <3>1
    <2>3. CASE ChildDies(a)
      <3>1. child' = [child EXCEPT ![a] = Ended(child[a])] BY <1>2, <2>3 DEF ChildDies
      <3> QED BY <3>1
    <2> QED BY <2>1, <2>2, <2>3
  <1>5. op' = op \/ op' = [op EXCEPT ![a].state = "terminal_observed"]
    BY DEF ChildStart, ChildEnd, ChildDies
  <1>6. Kept(a)
    <2>1. op'[a].failure = op[a].failure BY <1>2, <1>5 DEF OpType
    <2>2. op'[a].state = "reconciled" => op[a].state = "reconciled" BY <1>2, <1>5 DEF OpType
    <2>3. child[a].state # "finished" BY <1>3 DEF Live
    <2> HIDE DEF Safe, Spent
    <2> QED BY <1>3, <2>1, <2>2, <2>3 DEF Kept
  <1>7. \A b \in Actors : b # a => op'[b] = op[b] /\ child'[b] = child[b] BY <1>2, <1>4, <1>5
  <1>8. AllKept
    <2> HIDE DEF Kept
    <2> QED BY <1>6, <1>7, KeptButOne
  <1>9. SameBook BY <1>1, SessionSame
  <1>10. \A b \in Actors : child[b].state = "none" => child'[b].state = "none"
    <2>1. child[a].state # "none" BY <1>3 DEF Live
    <2> QED BY <1>7, <2>1
  <1> HIDE DEF AllKept, SameBook
  <1> QED BY <1>1, <1>8, <1>9, <1>10, QuietSafe

LEMMA UserKeepsBook ==
  ASSUME Inv, NEW d \in Delegations, Decide(d) \/ Enqueue(d) \/ PrepareEnvelope(d) \/ Cancel(d)
  PROVE  UNCHANGED <<writer, op, child, cmd, thr>> /\ SameBook
  <1>1. UNCHANGED <<writer, op, child, cmd, thr>>
    BY DEF Decide, Enqueue, PrepareEnvelope, Cancel, UserEvent
  <1>2. PICK e : /\ e.type \in {"decided", "queued", "prepared", "cancel"} /\ e.d = d
                 /\ session' = Apply(session, e)
    <2>1. \A k : [type |-> "decided", d |-> d, kind |-> k].type = "decided"
                 /\ [type |-> "decided", d |-> d, kind |-> k].d = d OBVIOUS
    <2>2. \A type : Of(type, d).type = type /\ Of(type, d).d = d BY DEF Of
    <2> HIDE DEF Of, Apply, Admissible
    <2> QED BY <2>1, <2>2 DEF Decide, Enqueue, PrepareEnvelope, Cancel, UserEvent
  <1>3. session \in SessionType BY DEF Inv, Types
  <1>4. SameBook
    <2>1. CASE e.type = "decided" BY <1>2, <1>3, <2>1 DEF Apply, SameBook, SessionType
    <2>2. CASE e.type = "queued" BY <1>2, <1>3, <2>2 DEF Apply, SameBook, SessionType
    <2>3. CASE e.type = "prepared" BY <1>2, <1>3, <2>3 DEF Apply, SameBook, SessionType
    <2>4. CASE e.type = "cancel" BY <1>2, <1>3, <2>4 DEF Apply, SameBook, SessionType
    <2> QED BY <1>2, <2>1, <2>2, <2>3, <2>4
  <1> QED BY <1>1, <1>4

LEMMA SafeUser ==
  ASSUME Inv, Admission, NEW d \in Delegations, Decide(d) \/ Enqueue(d) \/ PrepareEnvelope(d) \/ Cancel(d)
  PROVE  Admission'
  <1>1. UNCHANGED <<writer, op, child, cmd, thr>> /\ SameBook BY UserKeepsBook
  <1>2. AllKept BY <1>1, KeptAll
  <1> HIDE DEF AllKept, SameBook
  <1> QED BY <1>1, <1>2, QuietSafe

LEMMA SafeAbort ==
  ASSUME Inv, Admission, NEW g \in Commands, Abort(g)
  PROVE  Admission'
  <1>1. /\ UNCHANGED <<session, writer, op, thr>>
        /\ child' = [a \in Actors |->
                 IF /\ thr[g][a[1]].n = a[2] /\ thr[g][a[1]].pc \in PreStart
                    /\ child[a].state \in Live
                 THEN Ended(child[a]) ELSE child[a]]
    BY DEF Abort
  <1>2. PICK why \in {"cancel", "fatal"} : cmd' = [cmd EXCEPT ![g].aborted = why] BY DEF Abort
  <1>3. cmd[g] \in CommandType BY CommandKnows
  <1>4. PICK c : c = [cmd[g] EXCEPT !.aborted = why] OBVIOUS
  <1>5. c \in CommandType /\ c.pc = cmd[g].pc /\ c.adm = cmd[g].adm /\ c.grp = cmd[g].grp
    BY <1>3, <1>4 DEF CommandType
  <1>6. Comes(g, c) BY <1>2, <1>4 DEF Comes, Inv, Types
  <1>7. cmd'[g] = c /\ \A h \in Commands : h # g => cmd'[h] = cmd[h] BY <1>5, <1>6, ComesFacts
  <1>8. \A a \in Actors : child'[a] = child[a] \/ child[a].state \in Live BY <1>1
  <1>9. AllKept
    <2> SUFFICES ASSUME NEW a \in Actors PROVE Kept(a) BY DEF AllKept
    <2>1. CASE child'[a] = child[a] BY <1>1, <2>1, KeptSame
    <2>2. CASE child[a].state \in Live
      <3>1. child[a].state # "finished" /\ op'[a] = op[a] BY <1>1, <2>2 DEF Live
      <3> HIDE DEF Safe, Spent
      <3> QED BY <2>2, <3>1 DEF Kept
    <2> QED BY <1>8, <2>1, <2>2
  <1>10. \A a \in Actors : child[a].state = "none" => child'[a].state = "none" BY <1>8 DEF Live
  <1>11. SameBook BY <1>1, SessionSame
  <1>12. (Past(g) => Past(g)') /\ (Fresh(g)' => Fresh(g)) BY <1>1, <1>5, <1>7 DEF Past, Fresh
  <1>13. c.pc \in {"seize", "adopt"} => Takes(g, c.grp)
    <2>1. CommandSafe(g) BY DEF Admission
    <2> HIDE DEF Past, Abandoned
    <2> QED BY <1>5, <2>1 DEF CommandSafe, Takes
  <1>14. WriterSafe'
    <2>1. writer.by # 0 => cmd'[writer.by].adm = cmd[writer.by].adm
      <3>1. writer.by # 0 => writer.by \in Commands BY AdmissionHolder
      <3> QED BY <1>5, <1>7, <3>1
    <2> HIDE DEF AllKept, SameBook, WriterSafe
    <2> QED BY <1>1, <1>9, <1>11, <2>1, WriterStays
  <1>15. WriterLeaves(g, c) BY <1>1 DEF WriterLeaves
  <1>16. c.pc = "run" => cmd[g].pc = "run" /\ c.adm = cmd[g].adm /\ thr'[g] = thr[g] BY <1>1, <1>5
  <1> HIDE DEF AllKept, SameBook, WriterSafe, Comes, Past, Fresh, WriterLeaves, Takes
  <1> QED BY <1>1, <1>5, <1>6, <1>9, <1>10, <1>11, <1>12, <1>13, <1>14, <1>15, <1>16, CommandAdvances

LEMMA SafeDies ==
  ASSUME Inv, Admission, NEW g \in Commands, Crash(g) \/ Exit(g)
  PROVE  Admission'
  <1>0. /\ UNCHANGED <<session, op, child>> /\ Over(g)
        /\ writer' = IF writer.by = g THEN Free ELSE writer
    BY DEF Crash, Exit, Dies
  <1>1. PICK c \in CommandType : Comes(g, c) /\ c.pc = "done" BY <1>0, OverFacts
  <1>2. \A h \in Commands : h # g => thr'[h] = thr[h] BY <1>0, OverFacts, QuitsLaunches
  <1>3. AllKept BY <1>0, KeptAll
  <1>4. SameBook BY <1>0, SessionSame
  <1>5. cmd'[g] = c /\ \A h \in Commands : h # g => cmd'[h] = cmd[h] BY <1>1, ComesFacts
  <1>6. Past(g)' /\ ~Fresh(g)' BY <1>1, <1>5 DEF Past, Fresh
  <1>7. WriterLeaves(g, c) BY <1>0, <1>1 DEF WriterLeaves
  <1>8. WriterSafe'
    <2>1. CASE writer.by = g BY <1>0, <2>1, FreeIsSafe
    <2>2. CASE writer.by # g
      <3>1. UNCHANGED writer BY <1>0, <2>2
      <3>2. writer.by # 0 => writer.by \in Commands BY AdmissionHolder
      <3>3. writer.by # 0 => cmd'[writer.by] = cmd[writer.by] /\ thr'[writer.by] = thr[writer.by]
        BY <1>2, <1>5, <2>2, <3>2
      <3> HIDE DEF AllKept, SameBook, WriterSafe
      <3> QED BY <1>3, <1>4, <3>1, <3>3, WriterStays
    <2> QED BY <2>1, <2>2
  <1> HIDE DEF AllKept, SameBook, WriterSafe, Comes, Past, Fresh, WriterLeaves, Takes
  <1> QED BY <1>0, <1>1, <1>2, <1>3, <1>4, <1>6, <1>7, <1>8, CommandAdvances

-----------------------------------------------------------------------------
(* The append of one event: what it does to the book. *)

SlotRecord(e) == [actor |-> ActorOf(e), group |-> e.group, slot |-> e.slot]
ClaimRecord(e) == [actor |-> ActorOf(e), group |-> e.group]
Without(S, e) == {x \in S : ~(x.actor = ActorOf(e) /\ x.group = e.group)}

\* The book of t is the book of s after the event e.
Books(s, t, e) ==
  /\ t.slots = IF e.type = "slot_claimed" THEN s.slots \cup {SlotRecord(e)}
               ELSE IF e.type = "slot_released" THEN Without(s.slots, e) ELSE s.slots
  /\ t.claims = IF e.type = "claim_granted" THEN s.claims \cup {ClaimRecord(e)}
                ELSE IF e.type = "claim_released" THEN Without(s.claims, e) ELSE s.claims
  /\ \A d \in Delegations, n \in 1..2 :
       t.claimed[d][n] = IF e.type = "slot_claimed" /\ d = e.d /\ n = e.n THEN e.group ELSE s.claimed[d][n]
  /\ \A b \in Commands :
       /\ t.barriers[b].required = IF e.type = "barrier_requested" /\ b = e.group THEN e.required
                                   ELSE s.barriers[b].required
       /\ t.barriers[b].status = "none" =>
            s.barriers[b].status = "none" /\ ~(e.type = "barrier_requested" /\ b = e.group)
       /\ t.nonce[b] = IF e.type = "lease_acquired" /\ b = e.group THEN e.group
                       ELSE IF e.type = "takeover" /\ b = e.group THEN e.to ELSE s.nonce[b]

LEMMA SlotBooks ==
  ASSUME NEW s \in SessionType, NEW e \in Event, NEW t, t = Apply(s, e), e.type = "slot_claimed"
  PROVE  Books(s, t, e)
  <1> DEFINE x == SlotRecord(e)
             C == [s.claimed EXCEPT ![e.d][e.n] = e.group]
  <1>1. e.d \in Delegations /\ e.n \in 1..2 /\ e.group \in Commands BY EventFields
  <1>2. t = [s EXCEPT !.slots = @ \cup {x}, !.claimed = C] BY DEF Apply, SlotRecord
  <1>3. \A d \in Delegations, n \in 1..2 : C[d][n] = IF d = e.d /\ n = e.n THEN e.group ELSE s.claimed[d][n]
    BY <1>1 DEF SessionType
  <1> HIDE DEF x, C
  <1>4. /\ t.slots = s.slots \cup {x} /\ t.claimed = C /\ t.claims = s.claims /\ t.barriers = s.barriers
        /\ t.nonce = s.nonce
    BY <1>2 DEF SessionType
  <1> QED BY <1>3, <1>4 DEF Books, x

LEMMA HeldBooks ==
  ASSUME NEW s \in SessionType, NEW e \in Event, NEW t, t = Apply(s, e),
         e.type \in {"slot_released", "claim_granted", "claim_released"}
  PROVE  Books(s, t, e)
  <1>1. CASE e.type = "slot_released"
    <2>1. t = [s EXCEPT !.slots = Without(@, e)] BY <1>1 DEF Apply, Without
    <2>2. /\ t.slots = Without(s.slots, e) /\ t.claimed = s.claimed /\ t.claims = s.claims
          /\ t.barriers = s.barriers /\ t.nonce = s.nonce
      BY <2>1 DEF SessionType
    <2> HIDE DEF Without
    <2> QED BY <1>1, <2>2 DEF Books
  <1>2. CASE e.type = "claim_released"
    <2>1. t = [s EXCEPT !.claims = Without(@, e)] BY <1>2 DEF Apply, Without
    <2>2. /\ t.claims = Without(s.claims, e) /\ t.claimed = s.claimed /\ t.slots = s.slots
          /\ t.barriers = s.barriers /\ t.nonce = s.nonce
      BY <2>1 DEF SessionType
    <2> HIDE DEF Without
    <2> QED BY <1>2, <2>2 DEF Books
  <1>3. CASE e.type = "claim_granted"
    <2>1. t = [s EXCEPT !.claims = @ \cup {ClaimRecord(e)}] BY <1>3 DEF Apply, ClaimRecord
    <2>2. /\ t.claims = s.claims \cup {ClaimRecord(e)} /\ t.claimed = s.claimed /\ t.slots = s.slots
          /\ t.barriers = s.barriers /\ t.nonce = s.nonce
      BY <2>1 DEF SessionType
    <2> HIDE DEF ClaimRecord
    <2> QED BY <1>3, <2>2 DEF Books
  <1> QED BY <1>1, <1>2, <1>3

LEMMA BarrierBooks ==
  ASSUME NEW s \in SessionType, NEW e \in Event, NEW t, t = Apply(s, e), Admissible(s, e),
         e.type \in {"barrier_requested", "barrier_suspended", "barrier_released"}
  PROVE  Books(s, t, e)
  <1> DEFINE r == IF e.type = "barrier_requested" THEN [status |-> "requested", required |-> e.required]
                  ELSE [s.barriers[e.group] EXCEPT !.status =
                          IF e.type = "barrier_suspended" THEN "suspended" ELSE e.kind]
  <1>1. e.group \in Commands /\ (e.type = "barrier_released" => e.kind \in {"completed", "cancelled", "blocked"})
    BY EventFields
  <1>2. t = [s EXCEPT !.barriers = [@ EXCEPT ![e.group] = r]] BY DEF Apply
  <1>3. s.barriers[e.group] \in
          [status : {"none", "requested", "suspended", "completed", "cancelled", "blocked"},
           required : SUBSET Delegations]
    BY <1>1 DEF SessionType
  <1>4. /\ r.required = IF e.type = "barrier_requested" THEN e.required ELSE s.barriers[e.group].required
        /\ r.status # "none"
    BY <1>1, <1>3
  <1> HIDE DEF r
  <1>5. /\ t.slots = s.slots /\ t.claimed = s.claimed /\ t.claims = s.claims /\ t.nonce = s.nonce
        /\ \A b \in Commands : t.barriers[b] = IF b = e.group THEN r ELSE s.barriers[b]
    BY <1>1, <1>2 DEF SessionType
  <1> QED BY <1>4, <1>5 DEF Books

LEMMA LeaseBooks ==
  ASSUME NEW s \in SessionType, NEW e \in Event, NEW t, t = Apply(s, e),
         e.type \in {"lease_acquired", "takeover"}
  PROVE  Books(s, t, e)
  <1> DEFINE x == IF e.type = "lease_acquired" THEN e.group ELSE e.to
  <1>1. e.group \in Commands BY EventFields
  <1>2. t = [s EXCEPT !.nonce = [@ EXCEPT ![e.group] = x]] BY DEF Apply
  <1> HIDE DEF x
  <1>3. /\ t.slots = s.slots /\ t.claimed = s.claimed /\ t.claims = s.claims /\ t.barriers = s.barriers
        /\ \A b \in Commands : t.nonce[b] = IF b = e.group THEN x ELSE s.nonce[b]
    BY <1>1, <1>2 DEF SessionType
  <1> QED BY <1>3 DEF Books, x

\* The events of the delegations leave the book alone.
LEMMA OtherBooks ==
  ASSUME NEW s \in SessionType, NEW e \in Event, NEW t, t = Apply(s, e),
         e.type \in {"decided", "queued", "prepared", "accepted", "blocked", "cancel", "reserved",
                     "launch_requested", "started", "settled", "pre_effect_cancelled", "terminal", "ready"}
  PROVE  Books(s, t, e)
  <1>1. /\ t.slots = s.slots /\ t.claimed = s.claimed /\ t.claims = s.claims /\ t.barriers = s.barriers
        /\ t.nonce = s.nonce
    <2>1. CASE e.type \in {"decided", "queued", "prepared", "accepted", "blocked", "cancel"}
      BY <2>1 DEF Apply, SessionType
    <2>2. CASE e.type \in {"reserved", "launch_requested", "settled"} BY <2>2 DEF Apply, SessionType
    <2>3. CASE e.type \in {"started", "terminal", "ready"} BY <2>3 DEF Apply, SessionType
    <2>4. CASE e.type = "pre_effect_cancelled" BY <2>4 DEF Apply, SessionType
    <2> QED BY <2>1, <2>2, <2>3, <2>4
  <1> QED BY <1>1 DEF Books

LEMMA ApplyBooks ==
  ASSUME NEW s \in SessionType, NEW e \in Event, NEW t, t = Apply(s, e), Admissible(s, e)
  PROVE  Books(s, t, e)
  <1>1. e.type \in {"decided", "queued", "prepared", "accepted", "blocked", "cancel", "reserved",
              "launch_requested", "started", "settled", "pre_effect_cancelled", "terminal", "ready",
              "claim_granted", "claim_released", "slot_released", "slot_claimed", "lease_acquired",
              "barrier_suspended", "barrier_requested", "barrier_released", "takeover"}
    BY EventFields
  <1> HIDE DEF Books, Apply, Admissible, Event, SessionType
  <1> QED BY <1>1, SlotBooks, HeldBooks, BarrierBooks, LeaseBooks, OtherBooks

\* What the writer says of the event that is next.
HeadOK(e) ==
  /\ e.type \in {"slot_claimed", "claim_granted"} =>
       /\ e.group = writer.by /\ writer.then \in {"run", "launch"}
       /\ e.d \in session.barriers[e.group].required
       /\ writer.then = "launch" => e.n = 2 \/ Spent(ActorOf(e))
  /\ e.type \in {"slot_released", "claim_released"} =>
       /\ writer.then \notin {"run", "launch"}
       /\ Spent(ActorOf(e)) \/ (e.n = 2 /\ Taken(session, e.group))
  /\ e.type = "takeover" => e.to # e.group
  /\ e.type = "pre_effect_cancelled" /\ e.n # 0 => op[ActorOf(e)].failure = "cancelled"

LEMMA HeadPromised ==
  ASSUME Inv, Admission, writer.by # 0, writer.todo # <<>>, NEW e, e = Head(writer.todo)
  PROVE  HeadOK(e)
  <1>1. writer.todo \in Seq(Event) BY DEF Inv, Types, WriterType
  <1>2. e \in Event /\ 1 \in DOMAIN writer.todo /\ e = writer.todo[1] BY <1>1, Heads
  <1>3. Promised(session, writer, 1) BY <1>2 DEF Admission, WriterSafe
  <1>4. Required(session, writer.todo, 1) => e.d \in session.barriers[e.group].required
    <2>1. \A j \in 1 .. 1 - 1 : FALSE OBVIOUS
    <2> QED BY <1>2, <2>1 DEF Required
  <1> HIDE DEF Required, Spent, Taken, Event, ActorOf
  <1> QED BY <1>2, <1>3, <1>4 DEF Promised, HeadOK

\* The session accepts the event e.
Entry(e) ==
  /\ e \in Event /\ HeadOK(e) /\ Books(session, session', e) /\ UNCHANGED <<op, child>>
  /\ e.type = "slot_claimed" => Cardinality(session.slots) < 2
  /\ e.type = "claim_granted" => \A x \in session.claims : ~Collides(x.actor, ActorOf(e))
  /\ e.type = "barrier_requested" => session.barriers[e.group].status = "none"
  /\ e.type = "lease_acquired" => session.nonce[e.group] = 0

LEMMA Enters ==
  ASSUME Inv, Admission, writer.by # 0, writer.todo # <<>>, NEW e, e = Head(writer.todo),
         Admissible(session, e), session' = Apply(session, e), UNCHANGED <<op, child>>
  PROVE  Entry(e)
  <1>1. e \in Event BY HeadFits
  <1>2. HeadOK(e)
    <2> HIDE DEF HeadOK
    <2> QED BY HeadPromised
  <1>3. session \in SessionType BY DEF Inv, Types
  <1>4. Books(session, session', e)
    <2> HIDE DEF Books, Apply, Admissible, Event, SessionType
    <2> QED BY <1>1, <1>3, ApplyBooks
  <1>5. e.type = "slot_claimed" => Cardinality(session.slots) < 2 BY DEF Admissible
  <1>6. e.type = "claim_granted" => \A x \in session.claims : ~Collides(x.actor, ActorOf(e))
    BY DEF Admissible
  <1>7. e.type = "barrier_requested" => session.barriers[e.group].status = "none" BY DEF Admissible
  <1>8. e.type = "lease_acquired" => session.nonce[e.group] = 0 BY DEF Admissible
  <1> HIDE DEF Books, HeadOK, Admissible, Apply, Event, Collides
  <1> QED BY <1>1, <1>2, <1>4, <1>5, <1>6, <1>7, <1>8 DEF Entry

\* The actor of a promising event.
LEMMA EntryActor ==
  ASSUME NEW e, Entry(e)
  PROVE  /\ e.type \in {"slot_claimed", "claim_granted", "slot_released", "claim_released"} =>
              ActorOf(e) \in Actors /\ ActorOf(e)[1] = e.d /\ ActorOf(e)[2] = e.n
         /\ e.type \in {"slot_claimed", "claim_granted"} => e.group \in Commands
  <1>1. e \in Event BY DEF Entry
  <1> QED BY <1>1, EventFields DEF ActorOf, Actors

\* The book says no less of whom a barrier waits for, and who was taken over.
LEMMA RequiredGrows ==
  ASSUME Inv, Admission, NEW e, Entry(e), NEW b \in Commands
  PROVE  /\ session.barriers[b].required \subseteq session'.barriers[b].required
         /\ Taken(session, b) => Taken(session', b)
         /\ e.type = "takeover" /\ e.group = b => Taken(session', b)
         /\ e.type = "barrier_requested" /\ e.group = b => session'.barriers[b].required = e.required
  <1>1. /\ session'.barriers[b].required = IF e.type = "barrier_requested" /\ b = e.group THEN e.required
                                           ELSE session.barriers[b].required
        /\ session'.nonce[b] = IF e.type = "lease_acquired" /\ b = e.group THEN e.group
                               ELSE IF e.type = "takeover" /\ b = e.group THEN e.to ELSE session.nonce[b]
    BY DEF Entry, Books
  <1>2. e.type = "barrier_requested" /\ e.group = b => session.barriers[b].required = {}
    BY DEF Entry, Admission, BookOK
  <1>3. e.type = "takeover" => e.to # e.group /\ e.to # 0
    <2>1. e \in Event /\ HeadOK(e) BY DEF Entry
    <2>2. e.type = "takeover" => e.to \in Commands BY <2>1, EventFields
    <2> QED BY <2>1, <2>2 DEF HeadOK, Commands
  <1>4. e.type = "lease_acquired" /\ e.group = b => ~Taken(session, b) BY DEF Entry, Taken
  <1>5. e.type = "takeover" /\ e.group = b => Taken(session', b) BY <1>1, <1>3 DEF Taken
  <1>6. Taken(session, b) => Taken(session', b) BY <1>1, <1>4, <1>5 DEF Taken
  <1> QED BY <1>1, <1>2, <1>5, <1>6

\* Who leaves the book.
LEMMA SlotKept ==
  ASSUME NEW e, Entry(e), NEW x \in session.slots
  PROVE  \/ x \in session'.slots
         \/ e.type = "slot_released" /\ x.actor = ActorOf(e) /\ x.group = e.group
  BY DEF Entry, Books, Without

LEMMA ClaimKept ==
  ASSUME NEW e, Entry(e), NEW x \in session.claims
  PROVE  \/ x \in session'.claims
         \/ e.type = "claim_released" /\ x.actor = ActorOf(e) /\ x.group = e.group
  BY DEF Entry, Books, Without

LEMMA NewSlot ==
  ASSUME NEW e, Entry(e), NEW x \in session'.slots
  PROVE  x \in session.slots \/ (e.type = "slot_claimed" /\ x = SlotRecord(e))
  BY DEF Entry, Books, Without

LEMMA NewClaim ==
  ASSUME NEW e, Entry(e), NEW x \in session'.claims
  PROVE  x \in session.claims \/ (e.type = "claim_granted" /\ x = ClaimRecord(e))
  BY DEF Entry, Books, Without

\* A release leaves its actor safe.
LEMMA ReleaseIsSafe ==
  ASSUME Inv, Admission, NEW e, Entry(e), e.type \in {"slot_released", "claim_released"},
         NEW a \in Actors, a = ActorOf(e), NEW b \in Commands, b = e.group,
         a[1] \in session.barriers[b].required
  PROVE  (Spent(a) \/ Bypassed(a))'
  <1>1. Spent(a) \/ (e.n = 2 /\ Taken(session, b)) BY DEF Entry, HeadOK
  <1>2. a[2] = e.n BY EntryActor
  <1>3. a[1] \in session'.barriers[b].required /\ (Taken(session, b) => Taken(session', b))
    <2> HIDE DEF Entry, Taken
    <2> QED BY RequiredGrows
  <1>4. Spent(a) => Spent(a)' BY DEF Entry, Spent, Proven
  <1>5. e.n = 2 /\ Taken(session', b) => Bypassed(a)' BY <1>2, <1>3 DEF Bypassed, Taken
  <1> HIDE DEF Spent, Taken, Bypassed
  <1> QED BY <1>1, <1>3, <1>4, <1>5

LEMMA SafeGrows ==
  ASSUME Inv, Admission, NEW e, Entry(e), NEW a \in Actors, Safe(a)
  PROVE  Safe(a)'
  <1>1. Spent(a) => Spent(a)' BY DEF Entry, Spent, Proven
  <1>2. Bypassed(a) => Bypassed(a)'
    <2> SUFFICES ASSUME Bypassed(a) PROVE Bypassed(a)' OBVIOUS
    <2>1. PICK b \in Commands : a[1] \in session.barriers[b].required /\ Taken(session, b)
      BY DEF Bypassed, Taken
    <2>2. a[1] \in session'.barriers[b].required /\ Taken(session', b)
      <3> HIDE DEF Entry, Taken
      <3> QED BY <2>1, RequiredGrows
    <2> QED BY <2>2 DEF Bypassed, Taken
  <1>3. Holds(a) => Holds(a)' \/ Spent(a)' \/ Bypassed(a)'
    <2> SUFFICES ASSUME Holds(a) PROVE Holds(a)' \/ Spent(a)' \/ Bypassed(a)' OBVIOUS
    <2>1. PICK x \in session.slots : x.actor = a /\ [actor |-> a, group |-> x.group] \in session.claims
      BY DEF Holds, SlotsOf
    <2>2. PICK y : y = [actor |-> a, group |-> x.group] OBVIOUS
    <2>3. y \in session.claims /\ y.actor = a /\ y.group = x.group BY <2>1, <2>2
    <2>4. x.group \in Commands BY DEF Inv, Types, SessionType
    <2>5. a[1] \in session.barriers[x.group].required BY <2>1 DEF Admission, BookOK
    <2>6. CASE x \in session'.slots /\ y \in session'.claims
      <3>1. Holds(a)' BY <2>1, <2>2, <2>6 DEF Holds, SlotsOf
      <3> QED BY <3>1
    <2>7. CASE x \notin session'.slots
      <3>1. e.type = "slot_released" /\ a = ActorOf(e) /\ x.group = e.group BY <2>1, <2>7, SlotKept
      <3> HIDE DEF Entry, Spent, Bypassed
      <3> QED BY <2>4, <2>5, <3>1, ReleaseIsSafe
    <2>8. CASE y \notin session'.claims
      <3>1. e.type = "claim_released" /\ a = ActorOf(e) /\ x.group = e.group BY <2>3, <2>8, ClaimKept
      <3> HIDE DEF Entry, Spent, Bypassed
      <3> QED BY <2>4, <2>5, <3>1, ReleaseIsSafe
    <2> QED BY <2>6, <2>7, <2>8
  <1> HIDE DEF Holds, Bypassed, Spent
  <1> QED BY <1>1, <1>2, <1>3 DEF Safe

\* The book stays in order.
LEMMA BookGrows ==
  ASSUME Inv, Admission, NEW e, Entry(e)
  PROVE  BookOK(session)'
  <1>0. BookOK(session) BY DEF Admission
  <1>1. IsFiniteSet(session'.slots) /\ Cardinality(session'.slots) <= 2
    <2>1. IsFiniteSet(session.slots) /\ Cardinality(session.slots) <= 2 BY <1>0 DEF BookOK
    <2>2. Cardinality(session.slots) \in Nat BY <2>1, FS_CardinalityType
    <2>3. CASE e.type = "slot_claimed"
      <3>1. session'.slots = session.slots \cup {SlotRecord(e)} /\ Cardinality(session.slots) < 2
        BY <2>3 DEF Entry, Books
      <3>2. IsFiniteSet(session'.slots) /\ Cardinality(session'.slots) <= Cardinality(session.slots) + 1
        <4> HIDE DEF SlotRecord
        <4>1. /\ IsFiniteSet(session.slots \cup {SlotRecord(e)})
              /\ Cardinality(session.slots \cup {SlotRecord(e)}) =
                   IF SlotRecord(e) \in session.slots THEN Cardinality(session.slots)
                   ELSE Cardinality(session.slots) + 1
          BY <2>1, FS_AddElement
        <4> QED BY <2>2, <3>1, <4>1
      <3>3. Cardinality(session'.slots) \in Nat BY <3>2, FS_CardinalityType
      <3> QED BY <2>2, <3>1, <3>2, <3>3
    <2>4. CASE e.type # "slot_claimed"
      <3>1. session'.slots \subseteq session.slots BY <2>4, NewSlot
      <3>2. IsFiniteSet(session'.slots) /\ Cardinality(session'.slots) <= Cardinality(session.slots)
        BY <2>1, <3>1, FS_Subset
      <3>3. Cardinality(session'.slots) \in Nat BY <3>2, FS_CardinalityType
      <3> QED BY <2>1, <2>2, <3>2, <3>3
    <2> QED BY <2>3, <2>4
  <1>2. ASSUME NEW x \in session'.claims, NEW y \in session'.claims, x # y PROVE ~Collides(x.actor, y.actor)
    <2>1. \A u, v : Collides(u, v) <=> Collides(v, u)
      <3>1. \A u, v : {u[1], v[1]} = {v[1], u[1]} OBVIOUS
      <3> QED BY <3>1 DEF Collides
    <2>2. x \in session.claims \/ (e.type = "claim_granted" /\ x = ClaimRecord(e)) BY NewClaim
    <2>3. y \in session.claims \/ (e.type = "claim_granted" /\ y = ClaimRecord(e)) BY NewClaim
    <2>4. ClaimRecord(e).actor = ActorOf(e) BY DEF ClaimRecord
    <2>5. e.type = "claim_granted" => \A z \in session.claims : ~Collides(z.actor, ActorOf(e)) BY DEF Entry
    <2> HIDE DEF Collides, ClaimRecord, Entry
    <2>6. CASE x \in session.claims /\ y \in session.claims BY <1>0, <1>2, <2>6 DEF BookOK
    <2>7. CASE x \in session.claims /\ e.type = "claim_granted" /\ y = ClaimRecord(e) BY <2>4, <2>5, <2>7
    <2>8. CASE y \in session.claims /\ e.type = "claim_granted" /\ x = ClaimRecord(e)
      BY <2>1, <2>4, <2>5, <2>8
    <2> QED BY <1>2, <2>2, <2>3, <2>6, <2>7, <2>8
  <1>3. ASSUME NEW x \in session'.slots PROVE x.actor[1] \in session'.barriers[x.group].required
    <2>1. CASE x \in session.slots
      <3>1. x.group \in Commands BY <2>1 DEF Inv, Types, SessionType
      <3>2. x.actor[1] \in session.barriers[x.group].required BY <1>0, <2>1 DEF BookOK
      <3> HIDE DEF Entry
      <3> QED BY <3>1, <3>2, RequiredGrows
    <2>2. CASE e.type = "slot_claimed" /\ x = SlotRecord(e)
      <3>1. e.group \in Commands /\ ActorOf(e)[1] = e.d BY <2>2, EntryActor
      <3>2. e.d \in session.barriers[e.group].required BY <2>2 DEF Entry, HeadOK
      <3>3. x.group = e.group /\ x.actor = ActorOf(e) BY <2>2 DEF SlotRecord
      <3> HIDE DEF Entry
      <3> QED BY <3>1, <3>2, <3>3, RequiredGrows
    <2> QED BY <2>1, <2>2, NewSlot
  <1>4. ASSUME NEW x \in session'.claims PROVE x.actor[1] \in session'.barriers[x.group].required
    <2>1. CASE x \in session.claims
      <3>1. x.group \in Commands BY <2>1 DEF Inv, Types, SessionType
      <3>2. x.actor[1] \in session.barriers[x.group].required BY <1>0, <2>1 DEF BookOK
      <3> HIDE DEF Entry
      <3> QED BY <3>1, <3>2, RequiredGrows
    <2>2. CASE e.type = "claim_granted" /\ x = ClaimRecord(e)
      <3>1. e.group \in Commands /\ ActorOf(e)[1] = e.d BY <2>2, EntryActor
      <3>2. e.d \in session.barriers[e.group].required BY <2>2 DEF Entry, HeadOK
      <3>3. x.group = e.group /\ x.actor = ActorOf(e) BY <2>2 DEF ClaimRecord
      <3> HIDE DEF Entry
      <3> QED BY <3>1, <3>2, <3>3, RequiredGrows
    <2> QED BY <2>1, <2>2, NewClaim
  <1>5. ASSUME NEW b \in Commands, session'.barriers[b].status = "none"
        PROVE  session'.barriers[b].required = {}
    <2>1. session.barriers[b].status = "none" /\ ~(e.type = "barrier_requested" /\ b = e.group)
      BY <1>5 DEF Entry, Books
    <2>2. session'.barriers[b].required = session.barriers[b].required BY <2>1 DEF Entry, Books
    <2> QED BY <1>0, <2>1, <2>2 DEF BookOK
  <1> HIDE DEF Collides
  <1> QED BY <1>1, <1>2, <1>3, <1>4, <1>5 DEF BookOK

\* A clean cancellation is that of an operation that was cancelled.
LEMMA CleanGrows ==
  ASSUME Inv, Admission, NEW e, Entry(e), Fits(session, e), Admissible(session, e),
         session' = Apply(session, e)
  PROVE  CleanIsCancelled'
  <1> SUFFICES ASSUME NEW d \in Delegations, NEW i \in DOMAIN session'.attempts[d],
                      Clean(session'.attempts[d][i])
               PROVE  op[<<d, session'.attempts[d][i].actor>>].failure = "cancelled"
    BY DEF CleanIsCancelled, Entry
  <1>1. session \in SessionType /\ SessionOK(session) /\ e \in Event /\ HeadOK(e) BY DEF Inv, Types, Entry
  <1>2. NoEffect(session'.attempts[d][i]) BY DEF Clean, NoEffect
  <1>3. \/ /\ i \in DOMAIN session.attempts[d] /\ NoEffect(session.attempts[d][i])
           /\ session'.attempts[d][i].actor = session.attempts[d][i].actor
           /\ session'.attempts[d][i].terminal = session.attempts[d][i].terminal
        \/ Unended(session, d, i, e)
    <2> HIDE DEF Apply, Admissible, Fits, NoEffect, Unended, SessionType, Entry, HeadOK, Clean
    <2> QED BY <1>1, <1>2, NoEffectEvent
  <1>4. session'.attempts[d][i].terminal = "cancelled_clean" BY DEF Clean
  <1>5. CASE /\ i \in DOMAIN session.attempts[d] /\ NoEffect(session.attempts[d][i])
             /\ session'.attempts[d][i].actor = session.attempts[d][i].actor
             /\ session'.attempts[d][i].terminal = session.attempts[d][i].terminal
    <2>1. Clean(session.attempts[d][i]) BY <1>4, <1>5 DEF NoEffect, Clean
    <2> QED BY <1>5, <2>1 DEF Admission, CleanIsCancelled
  <1>6. CASE Unended(session, d, i, e)
    <2>1. /\ d = e.d /\ e.n # 0 /\ session'.attempts[d][i].actor = e.n
          /\ e.type \in {"terminal", "pre_effect_cancelled"} /\ e.type # "terminal"
      BY <1>4, <1>6 DEF Unended
    <2>2. op[ActorOf(e)].failure = "cancelled" BY <1>1, <2>1 DEF HeadOK
    <2> QED BY <2>1, <2>2 DEF ActorOf
  <1> QED BY <1>3, <1>5, <1>6

LEMMA LearnedMore ==
  ASSUME Inv, Admission, NEW e, Entry(e), NEW t, NEW w, NEW d \in Delegations, t.n \in 1..2, Learned(t, w, d)
  PROVE  Learned(t, w, d)'
  <1> DEFINE a == <<d, t.n>>
  <1>1. a \in Actors BY DEF Actors
  <1>2. Safe(a) => Safe(a)'
    <2> HIDE DEF Safe, Entry
    <2> QED BY <1>1, SafeGrows
  <1>3. op' = op /\ child' = child BY DEF Entry
  <1> HIDE DEF Safe
  <1> QED BY <1>2, <1>3 DEF Learned, Proven

LEMMA LaunchGrows ==
  ASSUME Inv, Admission, NEW e, Entry(e), NEW h \in Commands, NEW d \in Delegations,
         thr'[h][d] = thr[h][d], cmd'[h].pc = "run" => cmd[h].pc = "run",
         thr[h][d].pc = "holding" => writer'.then = writer.then
  PROVE  LaunchSafe(h, d)'
  <1> SUFFICES ASSUME cmd'[h].pc = "run", thr'[h][d].pc # "idle"
               PROVE  Learned(thr[h][d], Where(h, d), d)'
    BY DEF LaunchSafe
  <1>1. PICK t : t = thr[h][d] OBVIOUS
  <1>2. PICK w : w = Where(h, d) OBVIOUS
  <1>3. t = thr'[h][d] /\ w = Where(h, d)' BY <1>1, <1>2 DEF Where
  <1>4. t.n \in 1..2 BY <1>1, LaunchKnows
  <1>5. Learned(t, w, d) BY <1>1, <1>2 DEF Admission, LaunchSafe
  <1>6. Learned(t, w, d)'
    <2> HIDE DEF Learned, Entry
    <2> QED BY <1>4, <1>5, LearnedMore
  <1> QED BY <1>3, <1>6 DEF Learned, Safe, Holds, SlotsOf, Bypassed, Spent

\* Bookings are of the group that holds the writer.
LEMMA UnbookedGrows ==
  ASSUME NEW e, Entry(e), NEW h, Unbooked(session, h), ~(writer.by = h /\ writer.then \in {"run", "launch"})
  PROVE  Unbooked(session, h)'
  <1>1. e.type \in {"slot_claimed", "claim_granted"} => e.group # h BY DEF Entry, HeadOK
  <1>2. ASSUME NEW x \in session'.slots PROVE x.group # h
    <2>1. CASE x \in session.slots BY <2>1 DEF Unbooked
    <2>2. CASE e.type = "slot_claimed" /\ x = SlotRecord(e) BY <1>1, <2>2 DEF SlotRecord
    <2> QED BY <2>1, <2>2, NewSlot
  <1>3. ASSUME NEW x \in session'.claims PROVE x.group # h
    <2>1. CASE x \in session.claims BY <2>1 DEF Unbooked
    <2>2. CASE e.type = "claim_granted" /\ x = ClaimRecord(e) BY <1>1, <2>2 DEF ClaimRecord
    <2> QED BY <2>1, <2>2, NewClaim
  <1>4. ASSUME NEW d \in Delegations, NEW n \in 1..2 PROVE session'.claimed[d][n] # h
    <2>1. session'.claimed[d][n] = IF e.type = "slot_claimed" /\ d = e.d /\ n = e.n THEN e.group
                                   ELSE session.claimed[d][n]
      BY DEF Entry, Books
    <2> QED BY <1>1, <2>1 DEF Unbooked
  <1> QED BY <1>2, <1>3, <1>4 DEF Unbooked

LEMMA FreshDoesNotBook ==
  ASSUME Inv, writer.by # 0, NEW h \in Commands, Fresh(h)
  PROVE  ~(writer.by = h /\ writer.then \in {"run", "launch"})
  BY AdmissionHolder DEF Fresh

LEMMA AbandonedGrows ==
  ASSUME Inv, Admission, writer.by # 0, NEW e, Entry(e), NEW b \in Commands, Past(b), Abandoned(session, b)
  PROVE  Abandoned(session, b)'
  <1>1. writer.by = b => writer.then # "run" BY AdmissionHolder DEF Past
  <1>2. e.type \in {"slot_claimed", "claim_granted"} /\ e.group = b => e.n = 2 \/ Spent(ActorOf(e))
    <2> HIDE DEF Spent
    <2> QED BY <1>1 DEF Entry, HeadOK
  <1>3. e.type \in {"slot_claimed", "claim_granted"} => ActorOf(e)[2] = e.n BY EntryActor
  <1>4. \A a : Spent(a)' <=> Spent(a) BY DEF Entry, Spent, Proven
  <1>5. ASSUME NEW x \in session'.slots, x.group = b, x.actor[2] = 1 PROVE Spent(x.actor)
    <2>1. CASE x \in session.slots BY <1>5, <2>1 DEF Abandoned
    <2>2. CASE e.type = "slot_claimed" /\ x = SlotRecord(e)
      <3>1. x.actor = ActorOf(e) /\ x.group = e.group BY <2>2 DEF SlotRecord
      <3>2. e.n # 2 BY <1>3, <1>5, <2>2, <3>1
      <3> HIDE DEF Spent
      <3> QED BY <1>2, <1>5, <2>2, <3>1, <3>2
    <2> QED BY <2>1, <2>2, NewSlot
  <1>6. ASSUME NEW x \in session'.claims, x.group = b, x.actor[2] = 1 PROVE Spent(x.actor)
    <2>1. CASE x \in session.claims BY <1>6, <2>1 DEF Abandoned
    <2>2. CASE e.type = "claim_granted" /\ x = ClaimRecord(e)
      <3>1. x.actor = ActorOf(e) /\ x.group = e.group BY <2>2 DEF ClaimRecord
      <3>2. e.n # 2 BY <1>3, <1>6, <2>2, <3>1
      <3> HIDE DEF Spent
      <3> QED BY <1>2, <1>6, <2>2, <3>1, <3>2
    <2> QED BY <2>1, <2>2, NewClaim
  <1> HIDE DEF Spent
  <1> QED BY <1>4, <1>5, <1>6 DEF Abandoned

LEMMA CommandGrows ==
  ASSUME Inv, Admission, writer.by # 0, NEW e, Entry(e), NEW h \in Commands, Alone(h),
         \A b \in Commands : Past(b) => Past(b)'
  PROVE  CommandSafe(h)'
  <1>1. CommandSafe(h) BY DEF Admission
  <1>2. Fresh(h)' => Fresh(h) BY AloneFacts
  <1>3. Fresh(h) /\ Unbooked(session, h) => Unbooked(session, h)'
    <2> HIDE DEF Fresh, Unbooked, Entry
    <2> QED BY FreshDoesNotBook, UnbookedGrows
  <1>4. PICK b : b = cmd[h].grp OBVIOUS
  <1>5. b \in Commands /\ Past(b) /\ Abandoned(session, b) => Past(b)' /\ Abandoned(session, b)'
    <2> HIDE DEF Past, Abandoned, Entry
    <2> QED BY AbandonedGrows
  <1>6. b = cmd'[h].grp BY <1>4 DEF Alone
  <1>7. session.barriers[h].required \subseteq session'.barriers[h].required
    <2> HIDE DEF Entry
    <2> QED BY RequiredGrows
  <1>8. cmd[h].pc \in {"seize", "adopt"} => b \in Commands /\ b # h /\ Past(b) /\ Abandoned(session, b)
    <2> HIDE DEF Past, Abandoned
    <2> QED BY <1>1, <1>4 DEF CommandSafe
  <1>9. cmd[h].pc \in {"seize", "adopt"} => b \in Commands /\ b # h /\ Past(b)' /\ Abandoned(session, b)'
    <2> HIDE DEF Past, Abandoned
    <2> QED BY <1>5, <1>8
  <1>10. cmd'[h].pc \in {"seize", "adopt"} => Past(cmd[h].grp)' /\ Abandoned(session, cmd[h].grp)'
    BY <1>6, <1>9 DEF Alone, Past, Abandoned, Spent
  <1>11. cmd'[h].pc = "run" => cmd'[h].adm \subseteq session'.barriers[h].required
    BY <1>1, <1>7 DEF CommandSafe, Alone
  <1>12. Fresh(h)' => Unbooked(session, h)'
    <2> HIDE DEF Fresh, Unbooked
    <2> QED BY <1>1, <1>2, <1>3 DEF CommandSafe
  <1>13. cmd'[h].pc \in {"seize", "adopt"} => cmd'[h].grp \in Commands /\ cmd'[h].grp # h
    BY <1>6, <1>9 DEF Alone
  <1> HIDE DEF Fresh, Past, Unbooked, Abandoned
  <1> QED BY <1>10, <1>11, <1>12, <1>13 DEF CommandSafe

LEMMA EntryIsSafe ==
  ASSUME Inv, Admission, NEW e, Entry(e), CleanIsCancelled',
         \A h \in Commands, d \in Delegations : LaunchSafe(h, d)',
         \A h \in Commands : CommandSafe(h)', WriterSafe'
  PROVE  Admission'
  <1>1. BookOK(session)'
    <2> HIDE DEF BookOK, Entry
    <2> QED BY BookGrows
  <1>2. ASSUME NEW a \in Actors, child'[a].state \in Live PROVE Safe(a)'
    <2>1. child[a].state \in Live BY <1>2 DEF Entry
    <2>2. Safe(a) BY <2>1 DEF Admission, LiveIsSafe
    <2> HIDE DEF Safe, Entry
    <2> QED BY <2>2, SafeGrows
  <1>3. ASSUME NEW a \in Actors, op'[a].state = "reconciled" PROVE Spent(a)'
    <2>1. op[a].state = "reconciled" BY <1>3 DEF Entry
    <2>2. Spent(a) BY <2>1 DEF Admission, ReconciledIsSpent
    <2> QED BY <2>2 DEF Entry, Spent, Proven
  <1>4. LiveIsSafe'
    <2> HIDE DEF Safe
    <2> QED BY <1>2 DEF LiveIsSafe
  <1>5. ReconciledIsSpent'
    <2> HIDE DEF Spent
    <2> QED BY <1>3 DEF ReconciledIsSpent
  <1> HIDE DEF LaunchSafe, CommandSafe, WriterSafe, BookOK, LiveIsSafe, ReconciledIsSpent, CleanIsCancelled, Entry
  <1> QED BY <1>1, <1>4, <1>5 DEF Admission

\* What an admission is waiting for comes: while it appends nothing is released.
Half(S, g, a) == \E x \in S : x.actor = a /\ x.group = g

LEMMA HalfGrows ==
  ASSUME NEW e, Entry(e), writer.then \in {"run", "launch"}, NEW g, NEW a
  PROVE  /\ Half(session.slots, g, a) => Half(session'.slots, g, a)
         /\ Half(session.claims, g, a) => Half(session'.claims, g, a)
  <1>1. e.type \notin {"slot_released", "claim_released"} BY DEF Entry, HeadOK
  <1>2. \A x \in session.slots : x \in session'.slots BY <1>1, SlotKept
  <1>3. \A x \in session.claims : x \in session'.claims BY <1>1, ClaimKept
  <1> QED BY <1>2, <1>3 DEF Half

LEMMA HalfComes ==
  ASSUME NEW e, Entry(e), NEW g, g = writer.by, NEW d, NEW n, e.d = d, e.n = n
  PROVE  /\ e.type = "slot_claimed" => Half(session'.slots, g, <<d, n>>)
         /\ e.type = "claim_granted" => Half(session'.claims, g, <<d, n>>)
  <1>1. e.type \in {"slot_claimed", "claim_granted"} => e.group = g BY DEF Entry, HeadOK
  <1>2. ActorOf(e) = <<d, n>> BY DEF ActorOf
  <1>3. CASE e.type = "slot_claimed"
    <2>1. SlotRecord(e) \in session'.slots BY <1>3 DEF Entry, Books
    <2>2. SlotRecord(e).actor = <<d, n>> /\ SlotRecord(e).group = g BY <1>1, <1>2, <1>3 DEF SlotRecord
    <2> HIDE DEF SlotRecord
    <2> QED BY <1>3, <2>1, <2>2 DEF Half
  <1>4. CASE e.type = "claim_granted"
    <2>1. ClaimRecord(e) \in session'.claims BY <1>4 DEF Entry, Books
    <2>2. ClaimRecord(e).actor = <<d, n>> /\ ClaimRecord(e).group = g BY <1>1, <1>2, <1>4 DEF ClaimRecord
    <2> HIDE DEF ClaimRecord
    <2> QED BY <1>4, <2>1, <2>2 DEF Half
  <1> QED BY <1>3, <1>4

LEMMA HalfHolds ==
  ASSUME Inv', NEW g, NEW a, Half(session'.slots, g, a), Half(session'.claims, g, a)
  PROVE  Holds(a)'
  <1>1. PICK x \in session'.slots : x.actor = a /\ x.group = g BY DEF Half
  <1>2. PICK y \in session'.claims : y.actor = a /\ y.group = g BY DEF Half
  <1>3. y = [actor |-> a, group |-> g] BY <1>2 DEF Inv, Types, SessionType
  <1> QED BY <1>1, <1>2, <1>3 DEF Holds, SlotsOf

LEMMA ComingMore ==
  ASSUME Inv, NEW e, Entry(e), e = Head(writer.todo), writer.then \in {"run", "launch"},
         Len(writer.todo) > 1, NEW w, w.by = writer.by, w.todo = Tail(writer.todo),
         NEW d, NEW n, Coming(session, writer, <<d, n>>)
  PROVE  Coming(session', w, <<d, n>>)
  <1>1. writer.todo \in Seq(Event) BY DEF Inv, Types, WriterType
  <1>2. PICK q, g : q = writer.todo /\ g = writer.by OBVIOUS
  <1>3. /\ Half(session.slots, g, <<d, n>>) \/ Pending(q, "slot_claimed", <<d, n>>)
        /\ Half(session.claims, g, <<d, n>>) \/ Pending(q, "claim_granted", <<d, n>>)
    <2> HIDE DEF Pending
    <2> QED BY <1>2 DEF Coming, Half
  <1>4. ASSUME NEW type, Pending(q, type, <<d, n>>)
        PROVE  (e.type = type /\ e.d = d /\ e.n = n) \/ Pending(Tail(q), type, <<d, n>>)
    <2> HIDE DEF Event, Pending, Entry
    <2> QED BY <1>1, <1>2, <1>4, PendingTail
  <1>5. Half(session'.slots, g, <<d, n>>) \/ Pending(Tail(q), "slot_claimed", <<d, n>>)
    <2> HIDE DEF Half, Pending, Entry
    <2> QED BY <1>2, <1>3, <1>4, HalfGrows, HalfComes
  <1>6. Half(session'.claims, g, <<d, n>>) \/ Pending(Tail(q), "claim_granted", <<d, n>>)
    <2> HIDE DEF Half, Pending, Entry
    <2> QED BY <1>2, <1>3, <1>4, HalfGrows, HalfComes
  <1> HIDE DEF Pending
  <1> QED BY <1>2, <1>5, <1>6 DEF Coming, Half

LEMMA ComingLast ==
  ASSUME Inv, Inv', NEW e, Entry(e), e = Head(writer.todo), writer.then \in {"run", "launch"},
         Len(writer.todo) = 1, NEW d, NEW n, Coming(session, writer, <<d, n>>)
  PROVE  Half(session'.slots, writer.by, <<d, n>>) /\ Holds(<<d, n>>)'
  <1>1. writer.todo \in Seq(Event) BY DEF Inv, Types, WriterType
  <1>2. PICK q, g : q = writer.todo /\ g = writer.by OBVIOUS
  <1>3. /\ Half(session.slots, g, <<d, n>>) \/ Pending(q, "slot_claimed", <<d, n>>)
        /\ Half(session.claims, g, <<d, n>>) \/ Pending(q, "claim_granted", <<d, n>>)
    <2> HIDE DEF Pending
    <2> QED BY <1>2 DEF Coming, Half
  <1>4. ASSUME NEW type, Pending(q, type, <<d, n>>)
        PROVE  e.type = type /\ e.d = d /\ e.n = n
    <2> HIDE DEF Event, Pending, Entry
    <2> QED BY <1>1, <1>2, <1>4, PendingOne
  <1>5. Half(session'.slots, g, <<d, n>>)
    <2> HIDE DEF Half, Pending, Entry
    <2> QED BY <1>2, <1>3, <1>4, HalfGrows, HalfComes
  <1>6. Half(session'.claims, g, <<d, n>>)
    <2> HIDE DEF Half, Pending, Entry
    <2> QED BY <1>2, <1>3, <1>4, HalfGrows, HalfComes
  <1> HIDE DEF Half, Holds, Entry
  <1> QED BY <1>2, <1>5, <1>6, HalfHolds

\* What the rest of the list promises.
LEMMA PromisedTail ==
  ASSUME Inv, Admission, NEW e, Entry(e), e = Head(writer.todo), Len(writer.todo) > 1,
         NEW w, w.by = writer.by, w.then = writer.then, w.todo = Tail(writer.todo), NEW i \in DOMAIN w.todo
  PROVE  Promised(session, w, i)'
  <1>1. writer.todo \in Seq(Event) /\ writer.todo # <<>> BY DEF Inv, Types, WriterType
  <1>2. PICK q, p : q = writer.todo /\ p = w.todo OBVIOUS
  <1>3. /\ p \in Seq(Event) /\ \A j \in DOMAIN p : j + 1 \in DOMAIN q /\ p[j] = q[j + 1]
        /\ e = q[1]
    <2> HIDE DEF Event, Entry
    <2> QED BY <1>1, <1>2, Tails, Heads
  <1>4. PICK f : f = p[i] OBVIOUS
  <1>5. f \in Event /\ i \in Nat \ {0} /\ i + 1 \in DOMAIN q /\ f = q[i + 1] BY <1>2, <1>3, <1>4
  <1>6. Promised(session, writer, i + 1) BY <1>2, <1>5 DEF Admission, WriterSafe
  <1>7. /\ e.type = "barrier_requested" => e.group \in Commands
        /\ e.type = "takeover" => e.group \in Commands
        /\ f.type \in {"slot_claimed", "claim_granted"} => f.group \in Commands
    <2>1. e \in Event BY DEF Entry
    <2> QED BY <1>5, <2>1, EventFields
  <1>8. f.type \in {"slot_claimed", "claim_granted"} /\ Required(session, q, i + 1) => Required(session', p, i)
    <2> SUFFICES ASSUME f.type \in {"slot_claimed", "claim_granted"}, Required(session, q, i + 1)
                 PROVE  Required(session', p, i)
      OBVIOUS
    <2>1. CASE f.d \in session.barriers[f.group].required
      <3>1. f.d \in session'.barriers[f.group].required
        <4> HIDE DEF Entry
        <4> QED BY <1>7, <2>1, RequiredGrows
      <3> QED BY <1>4, <3>1 DEF Required
    <2>2. CASE \E j \in 1 .. (i + 1) - 1 : /\ q[j].type = "barrier_requested" /\ q[j].group = f.group
                                           /\ f.d \in q[j].required
      <3>1. PICK j \in 1 .. (i + 1) - 1 : /\ q[j].type = "barrier_requested" /\ q[j].group = f.group
                                          /\ f.d \in q[j].required
        BY <2>2
      <3>2. CASE j = 1
        <4>1. f.d \in session'.barriers[f.group].required
          <5>1. e.type = "barrier_requested" /\ e.group = f.group /\ f.d \in e.required BY <1>3, <3>1, <3>2
          <5> HIDE DEF Entry
          <5> QED BY <1>7, <5>1, RequiredGrows
        <4> QED BY <1>4, <4>1 DEF Required
      <3>3. CASE j # 1
        <4>1. j - 1 \in 1 .. i - 1 BY <1>5, <3>3
        <4>2. j - 1 \in DOMAIN p
          <5>1. i \in 1 .. Len(p) /\ Len(p) \in Nat BY <1>2, <1>3
          <5>2. DOMAIN p = 1 .. Len(p) BY <1>3
          <5> QED BY <4>1, <5>1, <5>2
        <4>3. (j - 1) + 1 = j BY <3>1, <1>5
        <4>4. p[j - 1] = q[j] BY <1>3, <4>2, <4>3
        <4> QED BY <1>4, <3>1, <4>1, <4>4 DEF Required
      <3> QED BY <3>2, <3>3
    <2> QED BY <1>5, <2>1, <2>2 DEF Required
  <1>9. Taken(session, f.group) \/ (q[1].type = "takeover" /\ q[1].group = f.group) => Taken(session', f.group)
    <2>1. Taken(session, f.group) => f.group \in Commands BY DEF Taken
    <2>2. q[1].type = "takeover" /\ q[1].group = f.group =>
            f.group \in Commands /\ e.type = "takeover" /\ e.group = f.group
      BY <1>3, <1>7
    <2> HIDE DEF Entry, Taken
    <2> QED BY <2>1, <2>2, RequiredGrows
  <1>10. (\A a : Spent(a)' <=> Spent(a)) /\ op' = op BY DEF Entry, Spent, Proven
  <1>11. writer.todo[i + 1] = f /\ w.todo[i] = f BY <1>2, <1>4, <1>5
  <1> HIDE DEF Required, Spent, Taken, ActorOf, Event, Entry
  <1>12. /\ f.type \in {"slot_claimed", "claim_granted"} =>
              /\ f.group = w.by /\ w.then \in {"run", "launch"} /\ Required(session', p, i)
              /\ w.then = "launch" => f.n = 2 \/ Spent(ActorOf(f))
         /\ f.type \in {"slot_released", "claim_released"} =>
              /\ w.then \notin {"run", "launch"}
              /\ Spent(ActorOf(f)) \/ (f.n = 2 /\ Taken(session', f.group))
         /\ f.type = "takeover" => f.to # f.group
         /\ f.type = "pre_effect_cancelled" /\ f.n # 0 => op[ActorOf(f)].failure = "cancelled"
    BY <1>2, <1>6, <1>8, <1>9, <1>11 DEF Promised
  <1> QED BY <1>2, <1>10, <1>11, <1>12 DEF Promised

-----------------------------------------------------------------------------
(* The append of one event: who goes on. *)

LEMMA SafeMore ==
  ASSUME Inv, Admission, writer.by # 0, NEW e, Entry(e), e = Head(writer.todo), CleanIsCancelled',
         Len(writer.todo) > 1, writer' = [writer EXCEPT !.todo = Tail(@)], UNCHANGED <<cmd, thr>>
  PROVE  Admission'
  <1>1. PICK w : writer' = w /\ w.by = writer.by /\ w.of = writer.of /\ w.then = writer.then
                 /\ w.todo = Tail(writer.todo)
    <2>1. writer \in WriterType BY DEF Inv, Types
    <2> QED BY <2>1 DEF WriterType
  <1>2. ASSUME NEW h \in Commands, NEW d \in Delegations PROVE LaunchSafe(h, d)'
    <2> HIDE DEF LaunchSafe, Entry
    <2> QED BY <1>1, LaunchGrows
  <1>3. \A h \in Commands : Alone(h) BY <1>1 DEF Alone
  <1>4. \A h \in Commands : Past(h) => Past(h)' BY <1>3, AloneFacts
  <1>5. ASSUME NEW h \in Commands PROVE CommandSafe(h)'
    <2> HIDE DEF CommandSafe, Entry, Alone, Past
    <2> QED BY <1>3, <1>4, CommandGrows
  <1>6. WriterSafe'
    <2>1. WriterSafe BY DEF Admission
    <2>2. ASSUME NEW i \in DOMAIN w.todo PROVE Promised(session, w, i)'
      <3> HIDE DEF Promised, Entry
      <3> QED BY <1>1, <2>2, PromisedTail
    <2>3. ASSUME NEW i \in DOMAIN w.todo PROVE Promised(session, writer, i)'
      BY <1>1, <2>2, <2>3 DEF Promised, Required, Taken, Spent
    <2>4. ASSUME writer.then \in {"run", "launch"}, NEW d, NEW n, Coming(session, writer, <<d, n>>)
          PROVE  Coming(session', w, <<d, n>>)
      <3> HIDE DEF Coming, Entry
      <3> QED BY <1>1, <2>4, ComingMore
    <2>5. PICK g, k, c, t : g = writer.by /\ k = writer.of /\ c = cmd /\ t = thr OBVIOUS
    <2>6. /\ w.then = "run" => \A d \in c[g].adm : Coming(session', w, <<d, t[g][d].n>>)
          /\ w.then = "launch" => Coming(session', w, <<k, t[g][k].n>>)
          /\ w.then = "run" => \A d \in Delegations : t[g][d].pc # "idle" =>
               t[g][d].pc = "launch" /\ t[g][d].first = t[g][d].n
      <3>1. /\ w.then = "run" => \A d \in c[g].adm : Coming(session, writer, <<d, t[g][d].n>>)
            /\ w.then = "launch" => Coming(session, writer, <<k, t[g][k].n>>)
            /\ w.then = "run" => \A d \in Delegations : t[g][d].pc # "idle" =>
                 t[g][d].pc = "launch" /\ t[g][d].first = t[g][d].n
        <4> HIDE DEF Coming, Promised
        <4> QED BY <1>1, <2>1, <2>5 DEF WriterSafe
      <3> HIDE DEF Coming
      <3> QED BY <1>1, <2>4, <3>1
    <2>7. w.by = g /\ w.of = k /\ c = cmd' /\ t = thr' BY <1>1, <2>5
    <2> HIDE DEF Coming, Promised
    <2> QED BY <1>1, <2>3, <2>6, <2>7 DEF WriterSafe
  <1> HIDE DEF LaunchSafe, CommandSafe, WriterSafe, CleanIsCancelled, Entry
  <1> QED BY <1>2, <1>5, <1>6, EntryIsSafe

\* The launch that held the writer goes on.
LEMMA LaunchLetsGo ==
  ASSUME Inv, Admission, NEW e, Entry(e), CleanIsCancelled',
         NEW g \in Commands, NEW d \in Delegations, g = writer.by, d = writer.of,
         NEW t \in LaunchType, Moves(g, d, t), UNCHANGED cmd, t.pc # "holding",
         cmd[g].pc = "run", thr[g][d].pc = "holding",
         WriterSafe', Learned(t, t.pc, d)'
  PROVE  Admission'
  <1>0. writer.by # 0 /\ writer.of # 0 BY DEF Commands, Delegations
  <1>1. /\ thr'[g][d] = t
        /\ \A h \in Commands, k \in Delegations : h # g \/ k # d => thr'[h][k] = thr[h][k]
    BY ThrUpdate DEF Inv
  <1>2. /\ \A h \in Commands, k \in Delegations : h # g \/ k # d => thr[h][k].pc # "holding"
        /\ \A h \in Commands : cmd[h].pc # "holding"
    BY <1>0, OthersDoNotHold
  <1>3. ASSUME NEW h \in Commands, NEW k \in Delegations, h # g \/ k # d PROVE LaunchSafe(h, k)'
    <2>1. thr'[h][k] = thr[h][k] /\ thr[h][k].pc # "holding" BY <1>1, <1>2, <1>3
    <2> HIDE DEF LaunchSafe, Entry
    <2> QED BY <2>1, LaunchGrows
  <1>4. LaunchSafe(g, d)'
    <2>1. t.pc = Where(g, d)' BY <1>1 DEF Where
    <2> QED BY <1>1, <2>1 DEF LaunchSafe, Learned, Safe, Holds, SlotsOf, Bypassed, Spent
  <1>5. \A h \in Commands : Alone(h) BY <1>2 DEF Alone
  <1>6. \A h \in Commands : Past(h) => Past(h)' BY <1>5, AloneFacts
  <1>7. ASSUME NEW h \in Commands PROVE CommandSafe(h)'
    <2> HIDE DEF CommandSafe, Entry, Alone, Past
    <2> QED BY <1>0, <1>5, <1>6, CommandGrows
  <1>8. \A h \in Commands, k \in Delegations : LaunchSafe(h, k)'
    <2> HIDE DEF LaunchSafe
    <2> QED BY <1>3, <1>4
  <1> HIDE DEF LaunchSafe, CommandSafe, WriterSafe, CleanIsCancelled, Entry
  <1> QED BY <1>7, <1>8, EntryIsSafe

\* What the launch knew when it took the writer.
LEMMA HeldLearned ==
  ASSUME Inv, Admission, NEW e, Entry(e), NEW g \in Commands, NEW d \in Delegations,
         cmd[g].pc = "run", thr[g][d].pc = "holding", NEW to, to = writer.then,
         NEW t, t.n = thr[g][d].n, t.first = thr[g][d].first, t.pc = to,
         to = "launch" => Safe(<<d, t.n>>)', to = "spawn" => child[<<d, t.n>>].state = "none"
  PROVE  Learned(t, to, d)'
  <1>1. PICK u : u = thr[g][d] OBVIOUS
  <1>2. u.n \in 1..2 BY <1>1, LaunchKnows
  <1>3. Learned(u, to, d)
    <2>1. Where(g, d) = to BY DEF Where
    <2>2. LaunchSafe(g, d) BY DEF Admission
    <2> HIDE DEF Learned
    <2> QED BY <1>1, <2>1, <2>2 DEF LaunchSafe
  <1>4. Learned(u, to, d)'
    <2> HIDE DEF Learned, Entry
    <2> QED BY <1>2, <1>3, LearnedMore
  <1>5. u.n = t.n /\ u.first = t.first /\ child' = child BY <1>1 DEF Entry
  <1> HIDE DEF Safe, Proven
  <1> QED BY <1>4, <1>5 DEF Learned

\* The start barrier keeps the writer.
LEMMA SafeStarting ==
  ASSUME Inv, Admission, writer.by # 0, NEW e, Entry(e), CleanIsCancelled', writer.todo # <<>>,
         writer.then = "sending", writer' = [writer EXCEPT !.todo = <<>>],
         Goto(writer.by, writer.of, "sending")
  PROVE  Admission'
  <1>0. writer.of # 0
    <2> SUFFICES ASSUME writer.of = 0 PROVE FALSE OBVIOUS
    <2>1. CommandHolds(writer.by)
      <3> HIDE DEF CommandHolds, LaunchHolds
      <3> QED BY WriterHolder
    <2> QED BY <2>1 DEF CommandHolds
  <1>1. PICK g \in Commands, d \in Delegations : g = writer.by /\ d = writer.of /\ LaunchHolds(g, d)
    <2> HIDE DEF CommandHolds, LaunchHolds
    <2> QED BY <1>0, WriterHolder
  <1>2. cmd[g].pc = "run" /\ thr[g][d].pc = "holding" BY <1>1 DEF LaunchHolds
  <1>3. "sending" \in LaunchSteps BY DEF LaunchSteps
  <1>4. Goto(g, d, "sending") BY <1>1
  <1>5. /\ UNCHANGED cmd
        /\ \E t \in LaunchType :
             Moves(g, d, t) /\ t.pc = "sending" /\ t.n = thr[g][d].n /\ t.first = thr[g][d].first
    <2> HIDE DEF Goto, Entry
    <2> QED BY <1>3, <1>4, GotoLaunch
  <1>6. PICK t \in LaunchType :
          Moves(g, d, t) /\ t.pc = "sending" /\ t.n = thr[g][d].n /\ t.first = thr[g][d].first
    BY <1>5
  <1>7. WriterSafe'
    <2>1. writer \in WriterType BY DEF Inv, Types
    <2>2. writer'.todo = <<>> /\ writer'.then = "sending" BY <2>1 DEF WriterType
    <2>3. DOMAIN writer'.todo = {} BY <2>2
    <2> QED BY <2>2, <2>3 DEF WriterSafe
  <1>8. PICK to : to = writer.then OBVIOUS
  <1>9. to = "sending" BY <1>8
  <1>10. Learned(t, "sending", d)'
    <2>1. Learned(t, to, d)'
      <3> HIDE DEF Learned, Entry, Safe
      <3> QED BY <1>2, <1>6, <1>8, <1>9, HeldLearned
    <2> QED BY <1>9, <2>1 DEF Learned
  <1> HIDE DEF LaunchSafe, CommandSafe, WriterSafe, CleanIsCancelled, Entry, Learned, Moves
  <1> QED BY <1>1, <1>2, <1>5, <1>6, <1>7, <1>10, LaunchLetsGo

\* The last event of a launch's hold.
LEMMA SafeLastOfLaunch ==
  ASSUME Inv, Inv', Admission, writer.by # 0, writer.of # 0, NEW e, Entry(e), CleanIsCancelled',
         e = Head(writer.todo), Len(writer.todo) = 1, writer.then # "sending",
         Lands(e.type, <<e.d, e.n>>),
         writer' = Free, Goto(writer.by, writer.of, writer.then)
  PROVE  Admission'
  <1>1. PICK g \in Commands, d \in Delegations : g = writer.by /\ d = writer.of /\ LaunchHolds(g, d)
    <2> HIDE DEF CommandHolds, LaunchHolds
    <2> QED BY WriterHolder
  <1>2. writer.todo \in Seq(Event) /\ writer.todo # <<>> BY DEF Inv, Types, WriterType
  <1>3. PICK to, n : to = writer.then /\ n = thr[g][d].n OBVIOUS
  <1>4. /\ cmd[g].pc = "run" /\ thr[g][d].pc = "holding" /\ to \in LaunchSteps \ {"holding", "idle"}
    BY <1>1, <1>2, <1>3 DEF LaunchHolds
  <1>5. n \in 1..2 /\ <<d, n>> \in Actors BY <1>3, <1>4, LaunchKnows
  <1>6. Goto(g, d, to) BY <1>1, <1>3
  <1>7. /\ UNCHANGED cmd
        /\ \E t \in LaunchType : Moves(g, d, t) /\ t.pc = to /\ t.n = n /\ t.first = thr[g][d].first
    <2> HIDE DEF Goto, Entry, Lands
    <2> QED BY <1>3, <1>4, <1>6, GotoLaunch
  <1>8. PICK t \in LaunchType : Moves(g, d, t) /\ t.pc = to /\ t.n = n /\ t.first = thr[g][d].first
    BY <1>7
  <1>9. to = "launch" => Safe(<<d, n>>)'
    <2> SUFFICES ASSUME to = "launch" PROVE Safe(<<d, n>>)' OBVIOUS
    <2>1. Coming(session, writer, <<d, n>>) BY <1>1, <1>3 DEF Admission, WriterSafe
    <2>2. Holds(<<d, n>>)'
      <3> HIDE DEF Coming, Entry, Holds, Half, Lands
      <3> QED BY <1>3, <2>1, ComingLast
    <2> QED BY <2>2 DEF Safe
  <1>10. to = "spawn" => child[<<d, n>>].state = "none"
    <2> SUFFICES ASSUME to = "spawn" PROVE child[<<d, n>>].state = "none" OBVIOUS
    <2> DEFINE x == OfAttempt("reserved", <<d, n>>)
               y == OfAttempt("launch_requested", <<d, n>>)
    <2>1. writer.todo = <<x, y>> \/ writer.todo = <<y>>
      <3> HIDE DEF IsClaimed, IsSettled, HasAttempt, Pending
      <3> QED BY <1>1, <1>3 DEF LaunchHolds
    <2>2. y.type = "launch_requested" /\ y.d = d /\ y.n = n BY DEF OfAttempt
    <2> HIDE DEF x, y
    <2>3. PICK p : p = writer.todo /\ Len(p) = 1 OBVIOUS
    <2>4. p = <<y>> BY <2>1, <2>3
    <2>5. e = y BY <2>3, <2>4
    <2>6. ~IsBound(session, <<d, n>>)
      <3> HIDE DEF IsBound
      <3> QED BY <2>2, <2>5 DEF Lands
    <2> QED BY <1>5, <2>6 DEF Inv, UnboundIsNew
  <1>11. Learned(t, to, d)'
    <2> HIDE DEF Learned, Entry, Safe, Lands
    <2> QED BY <1>3, <1>4, <1>8, <1>9, <1>10, HeldLearned
  <1>12. WriterSafe' BY FreeIsSafe
  <1>13. Learned(t, t.pc, d)' BY <1>8, <1>11 DEF Learned
  <1> HIDE DEF LaunchSafe, CommandSafe, WriterSafe, CleanIsCancelled, Entry, Learned, Moves, Lands, LaunchSteps
  <1> QED BY <1>1, <1>4, <1>7, <1>8, <1>12, <1>13, LaunchLetsGo

\* The last event of a command's hold.
LEMMA SafeLastOfCommand ==
  ASSUME Inv, Inv', Admission, writer.by # 0, writer.of = 0, NEW e, Entry(e), CleanIsCancelled',
         e = Head(writer.todo), Len(writer.todo) = 1, writer' = Free, Goto(writer.by, 0, writer.then)
  PROVE  Admission'
  <1>1. PICK g \in Commands : g = writer.by /\ CommandHolds(g)
    <2> HIDE DEF CommandHolds, LaunchHolds
    <2> QED BY WriterHolder
  <1>2. PICK to : to = writer.then OBVIOUS
  <1>3. /\ to \in {"run", "release", "done", "read", "reclaim", "yield"} /\ cmd[g].pc = "holding"
    BY <1>1, <1>2 DEF CommandHolds
  <1>4. Goto(g, 0, to) BY <1>1, <1>2
  <1>5. /\ cmd'[g].pc = to /\ (to = "run" => cmd'[g].adm = cmd[g].adm /\ thr' = thr)
        /\ \A h \in Commands : h # g => cmd'[h] = cmd[h] /\ thr'[h] = thr[h]
    <2>1. CASE to = "done"
      <3>1. Over(g) BY <1>4, <2>1 DEF Goto
      <3>2. PICK c \in CommandType : Comes(g, c) /\ c.pc = "done" BY <3>1, OverFacts
      <3>3. \A h \in Commands : h # g => thr'[h] = thr[h] BY <3>1, OverFacts, QuitsLaunches
      <3>4. cmd'[g] = c /\ \A h \in Commands : h # g => cmd'[h] = cmd[h] BY <3>2, ComesFacts
      <3> QED BY <2>1, <3>2, <3>3, <3>4
    <2>2. CASE to # "done"
      <3>1. cmd' = [cmd EXCEPT ![g].pc = to] /\ UNCHANGED thr BY <1>4, <2>2 DEF Goto
      <3>2. cmd \in [Commands -> CommandType] BY DEF Inv, Types
      <3>3. /\ cmd'[g] = [cmd[g] EXCEPT !.pc = to]
            /\ \A h \in Commands : h # g => cmd'[h] = cmd[h]
        <4> HIDE DEF CommandType
        <4> QED BY <3>1, <3>2
      <3>4. cmd'[g].pc = to /\ cmd'[g].adm = cmd[g].adm BY <3>2, <3>3 DEF CommandType
      <3> QED BY <3>1, <3>3, <3>4
    <2> QED BY <2>1, <2>2
  <1>6. /\ \A h \in Commands, k \in Delegations : h # g => thr[h][k].pc # "holding"
        /\ \A h \in Commands : h # g => cmd[h].pc # "holding"
    BY <1>1, OthersDoNotHold
  <1>7. \A h \in Commands : h # g => Alone(h) BY <1>5, <1>6 DEF Alone
  <1>8. \A h \in Commands : Past(h) => Past(h)'
    <2>1. ASSUME NEW h \in Commands, h # g PROVE Past(h) => Past(h)' BY <1>7, <2>1, AloneFacts
    <2>2. Past(g) => Past(g)' BY <1>2, <1>3, <1>5 DEF Past
    <2> HIDE DEF Past
    <2> QED BY <2>1, <2>2
  <1>9. ASSUME to = "run", NEW d, NEW n, Coming(session, writer, <<d, n>>)
        PROVE  Half(session'.slots, g, <<d, n>>) /\ Safe(<<d, n>>)'
    <2>1. Half(session'.slots, g, <<d, n>>) /\ Holds(<<d, n>>)'
      <3> HIDE DEF Coming, Entry, Holds, Half
      <3> QED BY <1>1, <1>2, <1>9, ComingLast
    <2> QED BY <2>1 DEF Safe
  <1>10. to = "run" => \A d \in cmd[g].adm : Coming(session, writer, <<d, thr[g][d].n>>)
    <2> HIDE DEF Coming, Promised
    <2> QED BY <1>1, <1>2 DEF Admission, WriterSafe
  <1>11. ASSUME NEW h \in Commands, NEW d \in Delegations, h # g PROVE LaunchSafe(h, d)'
    <2>1. thr'[h] = thr[h] /\ cmd'[h] = cmd[h] /\ thr[h][d].pc # "holding" BY <1>5, <1>6, <1>11
    <2> HIDE DEF LaunchSafe, Entry
    <2> QED BY <2>1, LaunchGrows
  <1>12. ASSUME NEW d \in Delegations PROVE LaunchSafe(g, d)'
    <2> SUFFICES ASSUME cmd'[g].pc = "run", thr'[g][d].pc # "idle"
                 PROVE  Learned(thr[g][d], Where(g, d), d)'
      BY DEF LaunchSafe
    <2>1. to = "run" /\ thr' = thr BY <1>5
    <2>2. PICK t : t = thr[g][d] OBVIOUS
    <2>3. t.pc = "launch" /\ t.first = t.n
      <3> HIDE DEF Coming, Promised
      <3> QED BY <1>1, <1>2, <2>1, <2>2 DEF Admission, WriterSafe
    <2>4. d \in cmd[g].adm /\ t.n \in 1..2
      <3>1. LaunchOK(g, d) BY DEF Inv
      <3> QED BY <2>2, <2>3, <3>1 DEF LaunchOK
    <2>5. Coming(session, writer, <<d, t.n>>)
      <3> HIDE DEF Coming
      <3> QED BY <1>10, <2>1, <2>2, <2>4
    <2>6. Safe(<<d, t.n>>)'
      <3> HIDE DEF Safe, Coming, Half
      <3> QED BY <1>9, <2>1, <2>5
    <2>7. Learned(t, "launch", d)'
      <3> HIDE DEF Safe, Proven
      <3> QED BY <2>3, <2>4, <2>6 DEF Learned
    <2>8. t = thr'[g][d] /\ Where(g, d)' = "launch" BY <2>1, <2>2, <2>3 DEF Where
    <2> QED BY <2>7, <2>8 DEF Learned, Safe, Holds, SlotsOf, Bypassed, Spent
  <1>13. CommandSafe(g)'
    <2>1. cmd'[g].pc = "run" => cmd'[g].adm \subseteq session'.barriers[g].required
      <3> SUFFICES ASSUME cmd'[g].pc = "run", NEW d \in cmd[g].adm
                   PROVE  d \in session'.barriers[g].required
        BY <1>5
      <3>1. PICK n : n = thr[g][d].n OBVIOUS
      <3>2. to = "run" /\ Coming(session, writer, <<d, n>>)
        <4> HIDE DEF Coming
        <4> QED BY <1>5, <1>10, <3>1
      <3>3. Half(session'.slots, g, <<d, n>>)
        <4> HIDE DEF Coming, Safe, Half
        <4> QED BY <1>9, <3>2
      <3>4. PICK x \in session'.slots : x.actor = <<d, n>> /\ x.group = g BY <3>3 DEF Half
      <3>5. BookOK(session)'
        <4> HIDE DEF BookOK, Entry
        <4> QED BY BookGrows
      <3>6. x.actor[1] \in session'.barriers[x.group].required BY <3>4, <3>5 DEF BookOK
      <3> QED BY <3>4, <3>6
    <2>2. Fresh(g)' => Unbooked(session, g)'
      <3>1. Fresh(g)' => Fresh(g) BY <1>2, <1>3, <1>5 DEF Fresh
      <3>2. CommandSafe(g) BY DEF Admission
      <3>3. Fresh(g) => Unbooked(session, g)
        <4> HIDE DEF Fresh, Unbooked
        <4> QED BY <3>2 DEF CommandSafe
      <3> HIDE DEF Fresh, Unbooked, Entry
      <3> QED BY <3>1, <3>3, FreshDoesNotBook, UnbookedGrows
    <2>3. cmd'[g].pc \notin {"seize", "adopt"} BY <1>3, <1>5
    <2> HIDE DEF Fresh, Unbooked
    <2> QED BY <2>1, <2>2, <2>3 DEF CommandSafe
  <1>14. ASSUME NEW h \in Commands PROVE CommandSafe(h)'
    <2>1. CASE h = g BY <1>13, <2>1
    <2>2. CASE h # g
      <3> HIDE DEF Alone, Past, Entry, CommandSafe
      <3> QED BY <1>7, <1>8, <2>2, CommandGrows
    <2> QED BY <2>1, <2>2
  <1>15. \A h \in Commands, d \in Delegations : LaunchSafe(h, d)'
    <2> HIDE DEF LaunchSafe
    <2> QED BY <1>11, <1>12
  <1>16. WriterSafe' BY FreeIsSafe
  <1> HIDE DEF LaunchSafe, CommandSafe, WriterSafe, CleanIsCancelled, Entry
  <1> QED BY <1>14, <1>15, <1>16, EntryIsSafe

\* A launch whose event is refused lets the writer go without having written.
LEMMA LaunchDrops ==
  ASSUME Inv, Admission, UNCHANGED <<session, cmd, op, child>>, NEW g \in Commands, NEW d \in Delegations,
         cmd[g].pc = "run", thr[g][d].pc = "holding", NEW t \in LaunchType, Moves(g, d, t),
         t.pc \in {"fail", "rejected"}, t.n = thr[g][d].n, t.first = thr[g][d].first, WriterTurns(g, d, t)
  PROVE  Admission'
  <1>1. PICK n : n = thr[g][d].n OBVIOUS
  <1>2. PICK w : w = t.pc OBVIOUS
  <1>3. w = IF t.pc = "holding" THEN writer'.then ELSE t.pc BY <1>2
  <1>4. w \notin {"spawn", "recover", "reconcile", "release", "prepare", "readmit", "import", "receipt", "settle",
                  "fulfilled"} /\ t.pc \notin {"launch", "spawn"}
    BY <1>2
  <1>5. /\ w = "spawn" => Safe(<<d, n>>)
        /\ w \in {"recover", "reconcile"} => Proven(op, <<d, n>>)
        /\ w \in {"release", "prepare", "readmit"} => op[<<d, n>>].failure = "infra"
        /\ w \in {"import", "receipt", "settle", "fulfilled"} => child[<<d, n>>].state = "finished"
        /\ thr[g][d].pc # "idle"
    BY <1>4
  <1> HIDE DEF WriterTurns, Proven, Safe, Moves
  <1> QED BY <1>1, <1>3, <1>4, <1>5, JustPasses

\* The projector refuses the event: the session stays as it is.
LEMMA SafeRefused ==
  ASSUME Inv, Admission, writer.by # 0, writer.todo # <<>>, writer' = Free,
         Goto(writer.by, writer.of, writer.refused), UNCHANGED <<session, op, child>>
  PROVE  Admission'
  <1>1. AllKept BY KeptAll
  <1>2. SameBook BY SessionSame
  <1>3. WriterSafe' BY FreeIsSafe
  <1>4. CASE writer.of = 0
    <2>1. PICK g \in Commands : g = writer.by /\ CommandHolds(g)
      <3> HIDE DEF CommandHolds, LaunchHolds
      <3> QED BY <1>4, WriterHolder
    <2>2. writer.refused = "done" BY <2>1 DEF CommandHolds
    <2>3. Over(g) BY <1>4, <2>1, <2>2 DEF Goto
    <2>4. PICK c \in CommandType : Comes(g, c) /\ c.pc = "done" BY <2>3, OverFacts
    <2>5. \A h \in Commands : h # g => thr'[h] = thr[h] BY <2>3, OverFacts, QuitsLaunches
    <2>6. cmd'[g] = c BY <2>4, ComesFacts
    <2>7. Past(g)' /\ ~Fresh(g)' BY <2>4, <2>6 DEF Past, Fresh
    <2>8. WriterLeaves(g, c) BY <2>1, <2>4 DEF WriterLeaves
    <2> HIDE DEF AllKept, SameBook, WriterSafe, Comes, Past, Fresh, WriterLeaves, Takes
    <2> QED BY <1>1, <1>2, <1>3, <2>4, <2>5, <2>7, <2>8, CommandAdvances
  <1>5. CASE writer.of # 0
    <2>1. PICK g \in Commands, d \in Delegations : g = writer.by /\ d = writer.of /\ LaunchHolds(g, d)
      <3> HIDE DEF CommandHolds, LaunchHolds
      <3> QED BY <1>5, WriterHolder
    <2>2. PICK n, to : n = thr[g][d].n /\ to = writer.refused OBVIOUS
    <2>3. to \in {"fail", "rejected"} /\ cmd[g].pc = "run" /\ thr[g][d].pc = "holding"
      BY <2>1, <2>2 DEF LaunchHolds
    <2>4. to \in LaunchSteps BY <2>3 DEF LaunchSteps
    <2>5. Goto(g, d, to) BY <2>1, <2>2
    <2>6. /\ UNCHANGED cmd
          /\ \E t \in LaunchType : Moves(g, d, t) /\ t.pc = to /\ t.n = n /\ t.first = thr[g][d].first
      <3> HIDE DEF Goto
      <3> QED BY <2>2, <2>4, <2>5, GotoLaunch
    <2>7. PICK t \in LaunchType : Moves(g, d, t) /\ t.pc = to /\ t.n = n /\ t.first = thr[g][d].first
      BY <2>6
    <2>8. WriterTurns(g, d, t) BY <2>1 DEF WriterTurns
    <2>9. UNCHANGED <<session, cmd, op, child>> BY <2>6
    <2>10. thr[g][d].pc # "idle" /\ cmd[g].pc = "run" BY <2>3
    <2>11. t.pc \in {"fail", "rejected"} /\ thr[g][d].pc = "holding" BY <2>3, <2>7
    <2>12. t.n = thr[g][d].n /\ t.first = thr[g][d].first /\ Moves(g, d, t) BY <2>2, <2>7
    <2> HIDE DEF WriterTurns, Proven, Safe, Moves, Goto, Free
    <2> QED BY <2>8, <2>9, <2>10, <2>11, <2>12, LaunchDrops
  <1> QED BY <1>4, <1>5

LEMMA SafeAppendEvent ==
  ASSUME Inv, Inv', Admission, AppendEvent
  PROVE  Admission'
  <1>1. writer.by # 0 /\ writer.todo # <<>> /\ UNCHANGED <<op, child>> BY DEF AppendEvent
  <1>2. writer.todo \in Seq(Event) BY DEF Inv, Types, WriterType
  <1>3. Len(writer.todo) \in Nat /\ Len(writer.todo) >= 1 BY <1>1, <1>2, Heads
  <1>4. Len(writer.todo) = 1 \/ Len(writer.todo) > 1
    <2>1. \A k \in Nat : k >= 1 => k = 1 \/ k > 1 OBVIOUS
    <2> QED BY <1>3, <2>1
  <1>5. CASE ~Admissible(session, Head(writer.todo))
    <2>1. writer' = Free /\ Goto(writer.by, writer.of, writer.refused) /\ UNCHANGED session
      <3> HIDE DEF Admissible, Goto
      <3> QED BY <1>5 DEF AppendEvent
    <2> HIDE DEF Goto
    <2> QED BY <1>1, <2>1, SafeRefused
  <1>6. CASE Admissible(session, Head(writer.todo))
    <2>1. /\ session' = Apply(session, Head(writer.todo))
          /\ IF Len(writer.todo) > 1
             THEN writer' = [writer EXCEPT !.todo = Tail(@)] /\ UNCHANGED <<cmd, thr>>
             ELSE /\ writer' = IF writer.then = "sending" THEN [writer EXCEPT !.todo = <<>>] ELSE Free
                  /\ Goto(writer.by, writer.of, writer.then)
      <3> HIDE DEF Admissible, Goto, Apply
      <3> QED BY <1>6 DEF AppendEvent, KeepsWriter
    <2>2. PICK e : e = Head(writer.todo) OBVIOUS
    <2>3. Admissible(session, e) /\ session' = Apply(session, e) BY <1>6, <2>1, <2>2
    <2> HIDE DEF Admissible, Apply
    <2>4. Entry(e) /\ Fits(session, e)
      <3> HIDE DEF Entry, Fits
      <3> QED BY <1>1, <2>2, <2>3, Enters, HeadFits
    <2>5. CleanIsCancelled'
      <3> HIDE DEF Entry, Fits, CleanIsCancelled
      <3> QED BY <2>3, <2>4, CleanGrows
    <2>6. Lands(e.type, <<e.d, e.n>>)
      <3> HIDE DEF Lands, Entry, Fits
      <3> QED BY <1>1, <2>2, <2>3, AppendLands
    <2> HIDE DEF Lands, Entry, Fits, CleanIsCancelled, Goto
    <2>7. CASE Len(writer.todo) > 1 BY <1>1, <2>1, <2>2, <2>4, <2>5, <2>7, SafeMore
    <2>8. CASE ~(Len(writer.todo) > 1)
      <3>1. Len(writer.todo) = 1 BY <1>4, <2>8
      <3>2. Goto(writer.by, writer.of, writer.then) BY <2>1, <2>8
      <3>3. CASE writer.then = "sending"
        <4>1. writer' = [writer EXCEPT !.todo = <<>>] BY <2>1, <2>8, <3>3
        <4>2. Goto(writer.by, writer.of, "sending") BY <3>2, <3>3
        <4> QED BY <1>1, <2>4, <2>5, <3>3, <4>1, <4>2, SafeStarting
      <3>4. CASE writer.then # "sending"
        <4>1. writer' = Free BY <2>1, <2>8, <3>4
        <4>2. CASE writer.of = 0
          <5>1. Goto(writer.by, 0, writer.then) BY <3>2, <4>2
          <5> QED BY <1>1, <2>2, <2>4, <2>5, <3>1, <4>1, <4>2, <5>1, SafeLastOfCommand
        <4>3. CASE writer.of # 0
          BY <1>1, <2>2, <2>4, <2>5, <2>6, <3>1, <3>2, <3>4, <4>1, <4>3, SafeLastOfLaunch
        <4> QED BY <4>2, <4>3
      <3> QED BY <3>3, <3>4
    <2> QED BY <2>7, <2>8
  <1> QED BY <1>5, <1>6
-----------------------------------------------------------------------------
(* The induction. *)

LEMMA InitAdmission == Init => Admission
  <1> SUFFICES ASSUME Init PROVE Admission OBVIOUS
  <1>1. BookOK(session)
    <2>1. session.slots = {} /\ session.claims = {} BY DEF Init
    <2>2. \A b \in Commands : session.barriers[b].required = {} BY DEF Init
    <2>3. IsFiniteSet({}) /\ Cardinality({}) = 0 BY FS_EmptySet
    <2>4. IsFiniteSet(session.slots) /\ Cardinality(session.slots) <= 2 BY <2>1, <2>3
    <2> QED BY <2>1, <2>2, <2>4 DEF BookOK
  <1>2. LiveIsSafe
    <2>1. \A a \in Actors : child[a].state = "none" BY DEF Init
    <2> QED BY <2>1 DEF LiveIsSafe, Live
  <1>3. ReconciledIsSpent
    <2>1. \A a \in Actors : op[a].state = "none" BY DEF Init
    <2> QED BY <2>1 DEF ReconciledIsSpent
  <1>4. CleanIsCancelled
    <2>1. \A d \in Delegations : DOMAIN session.attempts[d] = {} BY DEF Init
    <2> QED BY <2>1 DEF CleanIsCancelled
  <1>5. \A g \in Commands, d \in Delegations : LaunchSafe(g, d)
    <2>1. \A g \in Commands : cmd[g].pc = "unused" BY DEF Init, Unused
    <2> QED BY <2>1 DEF LaunchSafe
  <1>6. ASSUME NEW g \in Commands PROVE CommandSafe(g)
    <2>1. cmd[g].pc = "unused" BY DEF Init, Unused
    <2>2. session.slots = {} /\ session.claims = {} BY DEF Init
    <2>3. \A d \in Delegations, n \in 1..2 : session.claimed[d][n] = 0 BY DEF Init
    <2>4. g # 0 BY DEF Commands
    <2>5. Unbooked(session, g) BY <2>2, <2>3, <2>4 DEF Unbooked
    <2> QED BY <2>1, <2>5 DEF CommandSafe
  <1>7. WriterSafe BY DEF Init, Free, WriterSafe
  <1> HIDE DEF Init, BookOK, LiveIsSafe, ReconciledIsSpent, CleanIsCancelled, LaunchSafe, CommandSafe, WriterSafe
  <1> QED BY <1>1, <1>2, <1>3, <1>4, <1>5, <1>6, <1>7 DEF Admission

LEMMA StutterAdmission == ASSUME Inv, Admission, UNCHANGED vars PROVE Admission'
  <1>1. UNCHANGED <<session, writer, op, child, cmd, thr>> BY DEF vars
  <1>2. AllKept BY <1>1, KeptAll
  <1>3. SameBook BY <1>1, SessionSame
  <1> HIDE DEF AllKept, SameBook
  <1> QED BY <1>1, <1>2, <1>3, QuietSafe

LEMMA NextAdmission == Inv /\ Admission /\ [Next]_vars => Admission'
  <1> SUFFICES ASSUME Inv, Admission, [Next]_vars PROVE Admission' OBVIOUS
  <1> HIDE DEF Inv, Admission
  <1>1. CASE UNCHANGED vars BY <1>1, StutterAdmission
  <1>2. CASE AppendEvent
    <2>1. Inv' BY <1>2, StepAppendEvent
    <2> QED BY <1>2, <2>1, SafeAppendEvent
  <1>3. ASSUME NEW d \in Delegations, Decide(d) \/ Enqueue(d) \/ PrepareEnvelope(d) \/ Cancel(d) PROVE Admission'
    BY <1>3, SafeUser
  <1>4. ASSUME NEW g \in Commands, Begin(g) \/ Command(g) \/ Abort(g) \/ Crash(g) \/ Exit(g) PROVE Admission'
    <2>1. CASE Begin(g) BY <2>1, SafeBegin
    <2>2. CASE Abort(g) BY <2>2, SafeAbort
    <2>3. CASE Crash(g) \/ Exit(g) BY <2>3, SafeDies
    <2>4. CASE Command(g)
      BY <2>4, SafeRead, SafeCommandGoes, SafeAdmitGroup, SafeAppendPreEffectTerminal, SafeFinish, SafeInspect,
         SafePrepareAgain, SafeRecoverLater, SafeReclaim, SafeTakeover, SafeAdopt DEF Command
    <2> QED BY <1>4, <2>1, <2>2, <2>3, <2>4
  <1>5. ASSUME NEW g \in Commands, NEW d \in Delegations, Launch(g, d) \/ PollCancel(g, d) PROVE Admission'
    <2>1. CASE PollCancel(g, d) BY <2>1, SafePollCancel
    <2>2. CASE Launch(g, d)
      BY <2>2, SafeLaunchRequest, SafeSpawn, SafeHandshake, SafeStart, SafeSendStart, SafeFail, SafeBlocked,
         SafeRecover, SafeReconcile, SafeRelease, SafePrepare, SafeReadmit, SafeWait, SafeImport DEF Launch
    <2> QED BY <1>5, <2>1, <2>2
  <1>6. ASSUME NEW a \in Actors, ChildStart(a) \/ ChildEnd(a) \/ ChildDies(a) PROVE Admission'
    BY <1>6, SafeChild
  <1> QED BY <1>1, <1>2, <1>3, <1>4, <1>5, <1>6 DEF Next

(* The admission layer is invariant: slots, claims and barriers in the       *)
(* session, the promises of the writer and what every command and launch has *)
(* learned of its child stay in step through the admissions and releases of  *)
(* bounded-delegation-scheduler.ts, the retry of runtime/child-launcher.ts,  *)
(* delegation-pre-effect-recovery.ts and delegation-group-takeover.ts.       *)
THEOREM AdmissionInvariant == Spec => [](Inv /\ Admission)
  <1>1. Init => Inv /\ Admission BY InitInv, InitAdmission
  <1>2. (Inv /\ Admission) /\ [Next]_vars => (Inv /\ Admission)'
    <2> HIDE DEF Inv, Admission
    <2> QED BY NextInv, NextAdmission
  <1> QED BY <1>1, <1>2, PTL DEF Spec

\* A child that may act is not spent: what proves it over excludes that it acts.
LEMMA RunningIsSafe ==
  ASSUME Inv, Admission, NEW a \in Actors, Running(a)
  PROVE  Holds(a) \/ Bypassed(a)
  <1>1. child[a].state \in {"told", "running"} BY DEF Running
  <1>2. Safe(a) BY <1>1 DEF Admission, LiveIsSafe, Live
  <1>3. ~Proven(op, a) BY <1>1 DEF Inv, ProvenIsOver
  <1> QED BY <1>1, <1>2, <1>3 DEF Safe, Spent

(* While a child may act, its own slot and conflict claim are held by one    *)
(* group, whatever crashes, recoveries and takeovers there were; the one     *)
(* exception is the retried child of a group that was taken over             *)
(* (bounded-delegation-scheduler.ts, delegation-group-takeover.ts).          *)
THEOREM AdmissionSafety == Spec => []RunningChildIsAdmitted
  <1>1. Inv /\ Admission => RunningChildIsAdmitted
    BY RunningIsSafe DEF RunningChildIsAdmitted
  <1> HIDE DEF Inv, Admission, RunningChildIsAdmitted
  <1> QED BY <1>1, AdmissionInvariant, PTL

\* Two attempts of one delegation do not act at once.
LEMMA OneRunningAttempt ==
  ASSUME Inv, NEW a \in Actors, NEW b \in Actors, Running(a), Running(b), a[1] = b[1]
  PROVE  a = b
  <1>1. PICK d \in Delegations, n \in 1..2 : a = <<d, n>> BY DEF Actors
  <1>2. PICK m \in 1..2 : b = <<d, m>> BY <1>1 DEF Actors
  <1>3. IsStarted(session, <<d, n>>) /\ IsStarted(session, <<d, m>>)
    BY <1>1, <1>2 DEF Inv, ActedIsStarted, Running
  <1>4. session \in SessionType /\ DelegationOK(session, d) BY DEF Inv, Types, SessionOK
  <1>5. Len(session.attempts[d]) <= 2 BY <1>4, AttemptsBound DEF Inv
  <1>6. ASSUME NEW k \in 1..2, IsStarted(session, <<d, k>>)
        PROVE  \E i \in DOMAIN session.attempts[d] :
                 session.attempts[d][i].actor = k /\ session.attempts[d][i].started
    <2>1. Has(session, d, k) /\ Attempt(session, d, k).started BY <1>6 DEF IsStarted, HasAttempt
    <2>2. /\ At(session, d, k) \in DOMAIN session.attempts[d]
          /\ session.attempts[d][At(session, d, k)].actor = k
      BY <1>4, <1>5, <2>1, AtFacts
    <2> QED BY <2>1, <2>2 DEF Attempt
  <1>7. PICK i \in DOMAIN session.attempts[d] : session.attempts[d][i].actor = n /\ session.attempts[d][i].started
    BY <1>3, <1>6
  <1>8. PICK j \in DOMAIN session.attempts[d] : session.attempts[d][j].actor = m /\ session.attempts[d][j].started
    BY <1>3, <1>6
  <1>9. i = j BY <1>4, <1>7, <1>8 DEF DelegationOK
  <1> QED BY <1>1, <1>2, <1>7, <1>8, <1>9

(* Never more than two children act at once and no two whose workspace       *)
(* claims collide, nor two attempts of one delegation, with the same         *)
(* exception (slots of bounded-delegation-scheduler.ts, claims of            *)
(* delegation-conflict-claim.ts).                                            *)
THEOREM ParallelSafety == Spec => []ParallelLimit
  <1>1. ASSUME Inv, Admission PROVE ParallelLimit
    <2> DEFINE acting == {a \in Actors : Running(a) /\ ~Bypassed(a)}
    <2>1. ASSUME NEW a \in acting PROVE a \in Actors /\ Running(a) /\ Holds(a)
      BY <1>1, RunningIsSafe
    <2>2. ASSUME NEW a \in acting, NEW b \in acting, a # b PROVE a[1] # b[1] /\ ~Collides(a, b)
      <3>1. a[1] # b[1] BY <1>1, <2>1, <2>2, OneRunningAttempt
      <3>2. PICK x \in session.claims, y \in session.claims : x.actor = a /\ y.actor = b
        <4>1. \A c : Holds(c) => \E x \in session.claims : x.actor = c BY DEF Holds
        <4> QED BY <2>1, <4>1
      <3>3. x # y BY <2>2, <3>2
      <3> QED BY <1>1, <3>1, <3>2, <3>3 DEF Admission, BookOK
    <2>3. Cardinality(acting) <= 2
      <3> DEFINE f == [a \in acting |-> CHOOSE x \in session.slots : x.actor = a]
      <3>1. ASSUME NEW a \in acting PROVE f[a] \in session.slots /\ f[a].actor = a
        <4>1. \E x \in session.slots : x.actor = a BY <2>1 DEF Holds, SlotsOf
        <4> QED BY <4>1
      <3>2. IsFiniteSet(session.slots) /\ Cardinality(session.slots) <= 2 BY <1>1 DEF Admission, BookOK
      <3> HIDE DEF acting
      <3>3. f \in [acting -> session.slots] BY <3>1
      <3>4. \A a, b \in acting : f[a] = f[b] => a = b BY <3>1
      <3> HIDE DEF f
      <3>5. f \in Injection(acting, session.slots) BY <3>3, <3>4 DEF Injection, IsInjective
      <3>6. IsFiniteSet(acting) /\ Cardinality(acting) <= Cardinality(session.slots) BY <3>2, <3>5, FS_Injection
      <3>7. Cardinality(acting) \in Nat /\ Cardinality(session.slots) \in Nat BY <3>2, <3>6, FS_CardinalityType
      <3> QED BY <3>2, <3>6, <3>7
    <2> QED BY <2>2, <2>3 DEF ParallelLimit
  <1> HIDE DEF Inv, Admission, ParallelLimit
  <1> QED BY <1>1, AdmissionInvariant, PTL

-----------------------------------------------------------------------------
(* The booking layer: whom the book still has when a barrier opens. *)

\* A slot of the group b is held for the actor a.
SlotIn(s, a, b) == \E x \in s.slots : x.actor = a /\ x.group = b

(* Whoever was admitted with a group is one the group's barrier waits for,   *)
(* and has his slot still, or can do nothing any more, or is the retry of a  *)
(* group that was taken over.                                                *)
Booked ==
  \A a \in Actors, b \in Commands : GroupOf(session, a) = b =>
    /\ a[1] \in session.barriers[b].required
    /\ SlotIn(session, a, b) \/ Spent(a) \/ (a[2] = 2 /\ Taken(session, b))

\* A group holds slots (claims) of at most one attempt of a delegation.
OneEach(S) == \A x, y \in S : x.group = y.group /\ x.actor[1] = y.actor[1] => x.actor = y.actor

NoneFor(S, g, d) == \A x \in S : x.group = g => x.actor[1] # d
Clear(s, g, d) == NoneFor(s.slots, g, d) /\ NoneFor(s.claims, g, d)

\* A launch that has given its admission back and is not admitted again.
Retrying(g, d) ==
  /\ cmd[g].pc = "run"
  /\ \/ thr[g][d].pc \in {"prepare", "readmit"}
     \/ thr[g][d].pc = "holding" /\ writer.then = "readmit"

LaunchClear(g, d) == Retrying(g, d) => Clear(session, g, d)

\* What the writer grants: one attempt of each delegation, and nobody else has it.
Granting == {"slot_claimed", "claim_granted"}
Only(S, e) == \A x \in S : x.group = e.group /\ x.actor[1] = e.d => x.actor = ActorOf(e)
GrantClear(s, w, i) ==
  w.todo[i].type \in Granting =>
    /\ Only(IF w.todo[i].type = "slot_claimed" THEN s.slots ELSE s.claims, w.todo[i])
    /\ \A j \in DOMAIN w.todo :
         w.todo[j].type = w.todo[i].type /\ w.todo[j].d = w.todo[i].d => w.todo[j].n = w.todo[i].n
    /\ w.of # 0 => w.todo[i].d = w.of

\* What is held by x is given back by one of the first events.
Gives(todo, m, type, x) ==
  \E j \in 1 .. m : todo[j].type = type /\ ActorOf(todo[j]) = x.actor /\ todo[j].group = x.group
Given(s, todo, m, b) ==
  /\ \A x \in s.slots : x.group = b => Gives(todo, m, "slot_released", x)
  /\ \A x \in s.claims : x.group = b => Gives(todo, m, "claim_released", x)

\* Before the barrier of its own group, or of the group it recovers or takes
\* over, opens, the writer gives back all that the group holds.
OpenClear(s, w, own, i) ==
  w.todo[i].type = "barrier_released" =>
    /\ w.then \notin {"run", "launch"}
    /\ w.todo[i].group \in own => Given(s, w.todo, i - 1, w.todo[i].group)

\* A retry gives its admission back, claim first.
RetryClear(s, w, n) ==
  \/ w.todo = Releasing(<<w.of, n>>, w.by)
  \/ w.todo = <<Held("slot_released", <<w.of, n>>, w.by)>> /\ NoneFor(s.claims, w.by, w.of)

WriterClear ==
  /\ \A i \in DOMAIN writer.todo :
       /\ GrantClear(session, writer, i)
       /\ OpenClear(session, writer, {writer.by, cmd[writer.by].grp}, i)
  /\ writer.of # 0 /\ writer.then = "prepare" =>
       RetryClear(session, writer, thr[writer.by][writer.of].n)

Booking ==
  /\ Booked /\ OneEach(session.slots) /\ OneEach(session.claims)
  /\ \A g \in Commands, d \in Delegations : LaunchClear(g, d)
  /\ WriterClear

-----------------------------------------------------------------------------
(* Steps that leave the book alone. *)

SpentKept == \A a \in Actors : Spent(a) => Spent(a)'

LEMMA SpentSame == ASSUME UNCHANGED <<op, child>> PROVE SpentKept
  BY DEF SpentKept, Spent, Proven

LEMMA StepIsBooked ==
  ASSUME Booking, SameBook, SpentKept,
         \A h \in Commands, e \in Delegations : Retrying(h, e)' => Retrying(h, e), WriterClear'
  PROVE  Booking'
  <1>1. Booked'
    <2>1. /\ \A a : GroupOf(session, a)' = GroupOf(session, a)
          /\ \A a, b : SlotIn(session, a, b)' = SlotIn(session, a, b)
          /\ \A b : Taken(session, b)' = Taken(session, b)
          /\ session'.barriers = session.barriers
      BY DEF SameBook, GroupOf, SlotIn, Taken
    <2> QED BY <2>1 DEF Booking, Booked, SpentKept
  <1>2. OneEach(session.slots)' /\ OneEach(session.claims)' BY DEF Booking, OneEach, SameBook
  <1>3. ASSUME NEW h \in Commands, NEW e \in Delegations PROVE LaunchClear(h, e)'
    <2>1. Clear(session, h, e)' <=> Clear(session, h, e) BY DEF Clear, NoneFor, SameBook
    <2> QED BY <2>1 DEF Booking, LaunchClear
  <1> QED BY <1>1, <1>2, <1>3 DEF Booking

LEMMA FreeIsClear == ASSUME writer' = Free PROVE WriterClear'
  BY DEF Free, WriterClear

\* The writer stays with whom it is.
LEMMA ClearStays ==
  ASSUME Inv, Booking, SameBook, UNCHANGED writer,
         writer.by # 0 => cmd'[writer.by].grp = cmd[writer.by].grp,
         writer.by # 0 /\ writer.of # 0 => thr'[writer.by][writer.of].n = thr[writer.by][writer.of].n
  PROVE  WriterClear'
  <1>1. CASE writer.by = 0
    <2>1. writer = Free BY <1>1 DEF Inv, WriterOK
    <2> QED BY <2>1, FreeIsClear
  <1>2. CASE writer.by # 0
    <2>1. WriterClear BY DEF Booking
    <2>2. PICK own : own = {writer.by, cmd[writer.by].grp} OBVIOUS
    <2>3. own = {writer.by, cmd[writer.by].grp}' BY <1>2, <2>2
    <2>4. ASSUME NEW i \in DOMAIN writer.todo
          PROVE  GrantClear(session, writer, i)' /\ OpenClear(session, writer, {writer.by, cmd[writer.by].grp}, i)'
      <3>1. GrantClear(session, writer, i) /\ OpenClear(session, writer, own, i) BY <2>1, <2>2 DEF WriterClear
      <3>2. GrantClear(session, writer, i)' BY <3>1 DEF GrantClear, SameBook, Only
      <3>3. OpenClear(session', writer', own, i) BY <3>1 DEF OpenClear, SameBook, Given
      <3> QED BY <2>3, <3>2, <3>3
    <2>5. ASSUME writer.of # 0, writer.then = "prepare"
          PROVE  RetryClear(session, writer, thr[writer.by][writer.of].n)'
      <3>1. PICK n : n = thr[writer.by][writer.of].n OBVIOUS
      <3>2. RetryClear(session, writer, n) BY <2>1, <2>5, <3>1 DEF WriterClear
      <3>3. RetryClear(session', writer', n) BY <3>2 DEF RetryClear, SameBook, NoneFor
      <3>4. n = thr'[writer'.by][writer'.of].n BY <1>2, <2>5, <3>1
      <3> QED BY <3>3, <3>4
    <2> QED BY <2>4, <2>5 DEF WriterClear
  <1> QED BY <1>1, <1>2

\* A hold that neither grants nor opens anything.
LEMMA PlainClear ==
  ASSUME Admission', NEW g, NEW d, NEW events, NEW then, NEW refused,
         Hold(g, d, events, then, refused), then \notin {"run", "launch"}, then # "prepare" \/ d = 0,
         \A i \in DOMAIN events : events[i].type # "barrier_released"
  PROVE  WriterClear'
  <1>1. writer'.of = d /\ writer'.todo = events /\ writer'.then = then BY DEF Hold
  <1>2. ASSUME NEW i \in DOMAIN events PROVE events[i].type \notin Granting
    <2>1. Promised(session, writer, i)' BY <1>1, <1>2 DEF Admission, WriterSafe
    <2> QED BY <1>1, <2>1 DEF Promised, Granting
  <1>3. ASSUME NEW i \in DOMAIN events
        PROVE  GrantClear(session, writer, i)' /\ OpenClear(session, writer, {writer.by, cmd[writer.by].grp}, i)'
    BY <1>1, <1>2, <1>3 DEF GrantClear, OpenClear
  <1> QED BY <1>1, <1>3 DEF WriterClear

-----------------------------------------------------------------------------
(* Who can do nothing any more stays so. *)

LEMMA SpentBut ==
  ASSUME NEW a \in Actors,
         \A b \in Actors : b # a => op'[b] = op[b] /\ child'[b] = child[b],
         Proven(op, a) => op'[a].failure = op[a].failure,
         child[a].state = "finished" => child'[a].state = "finished"
  PROVE  SpentKept
  BY DEF SpentKept, Spent, Proven

\* Only the state of an operation and of a child that has not finished change.
LEMMA SpentStates ==
  ASSUME Inv, NEW a \in Actors,
         op' = op \/ (\E v : op' = [op EXCEPT ![a].state = v]),
         child' = child \/ (child[a].state # "finished" /\ \E c : child' = [child EXCEPT ![a] = c])
  PROVE  SpentKept
  <1>1. op \in [Actors -> OpType] /\ child \in [Actors -> ChildType] BY DEF Inv, Types
  <1>2. op[a] \in OpType BY <1>1
  <1>3. /\ \A b \in Actors : b # a => op'[b] = op[b]
        /\ op'[a].failure = op[a].failure
    BY <1>1, <1>2 DEF OpType
  <1>4. /\ \A b \in Actors : b # a => child'[b] = child[b]
        /\ child[a].state = "finished" => child'[a].state = "finished"
    BY <1>1
  <1> QED BY <1>3, <1>4, SpentBut

\* An operation that proves nothing yet is rewritten, and a child that has not
\* finished ends.
LEMMA SpentRecord ==
  ASSUME Inv, NEW a \in Actors, ~Proven(op, a),
         op' = op \/ (\E o : op' = [op EXCEPT ![a] = o]),
         child' = child \/ (child[a].state # "finished" /\ \E c : child' = [child EXCEPT ![a] = c])
  PROVE  SpentKept
  <1>1. op \in [Actors -> OpType] /\ child \in [Actors -> ChildType] BY DEF Inv, Types
  <1>2. /\ \A b \in Actors : b # a => op'[b] = op[b] /\ child'[b] = child[b]
        /\ child[a].state = "finished" => child'[a].state = "finished"
    BY <1>1
  <1> QED BY <1>2, SpentBut

LEMMA SpentLaunch ==
  ASSUME Inv, Admission, NEW g \in Commands, NEW d \in Delegations, Launch(g, d) \/ PollCancel(g, d)
  PROVE  SpentKept
  <1> USE DEF Launching, ActorIn
  <1>0. /\ thr[g][d].pc \in {"launch", "spawn", "handshake", "start", "sending", "fail", "blocked", "recover",
             "reconcile", "release", "prepare", "readmit", "wait", "lost", "import", "receipt", "settle"}
        /\ cmd[g].pc = "run"
    BY DEF Launch, LaunchRequest, Spawn, Handshake, Start, SendStart, Fail, RecordBlocked, Recover, Reconcile,
           Release, Prepare, Readmit, Wait, Lost, Import, Receipt, Settle, PollCancel, PreStart
  <1>1. PICK a : a = <<d, thr[g][d].n>> OBVIOUS
  <1>2. a \in Actors /\ (thr[g][d].pc \in Near => ~Proven(op, a)) BY <1>0, <1>1, LaunchKnows
  <1>3. CASE LaunchRequest(g, d)
    <2>1. child' = child /\ (op' = op \/ op' = [op EXCEPT ![a].state = "requested"])
      BY <1>1, <1>3 DEF LaunchRequest
    <2> QED BY <1>2, <2>1, SpentStates
  <1>4. CASE Spawn(g, d)
    <2>1. child[a].state = "none" BY <1>0, <1>1, <1>4, LaunchLearned DEF Learned, Spawn
    <2>2. (op' = op /\ child' = child)
          \/ (op' = [op EXCEPT ![a].state = "spawned"] /\ child' = [child EXCEPT ![a].state = "up"])
      BY <1>1, <1>4 DEF Spawn
    <2>3. child' = child \/ \E c : child' = [child EXCEPT ![a] = c] BY <2>2
    <2> QED BY <1>2, <2>1, <2>2, <2>3, SpentStates
  <1>5. CASE Handshake(g, d)
    <2>1. (op' = op /\ child' = child)
          \/ (child[a].state = "up" /\ op' = [op EXCEPT ![a].state = "handshaken"]
              /\ child' = [child EXCEPT ![a].state = "shaken"])
      BY <1>1, <1>5 DEF Handshake
    <2>2. child' = child \/ (child[a].state # "finished" /\ \E c : child' = [child EXCEPT ![a] = c]) BY <2>1
    <2> QED BY <1>2, <2>1, <2>2, SpentStates
  <1>6. CASE SendStart(g, d)
    <2>0. child[a] \in ChildType /\ child \in [Actors -> ChildType] BY <1>2 DEF Inv, Types
    <2>1. PICK told : told = [child EXCEPT ![a].state = IF @ = "shaken" THEN "told" ELSE @] OBVIOUS
    <2>2. op' = op \/ op' = [op EXCEPT ![a].state = "running"] BY <1>1, <1>6 DEF SendStart
    <2>3. child' = child \/ child' = told BY <1>1, <1>6, <2>1 DEF SendStart
    <2>4. child[a].state = "finished" => told = child BY <1>2, <2>0, <2>1 DEF ChildType
    <2>5. child' = child \/ (child[a].state # "finished" /\ \E c : child' = [child EXCEPT ![a] = c])
      BY <2>1, <2>3, <2>4
    <2> QED BY <1>2, <2>2, <2>5, SpentStates
  <1>7. CASE Fail(g, d)
    <2>1. thr[g][d].pc = "fail" BY <1>7 DEF Fail
    <2>2. child' = child \/ (child[a].state \in Live /\ child' = [child EXCEPT ![a] = Ended(@)])
      BY <1>1, <1>7 DEF Fail
    <2>3. child' = child \/ (child[a].state # "finished" /\ \E c : child' = [child EXCEPT ![a] = c])
      BY <2>2 DEF Live
    <2>4. op' = op \/ \E o : op' = [op EXCEPT ![a] = o] BY <1>1, <1>7 DEF Fail
    <2> QED BY <1>2, <2>1, <2>3, <2>4, SpentRecord DEF Near
  <1>8. CASE Wait(g, d)
    <2>1. thr[g][d].pc = "wait" BY <1>8 DEF Wait
    <2>2. child' = child \/ (child[a].state \in Live /\ child' = [child EXCEPT ![a] = Ended(@)])
      BY <1>1, <1>8 DEF Wait
    <2>3. child' = child \/ (child[a].state # "finished" /\ \E c : child' = [child EXCEPT ![a] = c])
      BY <2>2 DEF Live
    <2>4. op' = op \/ \E o : op' = [op EXCEPT ![a] = o] BY <1>1, <1>8 DEF Wait
    <2> QED BY <1>2, <2>1, <2>3, <2>4, SpentRecord DEF Near
  <1>9. CASE Reconcile(g, d) \/ Settle(g, d)
    <2>1. child' = child /\ (op' = op \/ op' = [op EXCEPT ![a].state = "reconciled"])
      BY <1>1, <1>9 DEF Reconcile, Settle, Reconciled
    <2> QED BY <1>2, <2>1, SpentStates
  <1>10. CASE PollCancel(g, d)
    <2>1. op' = op BY <1>10 DEF PollCancel
    <2>2. child' = child \/ (child[a].state \in Live /\ child' = [child EXCEPT ![a] = Ended(@)])
      BY <1>1, <1>10 DEF PollCancel
    <2>3. child' = child \/ (child[a].state # "finished" /\ \E c : child' = [child EXCEPT ![a] = c])
      BY <2>2 DEF Live
    <2> QED BY <1>2, <2>1, <2>3, SpentStates
  <1>11. CASE \/ Start(g, d) \/ RecordBlocked(g, d) \/ Recover(g, d) \/ Release(g, d) \/ Prepare(g, d)
              \/ Readmit(g, d) \/ Lost(g, d) \/ Import(g, d) \/ Receipt(g, d)
    BY <1>11, SpentSame DEF Start, RecordBlocked, Recover, Release, Prepare, Readmit, Lost, Import, Receipt
  <1> QED BY <1>3, <1>4, <1>5, <1>6, <1>7, <1>8, <1>9, <1>10, <1>11 DEF Launch

LEMMA SpentCommand ==
  ASSUME Inv, NEW g \in Commands, Begin(g) \/ Command(g) \/ Abort(g) \/ Crash(g) \/ Exit(g)
  PROVE  SpentKept
  <1>1. CASE Abort(g)
    <2>1. /\ op' = op
          /\ \A a \in Actors : child'[a] = child[a] \/ child[a].state \in Live
      BY <1>1 DEF Abort
    <2> QED BY <2>1 DEF SpentKept, Spent, Proven, Live
  <1>2. CASE Reclaim(g)
    <2>1. PICK a : a = <<cmd[g].sel, cmd[g].n>> OBVIOUS
    <2>2. a \in Actors BY <1>2, <2>1, CommandKnows DEF Knows, Reclaim, Actors
    <2>3. child' = child /\ (op' = op \/ op' = [op EXCEPT ![a].state = "reconciled"])
      BY <1>2, <2>1 DEF Reclaim, Reconciled
    <2> QED BY <2>2, <2>3, SpentStates
  <1>3. CASE \/ Begin(g) \/ Crash(g) \/ Exit(g) \/ Read(g) \/ Fence(g) \/ Acquire(g) \/ AdmitGroup(g)
             \/ AppendPreEffectTerminal(g) \/ Finish(g) \/ ReleaseLease(g) \/ Inspect(g) \/ PrepareAgain(g)
             \/ RecoverLater(g) \/ Unlease(g) \/ Again(g) \/ Takeover(g) \/ Seize(g) \/ Adopt(g) \/ Yield(g)
    BY <1>3, SpentSame
    DEF Begin, Crash, Exit, Read, Fence, Acquire, AdmitGroup, AppendPreEffectTerminal, Finish, ReleaseLease, Inspect,
        PrepareAgain, RecoverLater, Unlease, Again, Takeover, Seize, Adopt, Yield
  <1> QED BY <1>1, <1>2, <1>3 DEF Command

LEMMA SpentChild ==
  ASSUME Inv, NEW a \in Actors, ChildStart(a) \/ ChildEnd(a) \/ ChildDies(a)
  PROVE  SpentKept
  <1>1. child[a].state \in Live BY DEF ChildStart, ChildEnd, ChildDies, Live
  <1>2. child[a].state # "finished" BY <1>1 DEF Live
  <1>3. op' = op \/ (\E v : op' = [op EXCEPT ![a].state = v]) BY DEF ChildStart, ChildEnd, ChildDies
  <1>4. \E c : child' = [child EXCEPT ![a] = c] BY DEF ChildStart, ChildEnd, ChildDies
  <1> QED BY <1>2, <1>3, <1>4, SpentStates

-----------------------------------------------------------------------------
(* The steps of a launch. *)

LEMMA HoldingIs ==
  ASSUME Inv, NEW h \in Commands, NEW e \in Delegations, thr[h][e].pc = "holding"
  PROVE  writer.by = h /\ writer.of = e
  <1>1. LaunchOK(h, e) BY DEF Inv
  <1> QED BY <1>1 DEF LaunchOK

LEMMA LaunchBooks ==
  ASSUME Inv, Booking, SpentKept, UNCHANGED <<session, cmd>>, NEW g \in Commands, NEW d \in Delegations,
         NEW t \in LaunchType, Moves(g, d, t), cmd[g].pc = "run", thr[g][d].pc # "holding",
         t.pc \notin {"prepare", "readmit"},
         t.pc = "holding" /\ writer'.then = "readmit" => thr[g][d].pc = "prepare",
         \/ UNCHANGED writer /\ t.n = thr[g][d].n /\ t.pc # "holding"
         \/ writer.by = 0 /\ WriterClear'
         \/ writer.by = g /\ writer.of = d /\ writer' = Free
  PROVE  Booking'
  <1>1. /\ thr'[g][d] = t
        /\ \A h \in Commands, e \in Delegations : h # g \/ e # d => thr'[h][e] = thr[h][e]
    BY ThrUpdate DEF Inv
  <1>2. \A h \in Commands, e \in Delegations : thr[h][e].pc = "holding" => writer.by = h /\ writer.of = e
    BY HoldingIs
  <1>3. ASSUME NEW h \in Commands, NEW e \in Delegations, Retrying(h, e)' PROVE Retrying(h, e)
    <2>1. CASE h = g /\ e = d BY <1>1, <1>3, <2>1 DEF Retrying
    <2>2. CASE h # g \/ e # d
      <3>1. thr'[h][e] = thr[h][e] BY <1>1, <2>2
      <3>2. CASE thr[h][e].pc = "holding"
        <4>1. writer.by = h /\ writer.of = e BY <1>2, <3>2
        <4>2. h # 0 BY DEF Commands
        <4>3. UNCHANGED writer BY <2>2, <4>1, <4>2
        <4> QED BY <1>3, <3>1, <4>3 DEF Retrying
      <3>3. CASE thr[h][e].pc # "holding" BY <1>3, <3>1, <3>3 DEF Retrying
      <3> QED BY <3>2, <3>3
    <2> QED BY <2>1, <2>2
  <1>4. SameBook BY SessionSame
  <1>5. WriterClear'
    <2>1. CASE UNCHANGED writer /\ t.n = thr[g][d].n
      <3>1. writer.by # 0 => writer.by \in Commands /\ (writer.of = 0 \/ writer.of \in Delegations)
        BY WriterHolder
      <3>2. writer.by # 0 /\ writer.of # 0 => thr'[writer.by][writer.of].n = thr[writer.by][writer.of].n
        BY <1>1, <2>1, <3>1
      <3> QED BY <1>4, <2>1, <3>2, ClearStays
    <2> QED BY <2>1, FreeIsClear
  <1> QED BY <1>3, <1>4, <1>5, StepIsBooked

LEMMA GotoBooks ==
  ASSUME Inv, Booking, SpentKept, UNCHANGED <<session, writer>>, NEW g \in Commands, NEW d \in Delegations,
         cmd[g].pc = "run", thr[g][d].pc # "holding", NEW to \in LaunchSteps, to \notin {"holding", "prepare", "readmit"},
         Goto(g, d, to) \/ (to = "fail" /\ UNCHANGED cmd /\ \E why \in {"infra", "cancelled", "stale"} : Throw(g, d, why))
  PROVE  Booking'
  <1>1. UNCHANGED cmd /\ \E t \in LaunchType : Moves(g, d, t) /\ t.pc = to /\ t.n = thr[g][d].n
    BY GotoLaunch, ThrowLaunch
  <1>2. PICK t \in LaunchType : Moves(g, d, t) /\ t.pc = to /\ t.n = thr[g][d].n BY <1>1
  <1> QED BY <1>1, <1>2, LaunchBooks

LEMMA HoldBooks ==
  ASSUME Inv, Admission', Booking, SpentKept, UNCHANGED session, NEW g \in Commands, NEW d \in Delegations,
         cmd[g].pc = "run", thr[g][d].pc # "holding", writer.by = 0, NEW events, NEW then, NEW refused,
         Hold(g, d, events, then, refused), Goto(g, d, "holding"), then \notin {"run", "launch", "prepare", "readmit"},
         \A i \in DOMAIN events : events[i].type # "barrier_released"
  PROVE  Booking'
  <1>1. WriterClear' BY PlainClear
  <1>2. UNCHANGED cmd /\ \E t \in LaunchType : Moves(g, d, t) /\ t.pc = "holding"
    BY GotoLaunch DEF LaunchSteps
  <1>3. PICK t \in LaunchType : Moves(g, d, t) /\ t.pc = "holding" BY <1>2
  <1>4. writer'.then = then BY DEF Hold
  <1> QED BY <1>1, <1>2, <1>3, <1>4, LaunchBooks

LEMMA BookedMoves ==
  ASSUME Inv, Booking, SpentKept, NEW g \in Commands, NEW d \in Delegations,
         Spawn(g, d) \/ Handshake(g, d) \/ Fail(g, d) \/ Reconcile(g, d) \/ Settle(g, d) \/ Wait(g, d)
  PROVE  Booking'
  <1>1. /\ UNCHANGED <<session, writer>> /\ cmd[g].pc = "run"
        /\ thr[g][d].pc \in {"spawn", "handshake", "fail", "reconcile", "settle", "wait"}
    BY DEF Spawn, Handshake, Fail, Reconcile, Settle, Wait, Launching
  <1>2. \/ \E to \in {"rejected", "recover", "blocked", "release", "fulfilled", "import", "lost"} : Goto(g, d, to)
        \/ UNCHANGED cmd /\ \E why \in {"infra", "cancelled", "stale"} : Throw(g, d, why)
        \/ UNCHANGED cmd /\ \E pc \in {"handshake", "start"} : thr' = [thr EXCEPT ![g][d].pc = pc]
    BY DEF Spawn, Handshake, Fail, Reconcile, Settle, Wait
  <1>3. CASE \E to \in {"rejected", "recover", "blocked", "release", "fulfilled", "import", "lost"} : Goto(g, d, to)
    BY <1>1, <1>3, GotoBooks DEF LaunchSteps
  <1>4. CASE UNCHANGED cmd /\ \E why \in {"infra", "cancelled", "stale"} : Throw(g, d, why)
    <2>1. "fail" \in LaunchSteps BY DEF LaunchSteps
    <2> QED BY <1>1, <1>4, <2>1, GotoBooks
  <1>5. CASE UNCHANGED cmd /\ \E pc \in {"handshake", "start"} : thr' = [thr EXCEPT ![g][d].pc = pc]
    <2>0. UNCHANGED cmd BY <1>5
    <2>1. CASE thr' = [thr EXCEPT ![g][d].pc = "handshake"]
      <3>1. Goto(g, d, "handshake") BY <2>0, <2>1 DEF Goto, Delegations
      <3> QED BY <1>1, <3>1, GotoBooks DEF LaunchSteps
    <2>2. CASE thr' = [thr EXCEPT ![g][d].pc = "start"]
      <3>1. Goto(g, d, "start") BY <2>0, <2>2 DEF Goto, Delegations
      <3> QED BY <1>1, <3>1, GotoBooks DEF LaunchSteps
    <2> QED BY <1>5, <2>1, <2>2
  <1> QED BY <1>2, <1>3, <1>4, <1>5

LEMMA BookedSendStart ==
  ASSUME Inv, Booking, SpentKept, NEW g \in Commands, NEW d \in Delegations, SendStart(g, d)
  PROVE  Booking'
  <1>1. /\ UNCHANGED <<session, cmd>> /\ writer' = Free /\ cmd[g].pc = "run" /\ thr[g][d].pc = "sending"
    BY DEF SendStart, Launching
  <1>2. writer.by = g /\ writer.of = d BY <1>1 DEF Inv, LaunchOK
  <1>3. \E t \in LaunchType : Moves(g, d, t) /\ t.pc \in {"wait", "fail"} /\ t.n = thr[g][d].n
    <2>1. CASE Throw(g, d, "infra") BY <2>1, ThrowLaunch
    <2>2. CASE thr' = [thr EXCEPT ![g][d].pc = "wait"]
      <3>1. Goto(g, d, "wait") BY <1>1, <2>2 DEF Goto, Delegations
      <3> QED BY <3>1, GotoLaunch DEF LaunchSteps
    <2> QED BY <2>1, <2>2 DEF SendStart
  <1>4. PICK t \in LaunchType : Moves(g, d, t) /\ t.pc \in {"wait", "fail"} /\ t.n = thr[g][d].n BY <1>3
  <1> QED BY <1>1, <1>2, <1>4, LaunchBooks

LEMMA BookedPollCancel ==
  ASSUME Inv, Booking, SpentKept, NEW g \in Commands, NEW d \in Delegations, PollCancel(g, d)
  PROVE  Booking'
  <1>1. /\ UNCHANGED <<session, writer, cmd>> /\ cmd[g].pc = "run"
        /\ thr[g][d].pc \in {"spawn", "handshake", "start", "fail", "blocked"}
        /\ thr' = [thr EXCEPT ![g][d].seen = TRUE]
    BY DEF PollCancel, Launching, PreStart
  <1>2. PICK t : t = [thr[g][d] EXCEPT !.seen = TRUE] OBVIOUS
  <1>3. thr[g][d] \in LaunchType BY DEF Inv, Types
  <1>4. t \in LaunchType /\ t.pc = thr[g][d].pc /\ t.n = thr[g][d].n BY <1>2, <1>3 DEF LaunchType
  <1>5. Moves(g, d, t) BY <1>1, <1>2 DEF Moves
  <1> QED BY <1>1, <1>4, <1>5, LaunchBooks

\* Holds that only record what happened to the child.
LEMMA OneType ==
  ASSUME NEW e, e.type # "barrier_released"
  PROVE  \A i \in DOMAIN <<e>> : <<e>>[i].type # "barrier_released"
  OBVIOUS

LEMMA TwoTypes ==
  ASSUME NEW e, NEW f, e.type # "barrier_released", f.type # "barrier_released"
  PROVE  \A i \in DOMAIN <<e, f>> : <<e, f>>[i].type # "barrier_released"
  OBVIOUS

LEMMA ThreeTypes ==
  ASSUME NEW e, NEW f, NEW h, e.type # "barrier_released", f.type # "barrier_released", h.type # "barrier_released"
  PROVE  \A i \in DOMAIN <<e, f, h>> : <<e, f, h>>[i].type # "barrier_released"
  OBVIOUS

LEMMA RecoveringTypes ==
  ASSUME Inv, NEW d \in Delegations, NEW n \in 1..2, Recoverable(session, <<d, n>>)
  PROVE  /\ Recovering(session, <<d, n>>) \in Seq({e \in Event : e.type # "barrier_released"})
         /\ \A i \in DOMAIN Recovering(session, <<d, n>>) :
              Recovering(session, <<d, n>>)[i].type \in {"pre_effect_cancelled", "terminal", "settled"}
  <1> DEFINE E == {e \in Event : e.type \in {"pre_effect_cancelled", "terminal", "settled"}}
  <1>0. PICK X : X = E OBVIOUS
  <1>1. PICK q, r : /\ Recovering(session, <<d, n>>) = q \o r /\ q \in Seq(X) /\ r \in Seq(X)
    <2>0. n \in 0..2 /\ "pre_effect" \in Terminals \cup Known BY DEF Terminals
    <2>1. OfAttempt("pre_effect_cancelled", <<d, n>>) \in X
      <3>1. PICK e : e = OfAttempt("pre_effect_cancelled", <<d, n>>) OBVIOUS
      <3>2. About(e, "pre_effect_cancelled", d, n) BY <2>0, <3>1, AttemptMade
      <3> QED BY <1>0, <3>1, <3>2 DEF About
    <2>2. OfAttempt("settled", <<d, n>>) \in X
      <3>1. PICK e : e = OfAttempt("settled", <<d, n>>) OBVIOUS
      <3>2. About(e, "settled", d, n) BY <2>0, <3>1, AttemptMade
      <3> QED BY <1>0, <3>1, <3>2 DEF About
    <2>3. WithKind("terminal", <<d, n>>, "pre_effect") \in X
      <3>1. PICK e : e = WithKind("terminal", <<d, n>>, "pre_effect") OBVIOUS
      <3>2. About(e, "terminal", d, n) BY <2>0, <3>1, KindMade
      <3> QED BY <1>0, <3>1, <3>2 DEF About
    <2>4. <<OfAttempt("pre_effect_cancelled", <<d, n>>)>> \in Seq(X) /\ <<OfAttempt("settled", <<d, n>>)>> \in Seq(X)
          /\ <<WithKind("terminal", <<d, n>>, "pre_effect")>> \in Seq(X) /\ <<>> \in Seq(X)
      BY <2>1, <2>2, <2>3
    <2> HIDE DEF E
    <2> QED BY <2>4 DEF Recovering
  <1>2. q \o r \in Seq(X) BY <1>1
  <1>3. Recovering(session, <<d, n>>) \in Seq(X) BY <1>1, <1>2
  <1>4. X \subseteq {e \in Event : e.type # "barrier_released"} BY <1>0
  <1>5. PICK Y : Y = {e \in Event : e.type # "barrier_released"} OBVIOUS
  <1>6. Recovering(session, <<d, n>>) \in Seq(Y) BY <1>3, <1>4, <1>5
  <1>7. PICK z : z = Recovering(session, <<d, n>>) OBVIOUS
  <1>8. \A i \in DOMAIN z : z[i] \in X BY <1>3, <1>7
  <1> QED BY <1>0, <1>5, <1>6, <1>7, <1>8

LEMMA BookedRecords ==
  ASSUME Inv, Admission', Booking, SpentKept, NEW g \in Commands, NEW d \in Delegations,
         LaunchRequest(g, d) \/ Start(g, d) \/ RecordBlocked(g, d) \/ Lost(g, d) \/ Import(g, d) \/ Receipt(g, d)
  PROVE  Booking'
  <1>1. /\ UNCHANGED session /\ cmd[g].pc = "run" /\ writer.by = 0
        /\ thr[g][d].pc \in {"launch", "start", "blocked", "lost", "import", "receipt"}
    BY DEF LaunchRequest, Start, RecordBlocked, Lost, Import, Receipt, Launching, WriterFree
  <1>2. PICK a : a = ActorIn(g, d) OBVIOUS
  <1>3. CASE \E events, then, refused :
               /\ Hold(g, d, events, then, refused) /\ Goto(g, d, "holding")
               /\ then \notin {"run", "launch", "prepare", "readmit"}
               /\ \A i \in DOMAIN events : events[i].type # "barrier_released"
    BY <1>1, <1>3, HoldBooks
  <1>4. CASE UNCHANGED writer /\ Goto(g, d, "rejected") BY <1>1, <1>4, GotoBooks DEF LaunchSteps
  <1>5. CASE LaunchRequest(g, d)
    <2>1. OfAttempt("reserved", a).type = "reserved" /\ OfAttempt("launch_requested", a).type = "launch_requested"
      BY DEF OfAttempt
    <2>2. \/ UNCHANGED writer /\ Goto(g, d, "rejected")
          \/ /\ Hold(g, d, <<OfAttempt("reserved", a), OfAttempt("launch_requested", a)>>, "spawn", "rejected")
             /\ Goto(g, d, "holding")
      BY <1>2, <1>5 DEF LaunchRequest
    <2> QED BY <1>3, <1>4, <2>1, <2>2, TwoTypes
  <1>6. CASE Start(g, d)
    <2>1. OfAttempt("started", a).type = "started" BY DEF OfAttempt
    <2>2. \/ Hold(g, d, <<OfAttempt("started", a)>>, "sending", "fail") /\ Goto(g, d, "holding")
          \/ /\ UNCHANGED <<writer, cmd>> /\ \E why \in {"infra", "cancelled", "stale"} : Throw(g, d, why)
      BY <1>2, <1>6 DEF Start
    <2>3. CASE UNCHANGED <<writer, cmd>> /\ \E why \in {"infra", "cancelled", "stale"} : Throw(g, d, why)
      BY <1>1, <2>3, GotoBooks DEF LaunchSteps
    <2> QED BY <1>3, <2>1, <2>2, <2>3, OneType
  <1>7. CASE RecordBlocked(g, d) \/ Lost(g, d)
    <2>1. Of("blocked", d).type = "blocked" BY DEF Of
    <2>2. \/ Hold(g, d, <<Of("blocked", d)>>, "rejected", "rejected") /\ Goto(g, d, "holding")
          \/ UNCHANGED writer /\ Goto(g, d, "rejected")
      BY <1>7 DEF RecordBlocked, Lost
    <2> QED BY <1>3, <1>4, <2>1, <2>2, OneType
  <1>8. CASE Import(g, d)
    <2>1. WithKind("terminal", a, child[a].result).type = "terminal" BY DEF WithKind
    <2>2. \/ Hold(g, d, <<WithKind("terminal", a, child[a].result)>>, "receipt", "rejected") /\ Goto(g, d, "holding")
          \/ UNCHANGED writer /\ Goto(g, d, "rejected")
      BY <1>2, <1>8 DEF Import
    <2> QED BY <1>3, <1>4, <2>1, <2>2, OneType
  <1>9. CASE Receipt(g, d)
    <2>1. \A r : WithKind("ready", a, r).type = "ready" BY DEF WithKind
    <2>2. Of("accepted", d).type = "accepted" /\ OfAttempt("settled", a).type = "settled" BY DEF Of, OfAttempt
    <2>3. \/ \E r : Hold(g, d, <<WithKind("ready", a, r), Of("accepted", d), OfAttempt("settled", a)>>, "settle", "rejected")
                    /\ Goto(g, d, "holding")
          \/ UNCHANGED writer /\ Goto(g, d, "rejected")
      BY <1>2, <1>9 DEF Receipt
    <2>4. ASSUME NEW r, Hold(g, d, <<WithKind("ready", a, r), Of("accepted", d), OfAttempt("settled", a)>>, "settle", "rejected"),
                 Goto(g, d, "holding")
          PROVE  Booking'
      BY <1>3, <2>1, <2>2, <2>4, ThreeTypes
    <2> QED BY <1>4, <2>3, <2>4
  <1> QED BY <1>5, <1>6, <1>7, <1>8, <1>9

LEMMA BookedRecover ==
  ASSUME Inv, Admission', Booking, SpentKept, NEW g \in Commands, NEW d \in Delegations, Recover(g, d)
  PROVE  Booking'
  <1>1. /\ UNCHANGED session /\ cmd[g].pc = "run" /\ writer.by = 0 /\ thr[g][d].pc = "recover"
    BY DEF Recover, Launching, WriterFree
  <1>2. thr[g][d].n \in 1..2 BY <1>1, LaunchKnows
  <1>3. PICK n \in 1..2 : n = thr[g][d].n BY <1>2
  <1>4. CASE UNCHANGED writer /\ Goto(g, d, "rejected") BY <1>1, <1>4, GotoBooks DEF LaunchSteps
  <1>5. CASE Recoverable(session, <<d, n>>) /\ HoldOrGo(g, d, Recovering(session, <<d, n>>), "reconcile", "rejected")
    <2>1. CASE UNCHANGED writer /\ Goto(g, d, "reconcile") BY <1>1, <2>1, GotoBooks DEF LaunchSteps
    <2>2. CASE Hold(g, d, Recovering(session, <<d, n>>), "reconcile", "rejected") /\ Goto(g, d, "holding")
      <3>1. PICK q : q = Recovering(session, <<d, n>>) OBVIOUS
      <3>2. \A i \in DOMAIN q : q[i].type # "barrier_released" BY <1>5, <3>1, RecoveringTypes
      <3> QED BY <1>1, <2>2, <3>1, <3>2, HoldBooks
    <2> QED BY <1>5, <2>1, <2>2 DEF HoldOrGo
  <1> QED BY <1>3, <1>4, <1>5 DEF Recover, ActorIn

\* The retry: its admission goes back, a fresh envelope, and another admission.
LEMMA BookedRelease ==
  ASSUME Inv, Admission', Booking, SpentKept, NEW g \in Commands, NEW d \in Delegations, Release(g, d)
  PROVE  Booking'
  <1>1. /\ UNCHANGED session /\ cmd[g].pc = "run" /\ writer.by = 0 /\ thr[g][d].pc = "release"
        /\ Hold(g, d, Releasing(<<d, thr[g][d].n>>, g), "prepare", "rejected") /\ Goto(g, d, "holding")
    BY DEF Release, Launching, WriterFree, ActorIn
  <1>2. UNCHANGED cmd /\ \E t \in LaunchType : Moves(g, d, t) /\ t.pc = "holding" /\ t.n = thr[g][d].n
    BY <1>1, GotoLaunch DEF LaunchSteps
  <1>3. PICK t \in LaunchType : Moves(g, d, t) /\ t.pc = "holding" /\ t.n = thr[g][d].n BY <1>2
  <1>4. thr'[g][d] = t BY <1>3, ThrUpdate DEF Inv
  <1>5. /\ writer'.by = g /\ writer'.of = d /\ writer'.then = "prepare"
        /\ writer'.todo = Releasing(<<d, thr[g][d].n>>, g)
    BY <1>1 DEF Hold
  <1>6. ASSUME NEW i \in DOMAIN writer'.todo PROVE writer'.todo[i].type \in {"claim_released", "slot_released"}
    <2>1. PICK e, f : /\ e = Held("claim_released", <<d, thr[g][d].n>>, g) /\ f = Held("slot_released", <<d, thr[g][d].n>>, g)
      OBVIOUS
    <2>2. e.type = "claim_released" /\ f.type = "slot_released" BY <2>1 DEF Held
    <2>3. writer'.todo = <<e, f>> BY <1>5, <2>1 DEF Releasing
    <2> QED BY <2>2, <2>3
  <1>7. WriterClear'
    <2>1. ASSUME NEW i \in DOMAIN writer'.todo
          PROVE  GrantClear(session, writer, i)' /\ OpenClear(session, writer, {writer.by, cmd[writer.by].grp}, i)'
      BY <1>6 DEF GrantClear, OpenClear, Granting
    <2>2. RetryClear(session, writer, thr[writer.by][writer.of].n)' BY <1>3, <1>4, <1>5 DEF RetryClear
    <2> QED BY <2>1, <2>2 DEF WriterClear
  <1> QED BY <1>1, <1>2, <1>3, <1>5, <1>7, LaunchBooks

LEMMA BookedPrepare ==
  ASSUME Inv, Admission', Booking, SpentKept, NEW g \in Commands, NEW d \in Delegations, Prepare(g, d)
  PROVE  Booking'
  <1>1. UNCHANGED <<session, cmd>> /\ cmd[g].pc = "run" /\ writer.by = 0 /\ thr[g][d].pc = "prepare"
    BY DEF Prepare, Launching, WriterFree
  <1>2. thr[g][d] \in LaunchType BY DEF Inv, Types
  <1>3. CASE /\ Hold(g, d, <<Of("prepared", d)>>, "readmit", "rejected")
             /\ thr' = [thr EXCEPT ![g][d].pc = "holding", ![g][d].slot = 0]
    <2>1. PICK t : t = SlotAt(thr[g][d], "holding", 0) OBVIOUS
    <2>2. t \in LaunchType /\ t.pc = "holding" BY <1>2, <2>1, LaunchSlot DEF LaunchSteps
    <2>3. Moves(g, d, t) BY <1>3, <2>1 DEF Moves, SlotAt
    <2>4. Of("prepared", d).type = "prepared" BY DEF Of
    <2>5. WriterClear' BY <1>3, <2>4, OneType, PlainClear
    <2>6. writer'.then = "readmit" BY <1>3 DEF Hold
    <2> QED BY <1>1, <2>2, <2>3, <2>5, <2>6, LaunchBooks
  <1>4. CASE thr' = [thr EXCEPT ![g][d].pc = "rejected", ![g][d].slot = 0] /\ UNCHANGED writer
    <2>1. PICK t : t = SlotAt(thr[g][d], "rejected", 0) OBVIOUS
    <2>2. t \in LaunchType /\ t.pc = "rejected" /\ t.n = thr[g][d].n BY <1>2, <2>1, LaunchSlot DEF LaunchSteps
    <2>3. Moves(g, d, t) BY <1>4, <2>1 DEF Moves, SlotAt
    <2> QED BY <1>1, <1>4, <2>2, <2>3, LaunchBooks
  <1> QED BY <1>3, <1>4 DEF Prepare

\* Whoever is admitted where nothing of the delegation is held is alone with it.
LEMMA ClaimingClear ==
  ASSUME NEW d \in Delegations, NEW n, NEW g \in Commands, NEW k, NEW s, Clear(s, g, d),
         NEW w, w.todo = Claiming(<<d, n>>, g, k), w.of = d, NEW own, NEW i \in DOMAIN w.todo
  PROVE  GrantClear(s, w, i) /\ OpenClear(s, w, own, i)
  <1>1. PICK e, f : /\ e = [type |-> "slot_claimed", d |-> d, n |-> n, group |-> g, slot |-> k]
                    /\ f = Held("claim_granted", <<d, n>>, g)
    OBVIOUS
  <1>2. /\ e.type = "slot_claimed" /\ e.d = d /\ e.n = n /\ e.group = g
        /\ f.type = "claim_granted" /\ f.d = d /\ f.n = n /\ f.group = g
    BY <1>1 DEF Held
  <1>3. w.todo = <<e, f>> BY <1>1 DEF Claiming
  <1>4. (i = 1 /\ w.todo[i] = e) \/ (i = 2 /\ w.todo[i] = f) BY <1>3
  <1>5. \A j \in DOMAIN w.todo : w.todo[j] = e \/ w.todo[j] = f BY <1>3
  <1>6. OpenClear(s, w, own, i) BY <1>2, <1>4 DEF OpenClear
  <1>7. Only(s.slots, e) /\ Only(s.claims, f) BY <1>2 DEF Only, Clear, NoneFor
  <1>8. GrantClear(s, w, i) BY <1>2, <1>4, <1>5, <1>7 DEF GrantClear
  <1> QED BY <1>6, <1>8

LEMMA BookedReadmit ==
  ASSUME Inv, Admission', Booking, SpentKept, NEW g \in Commands, NEW d \in Delegations, Inv', Readmit(g, d)
  PROVE  Booking'
  <1>1. UNCHANGED <<session, cmd>> /\ cmd[g].pc = "run" /\ writer.by = 0 /\ thr[g][d].pc = "readmit"
    BY DEF Readmit, Launching, WriterFree
  <1>2. Clear(session, g, d) BY <1>1 DEF Booking, LaunchClear, Retrying
  <1>a. PICK n, k : \/ /\ Hold(g, d, Claiming(<<d, n>>, g, k), "launch", "rejected")
                       /\ thr' = [thr EXCEPT ![g][d] = [@ EXCEPT !.pc = "holding", !.n = n, !.slot = k,
                                                                !.seen = FALSE, !.err = "none"]]
                    \/ thr' = [thr EXCEPT ![g][d].pc = "rejected"] /\ UNCHANGED writer
    <2> DEFINE A == {e \in Delegations : thr[g][e].slot # 0}
               k == CHOOSE i \in 1..3 : /\ \A e \in A : thr[g][e].slot # i
                                       /\ \A j \in 1 .. i - 1 : \E e \in A : thr[g][e].slot = j
    <2>1. \/ /\ Hold(g, d, Claiming(<<d, session.envelopes[d]>>, g, k), "launch", "rejected")
             /\ thr' = [thr EXCEPT ![g][d] = [@ EXCEPT !.pc = "holding", !.n = session.envelopes[d], !.slot = k,
                                                      !.seen = FALSE, !.err = "none"]]
          \/ thr' = [thr EXCEPT ![g][d].pc = "rejected"] /\ UNCHANGED writer
      BY DEF Readmit
    <2> HIDE DEF k
    <2> QED BY <2>1
  <1>3. PICK t :
          \/ /\ Hold(g, d, Claiming(<<d, n>>, g, k), "launch", "rejected")
             /\ t = [thr[g][d] EXCEPT !.pc = "holding", !.n = n, !.slot = k, !.seen = FALSE, !.err = "none"]
             /\ thr' = [thr EXCEPT ![g][d] = t]
          \/ /\ thr' = [thr EXCEPT ![g][d] = t] /\ UNCHANGED writer
             /\ t = [thr[g][d] EXCEPT !.pc = "rejected"]
    BY <1>a
  <1>4. thr[g][d] \in LaunchType /\ thr \in [Commands -> [Delegations -> LaunchType]]
        /\ thr' \in [Commands -> [Delegations -> LaunchType]]
    BY DEF Inv, Types
  <1>5. thr' = [thr EXCEPT ![g][d] = t] BY <1>3
  <1>6. thr'[g][d] = t BY <1>4, <1>5
  <1>7. t \in LaunchType BY <1>4, <1>6
  <1>8. Moves(g, d, t) BY <1>5 DEF Moves
  <1>9. CASE Hold(g, d, Claiming(<<d, n>>, g, k), "launch", "rejected")
             /\ t = [thr[g][d] EXCEPT !.pc = "holding", !.n = n, !.slot = k, !.seen = FALSE, !.err = "none"]
    <2>1. t.pc = "holding" BY <1>4, <1>9 DEF LaunchType
    <2>2. /\ writer'.of = d /\ writer'.then = "launch" /\ writer'.todo = Claiming(<<d, n>>, g, k)
      BY <1>9 DEF Hold
    <2>3. ASSUME NEW i \in DOMAIN writer'.todo
          PROVE  GrantClear(session, writer, i)' /\ OpenClear(session, writer, {writer.by, cmd[writer.by].grp}, i)'
      BY <1>1, <1>2, <2>2, <2>3, ClaimingClear
    <2>4. WriterClear' BY <2>2, <2>3 DEF WriterClear
    <2> QED BY <1>1, <1>7, <1>8, <2>1, <2>2, <2>4, LaunchBooks
  <1>10. CASE UNCHANGED writer /\ t = [thr[g][d] EXCEPT !.pc = "rejected"]
    <2>1. t.pc = "rejected" /\ t.n = thr[g][d].n BY <1>4, <1>10 DEF LaunchType
    <2> QED BY <1>1, <1>7, <1>8, <1>10, <2>1, LaunchBooks
  <1> QED BY <1>3, <1>9, <1>10

LEMMA BookedLaunch ==
  ASSUME Inv, Inv', Admission, Admission', Booking, NEW g \in Commands, NEW d \in Delegations,
         Launch(g, d) \/ PollCancel(g, d)
  PROVE  Booking'
  <1>1. SpentKept BY SpentLaunch
  <1> QED BY <1>1, BookedMoves, BookedSendStart, BookedPollCancel, BookedRecords, BookedRecover, BookedRelease,
             BookedPrepare, BookedReadmit DEF Launch

-----------------------------------------------------------------------------
(* The steps of a command that admit nobody and open nothing. *)

LEMMA CommandBooks ==
  ASSUME Inv, Booking, SpentKept, UNCHANGED session, NEW g \in Commands, NEW c \in CommandType, Comes(g, c),
         \A h \in Commands : h # g => thr'[h] = thr[h],
         c.pc = "run" => cmd[g].pc = "run" /\ thr'[g] = thr[g],
         \/ UNCHANGED writer /\ (writer.by = g => thr'[g] = thr[g] /\ c.grp = cmd[g].grp)
         \/ writer.by = 0 /\ WriterClear'
         \/ writer.by = g /\ c.pc # "run" /\ writer' = Free
  PROVE  Booking'
  <1>1. cmd'[g] = c /\ \A h \in Commands : h # g => cmd'[h] = cmd[h] BY ComesFacts
  <1>2. \A h \in Commands, e \in Delegations : thr[h][e].pc = "holding" => writer.by = h /\ writer.of = e
    BY HoldingIs
  <1>3. ASSUME NEW h \in Commands, NEW e \in Delegations, Retrying(h, e)' PROVE Retrying(h, e)
    <2>1. cmd'[h].pc = "run" BY <1>3 DEF Retrying
    <2>2. cmd[h].pc = "run" /\ thr'[h] = thr[h] /\ (h = g => c.pc = "run") BY <1>1, <2>1
    <2>3. CASE thr[h][e].pc = "holding"
      <3>1. writer.by = h /\ h # 0 BY <1>2, <2>3 DEF Commands
      <3>2. UNCHANGED writer BY <2>2, <3>1
      <3> QED BY <1>3, <2>2, <3>2 DEF Retrying
    <2>4. CASE thr[h][e].pc # "holding" BY <1>3, <2>2, <2>4 DEF Retrying
    <2> QED BY <2>3, <2>4
  <1>4. SameBook BY SessionSame
  <1>5. WriterClear'
    <2>1. CASE UNCHANGED writer /\ (writer.by = g => thr'[g] = thr[g] /\ c.grp = cmd[g].grp)
      <3>1. writer.by # 0 => writer.by \in Commands BY WriterHolder
      <3>2. writer.by # 0 => cmd'[writer.by].grp = cmd[writer.by].grp /\ thr'[writer.by] = thr[writer.by]
        BY <1>1, <2>1, <3>1
      <3> QED BY <1>4, <2>1, <3>2, ClearStays
    <2> QED BY <2>1, FreeIsClear
  <1> QED BY <1>3, <1>4, <1>5, StepIsBooked

\* Who does not hold the writer goes on without it.
LEMMA CommandLeaves ==
  ASSUME Inv, Booking, SpentKept, UNCHANGED <<session, writer>>, NEW g \in Commands, NEW c \in CommandType,
         Comes(g, c), \A h \in Commands : h # g => thr'[h] = thr[h],
         c.pc # "run", cmd[g].pc # "holding", cmd[g].pc = "run" => writer.by = 0
  PROVE  Booking'
  <1>1. writer.by # g
    <2> SUFFICES ASSUME writer.by = g PROVE FALSE OBVIOUS
    <2>1. writer.by # 0 BY DEF Commands
    <2>2. CommandHolds(g) \/ LaunchHolds(g, writer.of) BY <2>1, WriterHolder
    <2>3. cmd[g].pc \in {"holding", "run"} BY <2>2 DEF CommandHolds, LaunchHolds
    <2> QED BY <2>1, <2>3
  <1> QED BY <1>1, CommandBooks

LEMMA CommandGotoBooks ==
  ASSUME Inv, Booking, SpentKept, UNCHANGED <<session, writer>>, NEW g \in Commands,
         NEW to \in CommandSteps \ {"run"}, Goto(g, 0, to), cmd[g].pc # "holding", cmd[g].pc = "run" => writer.by = 0
  PROVE  Booking'
  <1>1. CASE to = "done"
    <2>1. Over(g) BY <1>1 DEF Goto
    <2>2. Quits(g) BY <2>1, OverFacts
    <2>3. PICK c \in CommandType : Comes(g, c) /\ c.pc = "done" BY <2>1, OverFacts
    <2>4. \A h \in Commands : h # g => thr'[h] = thr[h] BY <2>2, QuitsLaunches
    <2> QED BY <2>3, <2>4, CommandLeaves
  <1>2. CASE to # "done"
    <2>1. cmd' = [cmd EXCEPT ![g].pc = to] /\ UNCHANGED thr BY <1>2 DEF Goto
    <2>2. PICK c : c = [cmd[g] EXCEPT !.pc = to] OBVIOUS
    <2>3. cmd[g] \in CommandType BY CommandKnows
    <2>4. c \in CommandType /\ c.pc = to BY <2>2, <2>3 DEF CommandType
    <2>5. Comes(g, c) BY <2>1, <2>2 DEF Comes
    <2> QED BY <2>1, <2>4, <2>5, CommandLeaves
  <1> QED BY <1>1, <1>2

LEMMA CommandHoldBooks ==
  ASSUME Inv, Booking, UNCHANGED <<session, op, child>>, NEW g \in Commands, writer.by = 0,
         cmd' = [cmd EXCEPT ![g].pc = "holding"], \A h \in Commands : h # g => thr'[h] = thr[h], WriterClear'
  PROVE  Booking'
  <1>1. PICK c : c = [cmd[g] EXCEPT !.pc = "holding"] OBVIOUS
  <1>2. cmd[g] \in CommandType BY CommandKnows
  <1>3. c \in CommandType /\ c.pc = "holding" BY <1>1, <1>2 DEF CommandType, CommandSteps
  <1>4. Comes(g, c) BY <1>1 DEF Comes
  <1>5. SpentKept BY SpentSame
  <1> QED BY <1>3, <1>4, <1>5, CommandBooks

LEMMA PlainCommandHold ==
  ASSUME Inv, Admission', Booking, UNCHANGED <<session, op, child>>, NEW g \in Commands, writer.by = 0,
         NEW events, NEW then, Hold(g, 0, events, then, "done"), Goto(g, 0, "holding"), then # "run", then # "launch",
         \A i \in DOMAIN events : events[i].type # "barrier_released"
  PROVE  Booking'
  <1>1. WriterClear' BY PlainClear
  <1>2. cmd' = [cmd EXCEPT ![g].pc = "holding"] /\ UNCHANGED thr BY DEF Goto
  <1> QED BY <1>1, <1>2, CommandHoldBooks

LEMMA BookedCommandGoes ==
  ASSUME Inv, Booking, SpentKept, NEW g \in Commands,
         Fence(g) \/ Acquire(g) \/ ReleaseLease(g) \/ Unlease(g) \/ Yield(g) \/ Again(g) \/ Seize(g) \/ Reclaim(g)
  PROVE  Booking'
  <1>1. /\ UNCHANGED <<session, writer>>
        /\ cmd[g].pc \in {"fence", "acquire", "release", "unlease", "yield", "again", "seize", "reclaim"}
    BY DEF Fence, Acquire, ReleaseLease, Unlease, Yield, Again, Seize, Reclaim
  <1>2. \E to \in {"acquire", "cancelled", "done", "admit", "again", "prepare", "read", "adopt", "unlease"} :
          Goto(g, 0, to)
    <2>1. CASE Reclaim(g)
      <3>1. PICK to \in {"unlease", "again"} : cmd' = [cmd EXCEPT ![g].pc = to] /\ UNCHANGED thr BY <2>1 DEF Reclaim
      <3>2. Goto(g, 0, to) BY <3>1 DEF Goto
      <3> QED BY <3>2
    <2> QED BY <2>1 DEF Fence, Acquire, ReleaseLease, Unlease, Yield, Again, Seize
  <1> QED BY <1>1, <1>2, CommandGotoBooks DEF CommandSteps

LEMMA BookedBegin ==
  ASSUME Inv, Booking, SpentKept, NEW g \in Commands, Begin(g)
  PROVE  Booking'
  <1>1. UNCHANGED <<session, writer, thr>> /\ cmd[g].pc = "unused" BY DEF Begin
  <1>2. PICK d \in Delegations, pc \in {"read", "inspect"} : cmd' = [cmd EXCEPT ![g].pc = pc, ![g].sel = d] BY DEF Begin
  <1>3. PICK c : c = [cmd[g] EXCEPT !.pc = pc, !.sel = d] OBVIOUS
  <1>4. cmd[g] \in CommandType BY CommandKnows
  <1>5. c \in CommandType /\ c.pc = pc
    <2>1. pc \in CommandSteps /\ d \in 0..NDelegations BY DelegationAssumption DEF CommandSteps, Delegations
    <2> QED BY <1>3, <1>4, <2>1 DEF CommandType
  <1>6. Comes(g, c) BY <1>2, <1>3 DEF Comes
  <1> QED BY <1>1, <1>5, <1>6, CommandLeaves

LEMMA BookedAbort ==
  ASSUME Inv, Booking, SpentKept, NEW g \in Commands, Abort(g)
  PROVE  Booking'
  <1>1. UNCHANGED <<session, writer, thr>> BY DEF Abort
  <1>2. PICK why \in {"cancel", "fatal"} : cmd' = [cmd EXCEPT ![g].aborted = why] BY DEF Abort
  <1>3. PICK c : c = [cmd[g] EXCEPT !.aborted = why] OBVIOUS
  <1>4. cmd[g] \in CommandType BY CommandKnows
  <1>5. c \in CommandType /\ c.pc = cmd[g].pc /\ c.grp = cmd[g].grp BY <1>3, <1>4 DEF CommandType
  <1>6. Comes(g, c) BY <1>2, <1>3 DEF Comes
  <1> QED BY <1>1, <1>5, <1>6, CommandBooks

LEMMA BookedDies ==
  ASSUME Inv, Booking, SpentKept, NEW g \in Commands, Crash(g) \/ Exit(g)
  PROVE  Booking'
  <1>1. UNCHANGED session /\ Over(g) /\ writer' = IF writer.by = g THEN Free ELSE writer BY DEF Crash, Exit, Dies
  <1>2. Quits(g) BY <1>1, OverFacts
  <1>3. PICK c \in CommandType : Comes(g, c) /\ c.pc = "done" BY <1>1, OverFacts
  <1>4. \A h \in Commands : h # g => thr'[h] = thr[h] BY <1>2, QuitsLaunches
  <1> QED BY <1>1, <1>3, <1>4, CommandBooks

\* A command that only looks, and goes on with what it has seen.
LEMMA CommandLooks ==
  ASSUME Inv, Inv', Booking, SpentKept, UNCHANGED <<session, writer, thr>>, NEW g \in Commands, NEW c, Comes(g, c),
         c.pc # "run", cmd[g].pc \notin {"holding", "run"}
  PROVE  Booking'
  <1>1. cmd'[g] = c BY DEF Comes, Inv, Types
  <1>2. c \in CommandType BY <1>1 DEF Inv, Types
  <1> QED BY <1>2, CommandLeaves

LEMMA BookedRead ==
  ASSUME Inv, Inv', Booking, SpentKept, NEW g \in Commands, Read(g)
  PROVE  Booking'
  <1>1. UNCHANGED <<session, writer>> /\ cmd[g].pc = "read" BY DEF Read
  <1>2. CASE Over(g)
    <2>1. Goto(g, 0, "done") BY <1>2 DEF Goto
    <2> QED BY <1>1, <2>1, CommandGotoBooks DEF CommandSteps
  <1>3. PICK adm : adm = Admit({}, Ready(session)) OBVIOUS
  <1>4. CASE cmd' = [cmd EXCEPT ![g].pc = "fence", ![g].adm = adm] /\ UNCHANGED thr
    <2>1. PICK c : c = [cmd[g] EXCEPT !.pc = "fence", !.adm = adm] OBVIOUS
    <2>2. Comes(g, c) BY <1>4, <2>1 DEF Comes, Inv, Types
    <2>3. cmd[g] \in CommandType BY CommandKnows
    <2>4. c.pc = "fence" BY <2>1, <2>3 DEF CommandType
    <2> QED BY <1>1, <1>4, <2>2, <2>4, CommandLooks
  <1> QED BY <1>2, <1>3, <1>4 DEF Read

LEMMA BookedTakeover ==
  ASSUME Inv, Inv', Booking, SpentKept, NEW g \in Commands, Takeover(g)
  PROVE  Booking'
  <1>1. UNCHANGED <<session, writer>> /\ cmd[g].pc = "takeover" BY DEF Takeover
  <1>2. CASE Over(g)
    <2>1. Goto(g, 0, "done") BY <1>2 DEF Goto
    <2> QED BY <1>1, <2>1, CommandGotoBooks DEF CommandSteps
  <1>3. CASE UNCHANGED thr /\ \E b : cmd' = [cmd EXCEPT ![g].pc = "seize", ![g].grp = b, ![g].from = session.nonce[b]]
    <2>1. PICK b : cmd' = [cmd EXCEPT ![g].pc = "seize", ![g].grp = b, ![g].from = session.nonce[b]] BY <1>3
    <2>2. PICK c : c = [cmd[g] EXCEPT !.pc = "seize", !.grp = b, !.from = session.nonce[b]] OBVIOUS
    <2>3. Comes(g, c) BY <2>1, <2>2 DEF Comes, Inv, Types
    <2>4. cmd[g] \in CommandType BY CommandKnows
    <2>5. c.pc = "seize" BY <2>2, <2>4 DEF CommandType
    <2> QED BY <1>1, <1>3, <2>3, <2>5, CommandLooks
  <1>4. Over(g) \/ (UNCHANGED thr /\ \E b : cmd' = [cmd EXCEPT ![g].pc = "seize", ![g].grp = b, ![g].from = session.nonce[b]])
    <2> HIDE DEF Over
    <2> QED BY ZenonT(60) DEF Takeover
  <1> QED BY <1>2, <1>3, <1>4

LEMMA BookedInspect ==
  ASSUME Inv, Inv', Admission', Booking, SpentKept, NEW g \in Commands, Inspect(g)
  PROVE  Booking'
  <1>1. UNCHANGED <<session, op, child>> /\ cmd[g].pc = "inspect" /\ writer.by = 0 BY DEF Inspect, WriterFree
  <1>2. PICK n, b : n = LastActor(session, cmd[g].sel)[2] /\ b = GroupOf(session, LastActor(session, cmd[g].sel))
    OBVIOUS
  <1>3. CASE cmd' = [cmd EXCEPT ![g] = [@ EXCEPT !.pc = "recover", !.n = n, !.grp = b]] /\ UNCHANGED <<writer, thr>>
    <2>1. PICK c : c = [cmd[g] EXCEPT !.pc = "recover", !.n = n, !.grp = b] OBVIOUS
    <2>2. Comes(g, c) BY <1>3, <2>1 DEF Comes
    <2>3. cmd[g] \in CommandType BY CommandKnows
    <2>4. c.pc = "recover" BY <2>1, <2>3 DEF CommandType
    <2> QED BY <1>1, <1>3, <2>2, <2>4, CommandLooks
  <1>4. CASE \E to \in {"takeover", "prepare", "read", "done"} : Goto(g, 0, to) /\ UNCHANGED writer
    BY <1>1, <1>4, CommandGotoBooks DEF CommandSteps
  <1>5. CASE Hold(g, 0, <<Of("queued", cmd[g].sel)>>, "done", "done") /\ Goto(g, 0, "holding")
    <2>1. Of("queued", cmd[g].sel).type = "queued" BY DEF Of
    <2> QED BY <1>1, <1>5, <2>1, OneType, PlainCommandHold
  <1>6. \/ cmd' = [cmd EXCEPT ![g] = [@ EXCEPT !.pc = "recover", !.n = n, !.grp = b]] /\ UNCHANGED <<writer, thr>>
        \/ \E to \in {"takeover", "prepare", "read", "done"} : Goto(g, 0, to) /\ UNCHANGED writer
        \/ Hold(g, 0, <<Of("queued", cmd[g].sel)>>, "done", "done") /\ Goto(g, 0, "holding")
    BY <1>2 DEF Inspect
  <1> QED BY <1>3, <1>4, <1>5, <1>6

LEMMA BookedPrepares ==
  ASSUME Inv, Admission', Booking, SpentKept, NEW g \in Commands, AppendPreEffectTerminal(g) \/ PrepareAgain(g)
  PROVE  Booking'
  <1>1. UNCHANGED <<session, op, child>> /\ cmd[g].pc \in {"cancelled", "prepare"} /\ writer.by = 0
    BY DEF AppendPreEffectTerminal, PrepareAgain, WriterFree
  <1>2. CASE Goto(g, 0, "done") /\ UNCHANGED writer BY <1>1, <1>2, CommandGotoBooks DEF CommandSteps
  <1>3. PICK e, f : e = OfAttempt("pre_effect_cancelled", <<cmd[g].sel, 0>>) /\ f = Of("prepared", cmd[g].sel) OBVIOUS
  <1>4. e.type = "pre_effect_cancelled" /\ f.type = "prepared" BY <1>3 DEF OfAttempt, Of
  <1>5. CASE Hold(g, 0, <<e>>, "done", "done") /\ Goto(g, 0, "holding")
    BY <1>1, <1>4, <1>5, OneType, PlainCommandHold
  <1>6. CASE Hold(g, 0, <<f>>, "read", "done") /\ Goto(g, 0, "holding")
    BY <1>1, <1>4, <1>6, OneType, PlainCommandHold
  <1> QED BY <1>2, <1>3, <1>5, <1>6 DEF AppendPreEffectTerminal, PrepareAgain

\* The user and the children.
LEMMA BookedChild ==
  ASSUME Inv, Booking, NEW a \in Actors, ChildStart(a) \/ ChildEnd(a) \/ ChildDies(a)
  PROVE  Booking'
  <1>1. UNCHANGED <<session, writer, cmd, thr>> BY DEF ChildStart, ChildEnd, ChildDies
  <1>2. SpentKept BY SpentChild
  <1>3. SameBook BY <1>1, SessionSame
  <1>4. WriterClear' BY <1>1, <1>3, ClearStays
  <1>5. \A h \in Commands, e \in Delegations : Retrying(h, e)' => Retrying(h, e) BY <1>1 DEF Retrying
  <1> QED BY <1>2, <1>3, <1>4, <1>5, StepIsBooked

LEMMA BookedUser ==
  ASSUME Inv, Booking, NEW d \in Delegations, Decide(d) \/ Enqueue(d) \/ PrepareEnvelope(d) \/ Cancel(d)
  PROVE  Booking'
  <1>1. UNCHANGED <<writer, op, child, cmd, thr>> /\ SameBook BY UserKeepsBook
  <1>2. SpentKept BY <1>1, SpentSame
  <1>3. WriterClear' BY <1>1, ClearStays
  <1>4. \A h \in Commands, e \in Delegations : Retrying(h, e)' => Retrying(h, e) BY <1>1 DEF Retrying
  <1> QED BY <1>1, <1>2, <1>3, <1>4, StepIsBooked

-----------------------------------------------------------------------------
(* The steps of a command that open barriers: what they give back first. *)

LEMMA Joined ==
  ASSUME NEW E, NEW p \in Seq(E), NEW r \in Seq(E), NEW q, q = p \o r, NEW n, n = Len(p)
  PROVE  /\ q \in Seq(E) /\ n \in Nat /\ Len(r) \in Nat /\ Len(q) = n + Len(r)
         /\ \A k \in 1 .. n : q[k] = p[k]
         /\ \A k \in 1 .. Len(r) : q[n + k] = r[k]
  BY ConcatFacts

LEMMA LoopAll ==
  ASSUME NEW E, NEW F \in [Delegations -> Seq(E)], NEW q, q = Flatten(F)
  PROVE  /\ q \in Seq(E)
         /\ \A d \in Delegations : \A j \in 1 .. Len(F[d]) : \E k \in 1 .. Len(q) : q[k] = F[d][j]
  <1>1. /\ Flatten(F) \in Seq(E)
        /\ \A d \in Delegations : \A j \in 1 .. Len(F[d]) :
             \E k \in 1 .. Len(Flatten(F)) : Flatten(F)[k] = F[d][j]
    BY LoopDelegations
  <1> QED BY <1>1

LEMMA GivenMore ==
  ASSUME NEW s, NEW p, NEW q, NEW b, Len(p) \in Nat, \A k \in 1 .. Len(p) : q[k] = p[k],
         NEW m \in Nat, m >= Len(p), Given(s, p, Len(p), b)
  PROVE  Given(s, q, m, b)
  <1>1. ASSUME NEW type, NEW x, Gives(p, Len(p), type, x) PROVE Gives(q, m, type, x)
    <2>1. PICK j \in 1 .. Len(p) : p[j].type = type /\ ActorOf(p[j]) = x.actor /\ p[j].group = x.group
      BY <1>1 DEF Gives
    <2>2. j \in 1 .. m /\ q[j] = p[j] BY <2>1
    <2> HIDE DEF ActorOf
    <2> QED BY <2>1, <2>2 DEF Gives
  <1> HIDE DEF Gives
  <1> QED BY <1>1 DEF Given

Closing == {e \in Event : e.type # "barrier_released"}

LEMMA ClosingEvents == ASSUME NEW p \in Seq(Closing) PROVE p \in Seq(Event) /\ \A i \in DOMAIN p : p[i].type # "barrier_released"
  <1>1. \A e \in Closing : e \in Event /\ e.type # "barrier_released"
    <2> HIDE DEF Event
    <2> QED BY DEF Closing
  <1> HIDE DEF Closing, Event
  <1> QED BY <1>1

\* A hold that gives back all that a group holds before it opens its barrier.
LEMMA OpeningClear ==
  ASSUME Admission', UNCHANGED session, NEW g, NEW p \in Seq(Closing), NEW r \in Seq(Event),
         NEW then, then \notin {"run", "launch"}, NEW refused, Hold(g, 0, p \o r, then, refused),
         \A k \in 1 .. Len(r) : r[k].group \in {g, cmd'[g].grp} => Given(session, p, Len(p), r[k].group)
  PROVE  WriterClear'
  <1>1. PICK q : q = p \o r OBVIOUS
  <1>2. p \in Seq(Event) /\ \A i \in DOMAIN p : p[i].type # "barrier_released" BY ClosingEvents
  <1>3. /\ q \in Seq(Event) /\ Len(p) \in Nat /\ Len(r) \in Nat /\ Len(q) = Len(p) + Len(r)
        /\ \A k \in 1 .. Len(p) : q[k] = p[k]
        /\ \A k \in 1 .. Len(r) : q[Len(p) + k] = r[k]
    <2>1. PICK E : E = Event OBVIOUS
    <2>2. p \in Seq(E) /\ r \in Seq(E) BY <1>2, <2>1
    <2> HIDE DEF Hold, Given
    <2>3. /\ q \in Seq(E) /\ Len(p) \in Nat /\ Len(r) \in Nat /\ Len(q) = Len(p) + Len(r)
          /\ \A k \in 1 .. Len(p) : q[k] = p[k]
          /\ \A k \in 1 .. Len(r) : q[Len(p) + k] = r[k]
      BY <1>1, <2>2, ConcatFacts
    <2> QED BY <2>1, <2>3
  <1>4. DOMAIN q = 1 .. Len(q) /\ DOMAIN p = 1 .. Len(p)
    <2> HIDE DEF Event
    <2> QED BY <1>2, <1>3
  <1>5. writer'.by = g /\ writer'.of = 0 /\ writer'.todo = q /\ writer'.then = then BY <1>1 DEF Hold
  <1>6. ASSUME NEW i \in DOMAIN q PROVE GrantClear(session, writer, i)'
    <2>1. Promised(session, writer, i)'
      <3> HIDE DEF Promised
      <3> QED BY <1>5, <1>6 DEF Admission, WriterSafe
    <2>2. q[i].type \notin {"slot_claimed", "claim_granted"} BY <1>5, <2>1 DEF Promised
    <2> QED BY <1>5, <2>2 DEF GrantClear, Granting
  <1>7. ASSUME NEW i \in DOMAIN q PROVE OpenClear(session, writer, {writer.by, cmd[writer.by].grp}, i)'
    <2> SUFFICES ASSUME q[i].type = "barrier_released", q[i].group \in {g, cmd'[g].grp}
                 PROVE  Given(session, q, i - 1, q[i].group)
      BY <1>5 DEF OpenClear
    <2>1. i \in 1 .. Len(q) /\ i \notin 1 .. Len(p) BY <1>2, <1>3, <1>4
    <2>2. PICK k \in 1 .. Len(r) : i = Len(p) + k
      <3>1. i - Len(p) \in 1 .. Len(r) /\ i = Len(p) + (i - Len(p)) BY <1>3, <2>1
      <3> QED BY <3>1
    <2>3. q[i] = r[k] BY <1>3, <2>2
    <2>4. Given(session, p, Len(p), q[i].group)
      <3> HIDE DEF Given
      <3> QED BY <2>3
    <2>5. i - 1 \in Nat /\ i - 1 >= Len(p) BY <1>3, <2>2
    <2>6. PICK b : b = q[i].group OBVIOUS
    <2> HIDE DEF Given
    <2>7. Given(session, q, i - 1, b) BY <1>3, <2>4, <2>5, <2>6, GivenMore
    <2> QED BY <2>6, <2>7
  <1> HIDE DEF GrantClear, OpenClear
  <1> QED BY <1>5, <1>6, <1>7 DEF WriterClear

\* What a projection keeps of the book, when the events only give back.
Returning == {"pre_effect_cancelled", "terminal", "settled", "claim_released", "slot_released"}
HasBook(t) == "slots" \in DOMAIN t /\ "claims" \in DOMAIN t
Keeps(s, t, q, m) ==
  /\ HasBook(t)
  /\ \A x \in s.slots : x \in t.slots \/ Gives(q, m, "slot_released", x)
  /\ \A x \in s.claims : x \in t.claims \/ Gives(q, m, "claim_released", x)

LEMMA ApplyReturns ==
  ASSUME NEW t, HasBook(t), NEW e, e.type \in Returning, NEW u, u = Apply(t, e)
  PROVE  /\ HasBook(u)
         /\ u.slots = IF e.type = "slot_released" THEN Without(t.slots, e) ELSE t.slots
         /\ u.claims = IF e.type = "claim_released" THEN Without(t.claims, e) ELSE t.claims
  <1>1. CASE e.type = "slot_released"
    <2>1. u = [t EXCEPT !.slots = Without(t.slots, e)] BY <1>1 DEF Apply, Without
    <2> HIDE DEF Without
    <2> QED BY <1>1, <2>1 DEF HasBook
  <1>2. CASE e.type = "claim_released"
    <2>1. u = [t EXCEPT !.claims = Without(t.claims, e)] BY <1>2 DEF Apply, Without
    <2> HIDE DEF Without
    <2> QED BY <1>2, <2>1 DEF HasBook
  <1>3. CASE e.type \in {"pre_effect_cancelled", "terminal", "settled"}
    <2>1. /\ HasBook(u) /\ u.slots = t.slots /\ u.claims = t.claims
      <3>1. CASE e.type = "pre_effect_cancelled"
        <4>1. PICK v, w : u = [t EXCEPT !.status = v, !.attempts = w]
          <5>1. u = [t EXCEPT !.status[e.d] = "cancelled",
                   !.attempts[e.d] = IF e.n = 0 THEN @
                                     ELSE [@ EXCEPT ![At(t, e.d, e.n)].terminal = "cancelled_clean"]]
            BY <3>1 DEF Apply
          <5> QED BY <5>1
        <4> QED BY <4>1 DEF HasBook
      <3>2. CASE e.type = "terminal"
        <4>1. PICK v, w : u = [t EXCEPT !.attempts = w, !.status = v]
          <5>1. u = [t EXCEPT !.attempts[e.d][At(t, e.d, e.n)].terminal = e.kind,
                   !.status[e.d] = AfterTerminal(t, e.d, e.kind)]
            BY <3>2 DEF Apply
          <5> QED BY <5>1
        <4> QED BY <4>1 DEF HasBook
      <3>3. CASE e.type = "settled"
        <4>1. PICK w : u = [t EXCEPT !.attempts = w]
          <5>1. u = [t EXCEPT !.attempts[e.d][At(t, e.d, e.n)].settled = TRUE]
            BY <3>3 DEF Apply
          <5> QED BY <5>1
        <4> QED BY <4>1 DEF HasBook
      <3> QED BY <1>3, <3>1, <3>2, <3>3
    <2> HIDE DEF HasBook, Without
    <2> QED BY <1>3, <2>1
  <1> QED BY <1>1, <1>2, <1>3 DEF Returning

LEMMA KeepsNext ==
  ASSUME NEW s, NEW t, NEW q, NEW m \in Nat, Keeps(s, t, q, m), NEW e, e = q[m + 1], e.type \in Returning,
         NEW u, u = Apply(t, e)
  PROVE  Keeps(s, u, q, m + 1)
  <1>1. /\ HasBook(u)
        /\ u.slots = IF e.type = "slot_released" THEN Without(t.slots, e) ELSE t.slots
        /\ u.claims = IF e.type = "claim_released" THEN Without(t.claims, e) ELSE t.claims
    <2> HIDE DEF HasBook, Without, Apply
    <2> QED BY ApplyReturns DEF Keeps
  <1>2. ASSUME NEW type, NEW x, Gives(q, m, type, x) PROVE Gives(q, m + 1, type, x)
    <2>1. \A j \in 1 .. m : j \in 1 .. m + 1 OBVIOUS
    <2> HIDE DEF ActorOf
    <2> QED BY <1>2, <2>1 DEF Gives
  <1>3. ASSUME NEW type, NEW x, e.type = type, x.actor = ActorOf(e), x.group = e.group
        PROVE  Gives(q, m + 1, type, x)
    <2>1. m + 1 \in 1 .. m + 1 OBVIOUS
    <2> HIDE DEF ActorOf
    <2> QED BY <1>3, <2>1 DEF Gives
  <1>4. ASSUME NEW x \in s.slots PROVE x \in u.slots \/ Gives(q, m + 1, "slot_released", x)
    <2>1. x \in t.slots \/ Gives(q, m, "slot_released", x) BY DEF Keeps
    <2> HIDE DEF Gives, ActorOf
    <2> QED BY <1>1, <1>2, <1>3, <2>1 DEF Without
  <1>5. ASSUME NEW x \in s.claims PROVE x \in u.claims \/ Gives(q, m + 1, "claim_released", x)
    <2>1. x \in t.claims \/ Gives(q, m, "claim_released", x) BY DEF Keeps
    <2> HIDE DEF Gives, ActorOf
    <2> QED BY <1>1, <1>2, <1>3, <2>1 DEF Without
  <1> HIDE DEF Gives, HasBook
  <1> QED BY <1>1, <1>4, <1>5 DEF Keeps

\* f is the projections after the first m events of q, none of which admits anybody.
Stages(f, s, q, m) ==
  /\ f = [i \in 0 .. m |-> f[i]] /\ f[0] = s
  /\ \A i \in 1 .. m : f[i] = Apply(f[i - 1], q[i])
  /\ Keeps(s, f[m], q, m)

LEMMA NextStage ==
  ASSUME NEW s, NEW q, NEW m \in Nat, q[m + 1].type \in Returning, NEW f, Stages(f, s, q, m)
  PROVE  \E h : Stages(h, s, q, m + 1)
  <1>1. PICK e : e = q[m + 1] OBVIOUS
  <1>2. PICK t : t = f[m] OBVIOUS
  <1>3. PICK u : u = Apply(t, e) OBVIOUS
  <1>4. Keeps(s, u, q, m + 1)
    <2>1. Keeps(s, t, q, m) BY <1>2 DEF Stages
    <2> HIDE DEF Keeps, Apply, Stages
    <2> QED BY <1>1, <1>3, <2>1, KeepsNext
  <1>5. PICK h : h = [i \in 0 .. m + 1 |-> IF i = m + 1 THEN u ELSE f[i]] OBVIOUS
  <1>6. h = [i \in 0 .. m + 1 |-> h[i]] /\ h[m + 1] = u /\ \A i \in 0 .. m : h[i] = f[i] BY <1>5
  <1>7. h[0] = s
    <2>1. 0 \in 0 .. m OBVIOUS
    <2>2. h[0] = f[0] BY <1>6, <2>1
    <2> QED BY <2>2 DEF Stages
  <1>8. ASSUME NEW i \in 1 .. m + 1 PROVE h[i] = Apply(h[i - 1], q[i])
    <2>1. CASE i = m + 1
      <3>1. i - 1 = m /\ m \in 0 .. m BY <2>1
      <3>2. h[i - 1] = t /\ h[i] = u /\ q[i] = e BY <1>1, <1>2, <1>6, <2>1, <3>1
      <3> HIDE DEF Apply
      <3> QED BY <1>3, <3>2
    <2>2. CASE i # m + 1
      <3>1. i \in 1 .. m /\ i \in 0 .. m BY <2>2
      <3>2. f[i] = Apply(f[i - 1], q[i]) BY <3>1 DEF Stages
      <3>3. h[i] = f[i] /\ h[i - 1] = f[i - 1]
        <4>1. PICK j : j = i - 1 OBVIOUS
        <4>2. j \in 0 .. m BY <3>1, <4>1
        <4>3. h[j] = f[j] /\ h[i] = f[i]
          <5> HIDE DEF Stages
          <5> QED BY <1>6, <3>1, <4>2, Zenon
        <4> QED BY <4>1, <4>3
      <3> HIDE DEF Apply
      <3> QED BY <3>2, <3>3
    <2> QED BY <2>1, <2>2
  <1>9. Keeps(s, h[m + 1], q, m + 1) BY <1>4, <1>6
  <1> HIDE DEF Keeps, Apply
  <1> QED BY <1>6, <1>7, <1>8, <1>9 DEF Stages

LEMMA ProjectKeeps ==
  ASSUME NEW s \in SessionType, NEW q \in Seq(Event), \A i \in 1 .. Len(q) : q[i].type \in Returning
  PROVE  Keeps(s, Project(s, q), q, Len(q))
  <1> HIDE DEF Event
  <1>0. Len(q) \in Nat OBVIOUS
  <1> DEFINE S == {m \in Nat : m <= Len(q) => \E f : Stages(f, s, q, m)}
  <1>1. 0 \in S
    <2>1. PICK f : f = [i \in 0 .. 0 |-> s] OBVIOUS
    <2>2. f = [i \in 0 .. 0 |-> f[i]] /\ f[0] = s BY <2>1
    <2>3. \A i \in 1 .. 0 : FALSE OBVIOUS
    <2>4. HasBook(s) BY DEF HasBook, SessionType
    <2>5. Keeps(s, f[0], q, 0)
      <3> HIDE DEF HasBook
      <3> QED BY <2>2, <2>4 DEF Keeps
    <2>6. Stages(f, s, q, 0)
      <3> HIDE DEF Keeps
      <3> QED BY <2>2, <2>3, <2>5 DEF Stages
    <2> HIDE DEF Stages
    <2> QED BY <2>6
  <1>2. ASSUME NEW m \in Nat, m \in S PROVE m + 1 \in S
    <2> SUFFICES ASSUME m + 1 <= Len(q) PROVE \E h : Stages(h, s, q, m + 1) OBVIOUS
    <2>1. m <= Len(q) /\ m + 1 \in 1 .. Len(q) BY <1>0
    <2>2. PICK f : Stages(f, s, q, m) BY <1>2, <2>1
    <2>3. q[m + 1].type \in Returning BY <2>1
    <2> HIDE DEF Stages
    <2> QED BY <2>2, <2>3, NextStage
  <1>3. \A m \in Nat : m \in S
    <2> HIDE DEF S
    <2> QED BY <1>1, <1>2, SetInduction
  <1>4. PICK f : Stages(f, s, q, Len(q)) BY <1>0, <1>3
  <1> HIDE DEF S
  <1> DEFINE g == CHOOSE h : h = [i \in 0 .. Len(q) |-> IF i = 0 THEN s ELSE Apply(h[i - 1], q[i])]
  <1>5. Project(s, q) = g[Len(q)] BY DEF Project
  <1> HIDE DEF Apply, Keeps
  <1>6. f = [i \in 0 .. Len(q) |-> IF i = 0 THEN s ELSE Apply(f[i - 1], q[i])]
    <2>1. \A i \in 0 .. Len(q) : i = 0 \/ i \in 1 .. Len(q) BY <1>0
    <2>2. \A i \in 0 .. Len(q) : f[i] = IF i = 0 THEN s ELSE Apply(f[i - 1], q[i])
      BY <1>4, <2>1 DEF Stages
    <2>3. f = [i \in 0 .. Len(q) |-> f[i]] BY <1>4 DEF Stages
    <2> QED BY <2>2, <2>3
  <1>7. g = [i \in 0 .. Len(q) |-> IF i = 0 THEN s ELSE Apply(g[i - 1], q[i])] BY <1>6
  <1> HIDE DEF g
  <1> DEFINE U == {m \in Nat : m <= Len(q) => g[m] = f[m]}
  <1>8. 0 \in U
    <2>1. 0 \in 0 .. Len(q) BY <1>0
    <2>2. g[0] = s BY <1>7, <2>1
    <2>3. f[0] = s BY <1>4 DEF Stages
    <2> QED BY <2>2, <2>3
  <1>9. ASSUME NEW m \in Nat, m \in U PROVE m + 1 \in U
    <2> SUFFICES ASSUME m + 1 <= Len(q) PROVE g[m + 1] = f[m + 1] OBVIOUS
    <2>1. m + 1 \in 0 .. Len(q) /\ m + 1 # 0 /\ (m + 1) - 1 = m BY <1>0
    <2>2. g[m + 1] = Apply(g[m], q[m + 1]) BY <1>7, <2>1
    <2>3. f[m + 1] = Apply(f[m], q[m + 1]) BY <1>6, <2>1
    <2>4. g[m] = f[m] BY <1>0, <1>9
    <2> QED BY <2>2, <2>3, <2>4
  <1>10. \A m \in Nat : m \in U
    <2> HIDE DEF U
    <2> QED BY <1>8, <1>9, SetInduction
  <1>11. g[Len(q)] = f[Len(q)] BY <1>0, <1>10
  <1>12. Keeps(s, f[Len(q)], q, Len(q)) BY <1>4 DEF Stages
  <1> HIDE DEF U
  <1> QED BY <1>5, <1>11, <1>12

\* A group that a projection shows with nothing held has been given all of it back.
LEMMA ProjectedClear ==
  ASSUME NEW s \in SessionType, NEW q \in Seq(Event), \A i \in 1 .. Len(q) : q[i].type \in Returning,
         NEW b, ~Admitted(Project(s, q), b)
  PROVE  Given(s, q, Len(q), b)
  <1>1. PICK t : t = Project(s, q) OBVIOUS
  <1>2. Keeps(s, t, q, Len(q)) BY <1>1, ProjectKeeps
  <1>3. ~Admitted(t, b) BY <1>1
  <1> HIDE DEF Gives, HasBook
  <1> QED BY <1>2, <1>3 DEF Keeps, Given, Admitted

LEMMA OpeningGroups ==
  ASSUME NEW B, NEW kind, \A b \in Commands : kind[b] \in {"completed", "cancelled", "blocked"}
  PROVE  /\ Opening(B, kind) \in Seq(Event)
         /\ \A k \in 1 .. Len(Opening(B, kind)) : Opening(B, kind)[k].group \in B
  <1> DEFINE E == {e \in Event : e.group \in B}
             F == [b \in Commands |-> IF b \in B THEN <<Opened(b, kind[b])>> ELSE <<>>]
  <1>1. ASSUME NEW b \in Commands, b \in B PROVE <<Opened(b, kind[b])>> \in Seq(E)
    <2>1. PICK k \in {"completed", "cancelled", "blocked"} : k = kind[b] OBVIOUS
    <2>2. Opened(b, k) \in E
      <3>1. Opened(b, k) \in Plain BY OpenedPlain
      <3>2. Opened(b, k) \in Event BY <3>1 DEF Plain
      <3>3. Opened(b, k).group = b BY DEF Opened
      <3> HIDE DEF Event, Opened
      <3> QED BY <1>1, <3>2, <3>3
    <2> HIDE DEF E, Opened
    <2> QED BY <2>1, <2>2
  <1>2. F \in [Commands -> Seq(E)]
    <2>1. <<>> \in Seq(E) OBVIOUS
    <2> HIDE DEF E, Opened
    <2> QED BY <1>1, <2>1
  <1>3. Opening(B, kind) = Flatten(F) BY DEF Opening, Opened
  <1>4. Opening(B, kind) \in Seq(E)
    <2> HIDE DEF F, E
    <2> QED BY <1>2, <1>3, LoopCommands
  <1>5. \A e \in E : e \in Event /\ e.group \in B
    <2> HIDE DEF Event
    <2> QED OBVIOUS
  <1> HIDE DEF E, F, Event, Opening
  <1> QED BY <1>4, <1>5

\* The events that give back, or that record what a recovery proves.
Returns == {e \in Event : e.type \in Returning}

LEMMA ReturnsEvents ==
  ASSUME NEW p \in Seq(Returns)
  PROVE  p \in Seq(Closing) /\ p \in Seq(Event) /\ \A i \in 1 .. Len(p) : p[i].type \in Returning
  <1>1. \A e \in Returns : e \in Closing /\ e \in Event /\ e.type \in Returning
    <2> HIDE DEF Event
    <2> QED BY DEF Returns, Closing, Returning
  <1> HIDE DEF Returns, Closing, Event, Returning
  <1> QED BY <1>1

LEMMA HeldReturns ==
  ASSUME NEW d \in Delegations, NEW n \in 1..2, NEW g \in 0..MaxCommands
  PROVE  /\ \A type \in {"claim_released", "slot_released"} : Held(type, <<d, n>>, g) \in Returns
         /\ Releasing(<<d, n>>, g) \in Seq(Returns)
  <1>1. ASSUME NEW type \in {"claim_released", "slot_released"} PROVE Held(type, <<d, n>>, g) \in Returns
    <2>1. Frees(Held(type, <<d, n>>, g), type, d, n, g) BY HeldFields
    <2> HIDE DEF Held, Event, ActorOf
    <2> QED BY <2>1 DEF Frees, Returns, Returning
  <1>2. PICK e, f : e = Held("claim_released", <<d, n>>, g) /\ f = Held("slot_released", <<d, n>>, g) OBVIOUS
  <1>3. e \in Returns /\ f \in Returns
    <2> HIDE DEF Returns, Held
    <2> QED BY <1>1, <1>2
  <1>4. <<e, f>> \in Seq(Returns)
    <2> HIDE DEF Returns
    <2> QED BY <1>3
  <1>5. Releasing(<<d, n>>, g) = <<e, f>>
    <2> HIDE DEF Held
    <2> QED BY <1>2 DEF Releasing
  <1> HIDE DEF Returns, Held, Releasing
  <1> QED BY <1>1, <1>4, <1>5

LEMMA UnbookedGiven == ASSUME NEW s, NEW g, Unbooked(s, g), NEW q, NEW m PROVE Given(s, q, m, g)
  BY DEF Unbooked, Given

LEMMA OpeningHoldBooks ==
  ASSUME Inv, Admission', Booking, UNCHANGED <<session, op, child>>, NEW g \in Commands, writer.by = 0,
         NEW p \in Seq(Closing), NEW r \in Seq(Event), NEW then, then \notin {"run", "launch"},
         Hold(g, 0, p \o r, then, "done"), Goto(g, 0, "holding"),
         \A k \in 1 .. Len(r) : r[k].group \in {g, cmd[g].grp} => Given(session, p, Len(p), r[k].group)
  PROVE  Booking'
  <1>1. cmd' = [cmd EXCEPT ![g].pc = "holding"] /\ UNCHANGED thr BY DEF Goto
  <1>2. cmd'[g].grp = cmd[g].grp BY <1>1 DEF Inv, Types, CommandType
  <1>3. WriterClear'
    <2> HIDE DEF Goto, Hold, Given, WriterClear, Closing, Event
    <2> QED BY <1>2, OpeningClear
  <1> HIDE DEF WriterClear
  <1> QED BY <1>1, <1>3, CommandHoldBooks

LEMMA BookedFinish ==
  ASSUME Inv, Admission', Booking, SpentKept, NEW g \in Commands, Finish(g)
  PROVE  Booking'
  <1> DEFINE over == {d \in cmd[g].adm : thr[g][d].pc = "fulfilled" \/ CancelledPreStart(g, d)}
             kept == {d \in over : \A e \in over : thr[g][e].slot = 0 => d < e}
             F == [d \in Delegations |->
                     IF d \in kept THEN Releasing(<<d, thr[g][d].n>>, g) ELSE <<>>]
             open == /\ kept = over /\ ~Admitted(Project(session, Flatten(F)), g)
                     /\ \A d \in cmd[g].adm : session.status[d] \in Known
             last == IF open THEN <<Opened(g, BarrierKind(g))>> ELSE <<>>
             q == Flatten(F) \o last
             to == IF open THEN "release" ELSE "done"
  <1>1. /\ UNCHANGED <<session, op, child>>
        /\ cmd[g].pc = "run" /\ writer.by = 0
        /\ \A d \in cmd[g].adm : thr[g][d].pc \in {"fulfilled", "rejected"}
        /\ HoldOrGo(g, 0, q, to, "done")
    BY DEF Finish, WriterFree, Opened
  <1>2. cmd[g].adm \subseteq Delegations BY CommandKnows DEF CommandType
  <1>3. kept \subseteq cmd[g].adm OBVIOUS
  <1> HIDE DEF kept, CancelledPreStart
  <1>4. ASSUME NEW d \in kept PROVE Releasing(<<d, thr[g][d].n>>, g) \in Seq(Returns)
    <2>1. d \in Delegations /\ thr[g][d].pc \in {"fulfilled", "rejected"} BY <1>1, <1>2, <1>3
    <2>2. PICK n : n = thr[g][d].n OBVIOUS
    <2>3. n \in 1..2 BY <1>1, <2>1, <2>2, LaunchKnows
    <2>4. g \in 0..MaxCommands BY DEF Commands
    <2> HIDE DEF Returns, Releasing
    <2>5. Releasing(<<d, n>>, g) \in Seq(Returns) BY <2>1, <2>3, <2>4, HeldReturns
    <2> QED BY <2>2, <2>5
  <1>5. F \in [Delegations -> Seq(Returns)]
    <2>1. <<>> \in Seq(Returns) OBVIOUS
    <2> HIDE DEF Returns, Releasing
    <2> QED BY <1>4, <2>1
  <1>6. PICK p : p = Flatten(F) OBVIOUS
  <1>7. p \in Seq(Returns)
    <2> HIDE DEF F, Returns
    <2> QED BY <1>5, <1>6, LoopDelegations
  <1>8. p \in Seq(Closing) /\ p \in Seq(Event) /\ \A i \in 1 .. Len(p) : p[i].type \in Returning
    BY <1>7, ReturnsEvents
  <1>9. open => Given(session, p, Len(p), g)
    <2> SUFFICES ASSUME open PROVE Given(session, p, Len(p), g) OBVIOUS
    <2>1. ~Admitted(Project(session, p), g) BY <1>6
    <2>2. session \in SessionType BY DEF Inv, Types
    <2> HIDE DEF open, F, Given, Project, Admitted, SessionType, Event, Returning
    <2> QED BY <1>8, <2>1, <2>2, ProjectedClear
  <1>10. PICK k \in {"completed", "cancelled", "blocked"} : k = BarrierKind(g) BY DEF BarrierKind
  <1>11. PICK e \in Event : e = Opened(g, k) /\ e.group = g
    <2>1. Opened(g, k) \in Plain BY OpenedPlain
    <2>2. Opened(g, k) \in Event BY <2>1 DEF Plain
    <2>3. Opened(g, k).group = g BY DEF Opened
    <2> HIDE DEF Event, Opened
    <2> QED BY <2>2, <2>3
  <1>12. last = IF open THEN <<e>> ELSE <<>> BY <1>10, <1>11
  <1> HIDE DEF last, open, F
  <1>13. PICK r : r = last OBVIOUS
  <1>14. r \in Seq(Event) /\ (r = <<>> => ~open) /\ \A i \in 1 .. Len(r) : open /\ r[i].group = g
    <2> HIDE DEF Event
    <2>1. CASE open
      <3>1. r = <<e>> /\ Len(r) = 1 BY <1>12, <1>13, <2>1
      <3>2. r \in Seq(Event) /\ r # <<>> BY <3>1
      <3>3. \A i \in 1 .. Len(r) : r[i] = e BY <3>1
      <3> QED BY <1>11, <2>1, <3>2, <3>3
    <2>2. CASE ~open
      <3>1. r = <<>> /\ Len(r) = 0 BY <1>12, <1>13, <2>2
      <3> QED BY <2>2, <3>1
    <2> QED BY <2>1, <2>2
  <1>15. q = p \o r BY <1>6, <1>13
  <1> HIDE DEF q
  <1>16. to \in {"release", "done"} OBVIOUS
  <1>17. CASE q = <<>>
    <2>1. Goto(g, 0, to) /\ UNCHANGED writer BY <1>1, <1>17 DEF HoldOrGo
    <2>2. to \in CommandSteps \ {"run"} BY <1>16 DEF CommandSteps
    <2> HIDE DEF Goto, to
    <2> QED BY <1>1, <2>1, <2>2, CommandGotoBooks
  <1>18. CASE q # <<>>
    <2>1. Hold(g, 0, p \o r, to, "done") /\ Goto(g, 0, "holding") BY <1>1, <1>15, <1>18 DEF HoldOrGo
    <2>2. to \notin {"run", "launch"} BY <1>16
    <2>3. \A i \in 1 .. Len(r) : r[i].group \in {g, cmd[g].grp} => Given(session, p, Len(p), r[i].group)
      <3> HIDE DEF Given
      <3> QED BY <1>9, <1>14
    <2> HIDE DEF to, Hold, Goto, Given, Event, Closing
    <2> QED BY <1>1, <1>8, <1>14, <2>1, <2>2, <2>3, OpeningHoldBooks
  <1> QED BY <1>17, <1>18

LEMMA BookedRecoverLater ==
  ASSUME Inv, Admission, Admission', Booking, SpentKept, NEW g \in Commands, RecoverLater(g)
  PROVE  Booking'
  <1>0. UNCHANGED <<session, op, child>> /\ cmd[g].pc = "recover" /\ writer.by = 0
    BY DEF RecoverLater, WriterFree
  <1>1. cmd[g] \in CommandType /\ Knows(cmd[g]) BY CommandKnows
  <1>2. PICK d \in Delegations : d = cmd[g].sel BY <1>0, <1>1 DEF Knows
  <1>3. PICK n \in 1..2 : n = cmd[g].n BY <1>0, <1>1 DEF Knows
  <1>4. PICK x \in 0..MaxCommands : x = cmd[g].grp BY <1>1 DEF CommandType
  <1>5. CASE Goto(g, 0, "done") /\ UNCHANGED writer BY <1>0, <1>5, CommandGotoBooks DEF CommandSteps
  <1> DEFINE a == <<d, n>>
             pre == Recovering(session, a)
             given == IF ClaimsOf(session, a) # {} THEN <<Held("claim_released", a, x)>> ELSE <<>>
             freed == IF SlotsOf(session, a) # {} THEN <<Held("slot_released", a, x)>> ELSE <<>>
             p == pre \o (given \o freed)
             s == Project(session, p)
             kind == [b \in Commands |->
                        IF \A e \in s.barriers[b].required : s.status[e] = "cancelled"
                        THEN "cancelled" ELSE "blocked"]
             B == {b \in Suspended(s, d) : NothingLeft(s, b, x)}
             rest == Opening(B, kind)
             q == p \o rest
  <1>6. CASE Recoverable(session, a) /\ HoldOrGo(g, 0, q, "reclaim", "done")
    <2>1. pre \in Seq(Returns)
      <3>1. /\ pre \in Seq(Closing)
            /\ \A i \in DOMAIN pre : pre[i].type \in {"pre_effect_cancelled", "terminal", "settled"}
        BY <1>6, RecoveringTypes DEF Closing
      <3> HIDE DEF pre
      <3>2. pre \in Seq(Event) BY <3>1, ClosingEvents
      <3>3. \A i \in DOMAIN pre : pre[i] \in Returns
        <4>1. \A i \in DOMAIN pre : pre[i] \in Event
          <5> HIDE DEF Event
          <5> QED BY <3>2
        <4> HIDE DEF Event
        <4> QED BY <3>1, <4>1 DEF Returns, Returning
      <3> HIDE DEF Returns, Event
      <3> QED BY <3>2, <3>3
    <2>2. given \in Seq(Returns) /\ freed \in Seq(Returns)
      <3>1. Held("claim_released", a, x) \in Returns /\ Held("slot_released", a, x) \in Returns
        <4> HIDE DEF Returns, Held
        <4> QED BY HeldReturns
      <3> HIDE DEF Returns, Held, ClaimsOf, SlotsOf
      <3> QED BY <3>1
    <2>3. rest \in Seq(Event) /\ \A k \in 1 .. Len(rest) : rest[k].group \in B
      <3>1. \A b \in Commands : kind[b] \in {"completed", "cancelled", "blocked"} OBVIOUS
      <3> HIDE DEF kind, s, Event, B
      <3> QED BY <3>1, OpeningGroups
    <2>4. B # {} => ~Admitted(s, x)
      <3> HIDE DEF s, Admitted
      <3> QED BY DEF NothingLeft
    <2> HIDE DEF given, freed, rest, pre
    <2>5. p \in Seq(Returns)
      <3> HIDE DEF Returns
      <3>1. given \o freed \in Seq(Returns) BY <2>2, ConcatFacts
      <3> QED BY <2>1, <3>1, ConcatFacts
    <2> HIDE DEF p
    <2>6. p \in Seq(Closing) /\ p \in Seq(Event) /\ \A i \in 1 .. Len(p) : p[i].type \in Returning
      BY <2>5, ReturnsEvents
    <2>7. B # {} => Given(session, p, Len(p), x)
      <3> SUFFICES ASSUME B # {} PROVE Given(session, p, Len(p), x) OBVIOUS
      <3>1. ~Admitted(Project(session, p), x) BY <2>4
      <3>2. session \in SessionType BY DEF Inv, Types
      <3> HIDE DEF Given, Project, Admitted, SessionType, Event, Returning, B, s
      <3> QED BY <2>6, <3>1, <3>2, ProjectedClear
    <2>8. Given(session, p, Len(p), g)
      <3>1. Fresh(g) BY <1>0 DEF Fresh
      <3>2. Unbooked(session, g) BY <3>1 DEF Admission, CommandSafe
      <3> HIDE DEF Unbooked, Given
      <3> QED BY <3>2, UnbookedGiven
    <2> HIDE DEF s, B
    <2>9. \A k \in 1 .. Len(rest) : rest[k].group \in {g, cmd[g].grp} => Given(session, p, Len(p), rest[k].group)
      <3>1. (1 .. Len(rest)) # {} => B # {} BY <2>3
      <3> HIDE DEF Given
      <3> QED BY <1>4, <2>3, <2>7, <2>8
    <2>10. CASE q = <<>>
      <3>1. Goto(g, 0, "reclaim") /\ UNCHANGED writer BY <1>6, <2>10 DEF HoldOrGo
      <3>2. "reclaim" \in CommandSteps \ {"run"} BY DEF CommandSteps
      <3> HIDE DEF Goto
      <3> QED BY <1>0, <3>1, <3>2, CommandGotoBooks
    <2>11. CASE q # <<>>
      <3>1. Hold(g, 0, p \o rest, "reclaim", "done") /\ Goto(g, 0, "holding") BY <1>6, <2>11 DEF HoldOrGo
      <3>2. "reclaim" \notin {"run", "launch"} OBVIOUS
      <3> HIDE DEF Hold, Goto, Given, Event, Closing, q
      <3> QED BY <1>0, <2>3, <2>6, <2>9, <3>1, <3>2, OpeningHoldBooks
    <2> QED BY <2>10, <2>11
  <1>7. \/ Recoverable(session, a) /\ HoldOrGo(g, 0, q, "reclaim", "done")
        \/ Goto(g, 0, "done") /\ UNCHANGED writer
    <2> DEFINE kinds(t) == [b \in Commands |->
                              IF \A e \in t.barriers[b].required : t.status[e] = "cancelled"
                              THEN "cancelled" ELSE "blocked"]
               all(t) == (pre \o (given \o freed))
                         \o Opening({b \in Suspended(t, d) : NothingLeft(t, b, x)}, kinds(t))
    <2>1. \/ Recoverable(session, a) /\ \E t \in {s} : HoldOrGo(g, 0, all(t), "reclaim", "done")
          \/ Goto(g, 0, "done") /\ UNCHANGED writer
      BY <1>2, <1>3, <1>4, ZenonT(60) DEF RecoverLater
    <2>2. q = all(s) OBVIOUS
    <2> HIDE DEF q, s, all
    <2> QED BY <2>1, <2>2
  <1> QED BY <1>5, <1>6, <1>7

LEMMA GivesConcat ==
  ASSUME NEW p \in Seq(Closing), NEW r \in Seq(Closing), NEW type, NEW x,
         Gives(p, Len(p), type, x) \/ Gives(r, Len(r), type, x)
  PROVE  p \o r \in Seq(Closing) /\ Gives(p \o r, Len(p \o r), type, x)
  <1>1. PICK q : q = p \o r OBVIOUS
  <1>2. /\ q \in Seq(Closing) /\ Len(p) \in Nat /\ Len(r) \in Nat /\ Len(q) = Len(p) + Len(r)
        /\ \A k \in 1 .. Len(p) : q[k] = p[k]
        /\ \A k \in 1 .. Len(r) : q[Len(p) + k] = r[k]
    <2> HIDE DEF Closing, Gives
    <2> QED BY <1>1, ConcatFacts
  <1> HIDE DEF Closing, ActorOf
  <1>3. CASE Gives(p, Len(p), type, x)
    <2>1. PICK j \in 1 .. Len(p) : p[j].type = type /\ ActorOf(p[j]) = x.actor /\ p[j].group = x.group
      BY <1>3 DEF Gives
    <2>2. j \in 1 .. Len(q) /\ q[j] = p[j] BY <1>2, <2>1
    <2>3. Gives(q, Len(q), type, x) BY <2>1, <2>2 DEF Gives
    <2> QED BY <1>1, <1>2, <2>3
  <1>4. CASE Gives(r, Len(r), type, x)
    <2>1. PICK j \in 1 .. Len(r) : r[j].type = type /\ ActorOf(r[j]) = x.actor /\ r[j].group = x.group
      BY <1>4 DEF Gives
    <2>2. Len(p) + j \in 1 .. Len(q) /\ q[Len(p) + j] = r[j] BY <1>2, <2>1
    <2>3. PICK k : k = Len(p) + j OBVIOUS
    <2>4. k \in 1 .. Len(q) /\ q[k] = r[j] BY <2>2, <2>3
    <2>5. Gives(q, Len(q), type, x) BY <2>1, <2>4 DEF Gives
    <2> QED BY <1>1, <1>2, <2>5
  <1> QED BY <1>3, <1>4

\* What the takeover gives back of each delegation: one holding.
EachGives(S, type, x) ==
  [d \in Delegations |->
     IF {y \in S : y.actor[1] = d /\ y.group = x} # {}
     THEN <<Held(type, (CHOOSE y \in {z \in S : z.actor[1] = d /\ z.group = x} : TRUE).actor, x)>>
     ELSE <<>>]

LEMMA HeldGives ==
  ASSUME NEW type \in {"claim_released", "slot_released"}, NEW x \in 0..MaxCommands, NEW a \in Actors
  PROVE  /\ Held(type, a, x) \in Returns /\ Held(type, a, x).type = type
         /\ ActorOf(Held(type, a, x)) = a /\ Held(type, a, x).group = x
  <1>1. PICK d \in Delegations, n \in 1..2 : a = <<d, n>> BY DEF Actors
  <1>2. Held(type, <<d, n>>, x) \in Returns
    <2> HIDE DEF Returns, Held
    <2> QED BY HeldReturns
  <1>3. Frees(Held(type, <<d, n>>, x), type, d, n, x) BY HeldFields
  <1> HIDE DEF Held, Returns, ActorOf
  <1> QED BY <1>1, <1>2, <1>3 DEF Frees

\* As each delegation has one holding, it is what is given back.
LEMMA EachGivesIts ==
  ASSUME NEW S, \A y \in S : y.actor \in Actors, OneEach(S), NEW x \in 0..MaxCommands,
         NEW type \in {"claim_released", "slot_released"}
  PROVE  /\ EachGives(S, type, x) \in [Delegations -> Seq(Returns)]
         /\ \A y \in S : y.group = x => EachGives(S, type, x)[y.actor[1]] = <<Held(type, y.actor, x)>>
  <1> DEFINE M(d) == {y \in S : y.actor[1] = d /\ y.group = x}
             A(d) == (CHOOSE y \in M(d) : TRUE).actor
             F == [d \in Delegations |-> IF M(d) # {} THEN <<Held(type, A(d), x)>> ELSE <<>>]
  <1>0. EachGives(S, type, x) = F BY DEF EachGives
  <1>1. ASSUME NEW d \in Delegations, M(d) # {}
        PROVE  A(d) \in Actors /\ \A y \in M(d) : y.actor = A(d)
    <2>1. PICK z : z = (CHOOSE y \in M(d) : TRUE) OBVIOUS
    <2>2. z \in M(d)
      <3> HIDE DEF M
      <3> QED BY <1>1, <2>1
    <2>3. z.actor \in Actors /\ \A y \in M(d) : y.actor = z.actor
      <3>1. z \in S /\ z.actor[1] = d /\ z.group = x BY <2>2
      <3> QED BY <3>1 DEF OneEach
    <2>4. A(d) = z.actor BY <2>1
    <2> QED BY <2>3, <2>4
  <1> HIDE DEF M, A
  <1>2. F \in [Delegations -> Seq(Returns)]
    <2>1. ASSUME NEW d \in Delegations, M(d) # {} PROVE <<Held(type, A(d), x)>> \in Seq(Returns)
      <3>1. Held(type, A(d), x) \in Returns
        <4> HIDE DEF Returns, Held
        <4> QED BY <1>1, <2>1, HeldGives
      <3> HIDE DEF Returns, Held
      <3> QED BY <3>1
    <2>2. <<>> \in Seq(Returns) OBVIOUS
    <2> HIDE DEF Returns, Held
    <2> QED BY <2>1, <2>2
  <1>3. ASSUME NEW y \in S, y.group = x PROVE F[y.actor[1]] = <<Held(type, y.actor, x)>>
    <2>1. PICK d \in Delegations : d = y.actor[1] BY DEF Actors
    <2>2. y \in M(d) BY <1>3, <2>1 DEF M
    <2>3. M(d) # {} /\ A(d) = y.actor BY <1>1, <2>2
    <2>4. F[d] = <<Held(type, A(d), x)>> BY <2>3
    <2> QED BY <2>1, <2>3, <2>4
  <1> HIDE DEF F
  <1> QED BY <1>0, <1>2, <1>3

LEMMA AdoptGivesAll ==
  ASSUME NEW S, \A y \in S : y.actor \in Actors, OneEach(S), NEW x \in 0..MaxCommands,
         NEW type \in {"claim_released", "slot_released"}, NEW q, q = Flatten(EachGives(S, type, x))
  PROVE  q \in Seq(Returns) /\ \A y \in S : y.group = x => Gives(q, Len(q), type, y)
  <1>1. PICK F : F = EachGives(S, type, x) OBVIOUS
  <1>2. /\ F \in [Delegations -> Seq(Returns)]
        /\ \A y \in S : y.group = x => F[y.actor[1]] = <<Held(type, y.actor, x)>>
    <2> HIDE DEF OneEach
    <2> QED BY <1>1, EachGivesIts
  <1>3. /\ q \in Seq(Returns)
        /\ \A d \in Delegations : \A j \in 1 .. Len(F[d]) : \E k \in 1 .. Len(q) : q[k] = F[d][j]
    BY <1>1, <1>2, LoopAll
  <1>4. ASSUME NEW y \in S, y.group = x PROVE Gives(q, Len(q), type, y)
    <2>1. PICK d \in Delegations : d = y.actor[1] BY DEF Actors
    <2>2. PICK e : e = Held(type, y.actor, x) OBVIOUS
    <2>3. F[d] = <<e>> BY <1>2, <1>4, <2>1, <2>2
    <2>4. Len(F[d]) = 1 /\ F[d][1] = e BY <2>3
    <2>5. 1 \in 1 .. Len(F[d]) BY <2>4
    <2>6. PICK k \in 1 .. Len(q) : q[k] = e BY <1>3, <2>4, <2>5
    <2>7. e.type = type /\ ActorOf(e) = y.actor /\ e.group = y.group
      <3> HIDE DEF Held, ActorOf
      <3> QED BY <1>4, <2>2, HeldGives
    <2> HIDE DEF ActorOf
    <2> QED BY <2>6, <2>7 DEF Gives
  <1> HIDE DEF Returns, Gives
  <1> QED BY <1>3, <1>4

LEMMA BookedAdopt ==
  ASSUME Inv, Admission, Admission', Booking, SpentKept, NEW g \in Commands, Adopt(g)
  PROVE  Booking'
  <1>0. UNCHANGED <<session, op, child>> /\ cmd[g].pc = "adopt" /\ writer.by = 0
    BY DEF Adopt, WriterFree
  <1>1. cmd[g] \in CommandType /\ Knows(cmd[g]) BY CommandKnows
  <1>2. PICK x \in Commands : x = cmd[g].grp BY <1>0, <1>1 DEF Knows
  <1>3. PICK f \in 0..MaxCommands : f = cmd[g].from BY <1>1 DEF CommandType
  <1>5. CASE Goto(g, 0, "done") /\ UNCHANGED writer BY <1>0, <1>5, CommandGotoBooks DEF CommandSteps
  <1> DEFINE e == [type |-> "takeover", group |-> x, from |-> f, to |-> g]
             given == Flatten(EachGives(session.claims, "claim_released", x))
             freed == Flatten(EachGives(session.slots, "slot_released", x))
             over == {b \in Commands : /\ session.barriers[b].status = "suspended"
                                       /\ \A d \in session.barriers[b].required :
                                            session.status[d] \in KnownTerminal}
             kind == [b \in Commands |->
                        IF \A d \in session.barriers[b].required : session.status[d] = "accepted"
                        THEN "completed" ELSE "blocked"]
             rest == Opening(over, kind)
             q == ((<<e>> \o given) \o freed) \o rest
  <1>6. CASE Hold(g, 0, q, "yield", "done") /\ Goto(g, 0, "holding")
    <2>1. e \in Closing
      <3>1. e \in TakeoverEvent /\ e.type = "takeover" BY DEF TakeoverEvent
      <3>2. \A y \in TakeoverEvent : y \in Event BY DEF Event
      <3> HIDE DEF TakeoverEvent, Event, e
      <3> QED BY <3>1, <3>2 DEF Closing
    <2> HIDE DEF e
    <2>2. <<e>> \in Seq(Closing)
      <3> HIDE DEF Closing
      <3> QED BY <2>1
    <2>3. /\ \A y \in session.claims : y.actor \in Actors
          /\ \A y \in session.slots : y.actor \in Actors
      <3>1. /\ session.slots \subseteq [actor : Actors, group : Commands, slot : 1..2]
            /\ session.claims \subseteq [actor : Actors, group : Commands]
        BY DEF Inv, Types, SessionType
      <3> QED BY <3>1
    <2>4. x \in 0..MaxCommands BY DEF Commands
    <2>4a. OneEach(session.slots) /\ OneEach(session.claims) BY DEF Booking
    <2>5. given \in Seq(Returns) /\ \A y \in session.claims : y.group = x => Gives(given, Len(given), "claim_released", y)
      <3>1. PICK S : S = session.claims OBVIOUS
      <3>2. PICK r : r = given OBVIOUS
      <3>3. (\A y \in S : y.actor \in Actors) /\ OneEach(S) BY <2>3, <2>4a, <3>1
      <3>4. r = Flatten(EachGives(S, "claim_released", x)) BY <3>1, <3>2
      <3> HIDE DEF Returns, Gives, OneEach, given
      <3>5. r \in Seq(Returns) /\ \A y \in S : y.group = x => Gives(r, Len(r), "claim_released", y)
        BY <2>4, <3>3, <3>4, AdoptGivesAll
      <3> QED BY <3>1, <3>2, <3>5
    <2>6. freed \in Seq(Returns) /\ \A y \in session.slots : y.group = x => Gives(freed, Len(freed), "slot_released", y)
      <3>1. PICK S : S = session.slots OBVIOUS
      <3>2. PICK r : r = freed OBVIOUS
      <3>3. (\A y \in S : y.actor \in Actors) /\ OneEach(S) BY <2>3, <2>4a, <3>1
      <3>4. r = Flatten(EachGives(S, "slot_released", x)) BY <3>1, <3>2
      <3> HIDE DEF Returns, Gives, OneEach, freed
      <3>5. r \in Seq(Returns) /\ \A y \in S : y.group = x => Gives(r, Len(r), "slot_released", y)
        BY <2>4, <3>3, <3>4, AdoptGivesAll
      <3> QED BY <3>1, <3>2, <3>5
    <2>7. rest \in Seq(Event)
      <3>1. \A b \in Commands : kind[b] \in {"completed", "cancelled", "blocked"} OBVIOUS
      <3> HIDE DEF kind, over, Event
      <3> QED BY <3>1, OpeningGroups
    <2> HIDE DEF given, freed, rest
    <2>8. given \in Seq(Closing) /\ freed \in Seq(Closing) BY <2>5, <2>6, ReturnsEvents
    <2>9. PICK r : r = <<e>> \o given OBVIOUS
    <2>10. PICK p : p = r \o freed OBVIOUS
    <2>11. r \in Seq(Closing)
      <3> HIDE DEF Closing
      <3> QED BY <2>2, <2>8, <2>9, ConcatFacts
    <2>12. p \in Seq(Closing)
      <3> HIDE DEF Closing
      <3> QED BY <2>8, <2>10, <2>11, ConcatFacts
    <2>13. Given(session, p, Len(p), x)
      <3>1. ASSUME NEW y \in session.claims, y.group = x PROVE Gives(p, Len(p), "claim_released", y)
        <4> HIDE DEF Closing, Gives
        <4>1. Gives(given, Len(given), "claim_released", y) BY <2>5, <3>1
        <4>2. Gives(r, Len(r), "claim_released", y) BY <2>2, <2>8, <2>9, <4>1, GivesConcat
        <4> QED BY <2>8, <2>10, <2>11, <4>2, GivesConcat
      <3>2. ASSUME NEW y \in session.slots, y.group = x PROVE Gives(p, Len(p), "slot_released", y)
        <4> HIDE DEF Closing, Gives
        <4>1. Gives(freed, Len(freed), "slot_released", y) BY <2>6, <3>2
        <4> QED BY <2>8, <2>10, <2>11, <4>1, GivesConcat
      <3> HIDE DEF Gives
      <3> QED BY <3>1, <3>2 DEF Given
    <2>14. Given(session, p, Len(p), g)
      <3>1. Fresh(g) BY <1>0 DEF Fresh
      <3>2. Unbooked(session, g) BY <3>1 DEF Admission, CommandSafe
      <3> HIDE DEF Unbooked, Given
      <3> QED BY <3>2, UnbookedGiven
    <2>15. \A k \in 1 .. Len(rest) : rest[k].group \in {g, cmd[g].grp} => Given(session, p, Len(p), rest[k].group)
      <3> HIDE DEF Given
      <3> QED BY <1>2, <2>13, <2>14
    <2>16. Hold(g, 0, p \o rest, "yield", "done") BY <1>6, <2>9, <2>10
    <2>17. "yield" \notin {"run", "launch"} OBVIOUS
    <2>18. Goto(g, 0, "holding") BY <1>6
    <2> HIDE DEF Hold, Goto, Given, Event, Closing, q
    <2> QED BY <1>0, <2>7, <2>12, <2>15, <2>16, <2>17, <2>18, OpeningHoldBooks
  <1>7. \/ Goto(g, 0, "done") /\ UNCHANGED writer
        \/ Hold(g, 0, q, "yield", "done") /\ Goto(g, 0, "holding")
    BY <1>2, <1>3 DEF Adopt, EachGives
  <1> QED BY <1>5, <1>6, <1>7

\* A grant of the group's admission: of the envelope the delegation has now.
Exact(g, R) == {e \in Grants(g, R) : e.n = session.envelopes[e.d]}

LEMMA AdmittingExact ==
  ASSUME NEW g \in Commands, NEW R \in SUBSET Delegations, Cardinality(R) <= 2,
         \A d \in R : session.envelopes[d] \in 1..2
  PROVE  Admitting(g, R) \in Seq(Exact(g, R))
  <1> DEFINE F == [d \in Delegations |->
                     IF d \in R THEN Claiming(<<d, session.envelopes[d]>>, g, SlotNumber(R, d)) ELSE <<>>]
  <1>1. ASSUME NEW d \in R
        PROVE  Claiming(<<d, session.envelopes[d]>>, g, SlotNumber(R, d)) \in Seq(Exact(g, R))
    <2>1. PICK k \in 1..2 : k = SlotNumber(R, d) BY SlotNumberBound
    <2>2. PICK n \in 1..2 : n = session.envelopes[d] OBVIOUS
    <2>3. d \in Delegations OBVIOUS
    <2>4. PICK c : c = Claiming(<<d, n>>, g, k) OBVIOUS
    <2>5. c \in Seq(Grants(g, R)) /\ Pair(c, g, d, n)
      <3> HIDE DEF Grants, Claiming, Pair
      <3> QED BY <2>3, <2>4, ClaimingGrants
    <2>6. \A i \in DOMAIN c : c[i] \in Grants(g, R) /\ i \in 1..2
      <3>1. PICK E : E = Grants(g, R) OBVIOUS
      <3>2. c \in Seq(E) BY <2>5, <3>1
      <3>3. Len(c) = 2 BY <2>5 DEF Pair
      <3>4. DOMAIN c = 1..2 BY <3>2, <3>3
      <3>5. \A i \in DOMAIN c : c[i] \in E BY <3>2
      <3> QED BY <3>1, <3>4, <3>5
    <2>7. \A i \in 1..2 : c[i].d = d /\ c[i].n = n BY <2>5 DEF Pair
    <2>8. \A i \in DOMAIN c : c[i] \in Exact(g, R)
      <3> HIDE DEF Grants
      <3> QED BY <2>2, <2>6, <2>7 DEF Exact
    <2>9. c \in Seq(Exact(g, R))
      <3> HIDE DEF Exact, Grants
      <3> QED BY <2>5, <2>8
    <2> HIDE DEF Exact, Claiming
    <2> QED BY <2>1, <2>2, <2>4, <2>9
  <1>2. F \in [Delegations -> Seq(Exact(g, R))]
    <2>1. <<>> \in Seq(Exact(g, R)) OBVIOUS
    <2> HIDE DEF Exact, Claiming
    <2> QED BY <1>1, <2>1
  <1>3. Admitting(g, R) = Flatten(F) BY DEF Admitting
  <1> HIDE DEF F, Exact, Admitting
  <1> QED BY <1>2, <1>3, LoopDelegations

\* The admission of a group that holds nothing yet.
LEMMA GroupClear ==
  ASSUME NEW g \in Commands, NEW R \in SUBSET Delegations, Cardinality(R) <= 2,
         \A d \in R : session.envelopes[d] \in 1..2, UNCHANGED session, Unbooked(session, g),
         Hold(g, 0, Opens(g, R) \o Admitting(g, R), "run", "done")
  PROVE  WriterClear'
  <1>1. PICK o, r, E : o = Opens(g, R) /\ r = Admitting(g, R) /\ E = Event OBVIOUS
  <1>2. r \in Seq(Exact(g, R)) BY <1>1, AdmittingExact
  <1>3. \A e \in Exact(g, R) : /\ e \in E /\ e.type \in {"slot_claimed", "claim_granted"} /\ e.group = g
                               /\ e.n = session.envelopes[e.d]
    <2> HIDE DEF Event
    <2> QED BY <1>1 DEF Exact, Grants
  <1>4. /\ r \in Seq(E)
        /\ \A i \in 1 .. Len(r) : /\ r[i].type \in {"slot_claimed", "claim_granted"} /\ r[i].group = g
                                  /\ r[i].n = session.envelopes[r[i].d]
    <2> HIDE DEF Exact, Hold
    <2> QED BY <1>2, <1>3
  <1>5. o \in Seq(E) /\ Len(o) = 3
    <2>1. o \in Seq(Plain) BY <1>1, OpensPlain
    <2>2. \A e \in Plain : e \in E
      <3> HIDE DEF Event
      <3> QED BY <1>1 DEF Plain
    <2>3. o \in Seq(E)
      <3> HIDE DEF Plain
      <3> QED BY <2>1, <2>2
    <2> QED BY <1>1, <2>3 DEF Opens
  <1>6. \A i \in 1..3 : o[i].type \in {"lease_acquired", "barrier_requested", "barrier_suspended"} BY <1>1 DEF Opens
  <1>7. PICK q : q = o \o r OBVIOUS
  <1>8. /\ q \in Seq(E) /\ Len(r) \in Nat /\ Len(q) = 3 + Len(r)
        /\ \A k \in 1 .. 3 : q[k] = o[k]
        /\ \A k \in 1 .. Len(r) : q[3 + k] = r[k]
    <2>1. o \in Seq(E) /\ r \in Seq(E) /\ 3 = Len(o) BY <1>4, <1>5
    <2>2. PICK n : n = 3 OBVIOUS
    <2>3. n = Len(o) BY <2>1, <2>2
    <2> HIDE DEF Hold
    <2>4. /\ q \in Seq(E) /\ Len(r) \in Nat /\ Len(q) = n + Len(r)
          /\ \A k \in 1 .. n : q[k] = o[k]
          /\ \A k \in 1 .. Len(r) : q[n + k] = r[k]
      BY <1>7, <2>1, <2>3, Joined
    <2> QED BY <2>2, <2>4
  <1>9. DOMAIN q = 1 .. Len(q) /\ Len(q) \in Nat BY <1>8
  <1>10. ASSUME NEW i \in DOMAIN q
         PROVE  \/ q[i].type \in {"lease_acquired", "barrier_requested", "barrier_suspended"}
                \/ /\ q[i].type \in {"slot_claimed", "claim_granted"} /\ q[i].group = g
                   /\ q[i].n = session.envelopes[q[i].d]
    <2>1. CASE i \in 1..3 BY <1>6, <1>8, <2>1
    <2>2. CASE i \notin 1..3
      <3>1. PICK k : k = i - 3 OBVIOUS
      <3>2. k \in 1 .. Len(r) /\ i = 3 + k BY <1>8, <1>9, <2>2, <3>1
      <3>3. q[i] = r[k] BY <1>8, <3>2
      <3> QED BY <1>4, <3>2, <3>3
    <2> QED BY <2>1, <2>2
  <1>11. writer'.by = g /\ writer'.of = 0 /\ writer'.todo = q /\ writer'.then = "run" BY <1>1, <1>7 DEF Hold
  <1>12. ASSUME NEW i \in DOMAIN q PROVE GrantClear(session, writer, i)'
    <2> SUFFICES ASSUME q[i].type \in Granting PROVE GrantClear(session, writer, i)'
      BY <1>11 DEF GrantClear
    <2>1. q[i].group = g /\ q[i].n = session.envelopes[q[i].d] BY <1>10 DEF Granting
    <2>2. Only(session.slots, q[i]) /\ Only(session.claims, q[i]) BY <2>1 DEF Only, Unbooked
    <2>3. \A j \in DOMAIN q : q[j].type = q[i].type /\ q[j].d = q[i].d => q[j].n = q[i].n
      BY <1>10, <2>1 DEF Granting
    <2> HIDE DEF Only
    <2> QED BY <1>11, <2>2, <2>3 DEF GrantClear
  <1>13. ASSUME NEW i \in DOMAIN q PROVE OpenClear(session, writer, {writer.by, cmd[writer.by].grp}, i)'
    BY <1>10, <1>11 DEF OpenClear
  <1> HIDE DEF GrantClear, OpenClear
  <1> QED BY <1>11, <1>12, <1>13 DEF WriterClear

LEMMA BookedAdmitGroup ==
  ASSUME Inv, Admission, Booking, SpentKept, NEW g \in Commands, AdmitGroup(g)
  PROVE  Booking'
  <1>1. /\ UNCHANGED <<session, op, child>>
        /\ cmd[g].pc = "admit" /\ writer.by = 0
    BY DEF AdmitGroup, WriterFree
  <1>2. CASE UNCHANGED writer /\ \E to \in {"cancelled", "done"} : Goto(g, 0, to)
    <2>1. PICK to \in {"cancelled", "done"} : Goto(g, 0, to) BY <1>2
    <2>2. to \in CommandSteps \ {"run"} BY DEF CommandSteps
    <2> HIDE DEF Goto
    <2> QED BY <1>1, <1>2, <2>1, <2>2, CommandGotoBooks
  <1> DEFINE T == [d \in Delegations |->
                     IF d \in cmd[g].adm
                     THEN [Idle EXCEPT !.pc = "launch", !.n = session.envelopes[d],
                                       !.first = session.envelopes[d], !.slot = SlotNumber(cmd[g].adm, d)]
                     ELSE Idle]
  <1>3. CASE /\ Hold(g, 0, Opens(g, cmd[g].adm) \o Admitting(g, cmd[g].adm), "run", "done")
             /\ cmd' = [cmd EXCEPT ![g].pc = "holding"] /\ thr' = [thr EXCEPT ![g] = T]
    <2>1. cmd[g] \in CommandType /\ Knows(cmd[g]) BY CommandKnows
    <2>2. PICK R : R = cmd[g].adm OBVIOUS
    <2>3. R \in SUBSET Delegations /\ Cardinality(R) <= 2 /\ \A d \in R : session.envelopes[d] > 0
      BY <1>1, <2>1, <2>2 DEF CommandType, Knows
    <2>4. \A d \in R : session.envelopes[d] \in 1..2
      <3>1. \A d \in Delegations : session.envelopes[d] \in 0..2 BY SessionFields DEF Inv, Types
      <3>2. \A x \in 0..2 : x > 0 => x \in 1..2 OBVIOUS
      <3> QED BY <2>3, <3>1, <3>2
    <2>6. \A h \in Commands : h # g => thr'[h] = thr[h]
      <3>1. thr \in [Commands -> [Delegations -> LaunchType]] BY DEF Inv, Types
      <3> HIDE DEF T, LaunchType
      <3> QED BY <1>3, <3>1
    <2> HIDE DEF T
    <2>7. Hold(g, 0, Opens(g, R) \o Admitting(g, R), "run", "done") BY <1>3, <2>2
    <2>8. Unbooked(session, g)
      <3>1. Fresh(g) BY <1>1 DEF Fresh
      <3> HIDE DEF Unbooked
      <3> QED BY <3>1 DEF Admission, CommandSafe
    <2>9. WriterClear'
      <3> HIDE DEF WriterClear, Hold, Opens, Admitting, Unbooked
      <3> QED BY <1>1, <2>3, <2>4, <2>7, <2>8, GroupClear
    <2> HIDE DEF WriterClear, Hold
    <2> QED BY <1>1, <1>3, <2>6, <2>9, CommandHoldBooks
  <1>4. \/ UNCHANGED writer /\ \E to \in {"cancelled", "done"} : Goto(g, 0, to)
        \/ /\ Hold(g, 0, Opens(g, cmd[g].adm) \o Admitting(g, cmd[g].adm), "run", "done")
           /\ cmd' = [cmd EXCEPT ![g].pc = "holding"] /\ thr' = [thr EXCEPT ![g] = T]
    BY DEF AdmitGroup, Opens, Admitting
  <1> QED BY <1>2, <1>3, <1>4

LEMMA BookedCommand ==
  ASSUME Inv, Inv', Admission, Admission', Booking, NEW g \in Commands,
         Begin(g) \/ Command(g) \/ Abort(g) \/ Crash(g) \/ Exit(g)
  PROVE  Booking'
  <1>1. SpentKept BY SpentCommand
  <1>2. CASE Begin(g) \/ Abort(g) \/ Crash(g) \/ Exit(g)
    <2> HIDE DEF Inv, Booking, SpentKept, Begin, Abort, Crash, Exit
    <2> QED BY <1>1, <1>2, BookedBegin, BookedAbort, BookedDies
  <1>3. CASE Read(g) \/ Takeover(g) \/ Inspect(g)
    <2> HIDE DEF Inv, Booking, SpentKept, Admission, Read, Takeover, Inspect
    <2> QED BY <1>1, <1>3, BookedRead, BookedTakeover, BookedInspect
  <1>4. CASE Finish(g) \/ RecoverLater(g) \/ Adopt(g) \/ AdmitGroup(g)
    <2> HIDE DEF Inv, Booking, SpentKept, Admission, Finish, RecoverLater, Adopt, AdmitGroup
    <2> QED BY <1>1, <1>4, BookedFinish, BookedRecoverLater, BookedAdopt, BookedAdmitGroup
  <1>5. CASE AppendPreEffectTerminal(g) \/ PrepareAgain(g)
    <2> HIDE DEF Inv, Booking, SpentKept, Admission, AppendPreEffectTerminal, PrepareAgain
    <2> QED BY <1>1, <1>5, BookedPrepares
  <1>6. CASE Fence(g) \/ Acquire(g) \/ ReleaseLease(g) \/ Unlease(g) \/ Yield(g) \/ Again(g) \/ Seize(g) \/ Reclaim(g)
    <2> HIDE DEF Inv, Booking, SpentKept, Fence, Acquire, ReleaseLease, Unlease, Yield, Again, Seize, Reclaim
    <2> QED BY <1>1, <1>6, BookedCommandGoes
  <1> QED BY <1>2, <1>3, <1>4, <1>5, <1>6 DEF Command

-----------------------------------------------------------------------------
(* The append of one event: the book after it. *)

LEMMA EntryBooked ==
  ASSUME Inv, Admission, Booking, NEW e, Entry(e)
  PROVE  Booked'
  <1> SUFFICES ASSUME NEW a \in Actors, NEW b \in Commands, GroupOf(session', a) = b
               PROVE  /\ a[1] \in session'.barriers[b].required
                      /\ SlotIn(session', a, b) \/ Spent(a)' \/ (a[2] = 2 /\ Taken(session', b))
    BY DEF Booked
  <1>1. PICK d \in Delegations, n \in 1..2 : a = <<d, n>> BY DEF Actors
  <1>2. session'.claimed[d][n] = b BY <1>1 DEF GroupOf
  <1>3. session.barriers[b].required \subseteq session'.barriers[b].required
        /\ (Taken(session, b) => Taken(session', b))
    <2> HIDE DEF Entry, Taken
    <2> QED BY RequiredGrows
  <1>4. CASE e.type = "slot_claimed" /\ d = e.d /\ n = e.n
    <2>1. b = e.group /\ SlotRecord(e) \in session'.slots
      <3>1. Books(session, session', e) BY DEF Entry
      <3>2. session'.claimed[d][n] = e.group BY <1>4, <3>1 DEF Books
      <3>3. session'.slots = session.slots \cup {SlotRecord(e)} BY <1>4, <3>1 DEF Books
      <3> QED BY <1>2, <3>2, <3>3
    <2>2. d \in session.barriers[b].required BY <1>4, <2>1 DEF Entry, HeadOK
    <2>3. SlotRecord(e).actor = a /\ SlotRecord(e).group = b BY <1>1, <1>4, <2>1 DEF SlotRecord, ActorOf
    <2>4. SlotIn(session', a, b)
      <3> HIDE DEF SlotRecord
      <3> QED BY <2>1, <2>3 DEF SlotIn
    <2> QED BY <1>1, <1>3, <2>2, <2>4
  <1>5. CASE ~(e.type = "slot_claimed" /\ d = e.d /\ n = e.n)
    <2>1. session.claimed[d][n] = b
      <3>1. Books(session, session', e) BY DEF Entry
      <3> QED BY <1>2, <1>5, <3>1 DEF Books
    <2>2. GroupOf(session, a) = b BY <1>1, <2>1 DEF GroupOf
    <2>3. /\ a[1] \in session.barriers[b].required
          /\ SlotIn(session, a, b) \/ Spent(a) \/ (a[2] = 2 /\ Taken(session, b))
      <3> HIDE DEF SlotIn, Spent, Taken
      <3> QED BY <2>2 DEF Booking, Booked
    <2>4. Spent(a) => Spent(a)' BY DEF Entry, Spent, Proven
    <2>5. CASE SlotIn(session, a, b)
      <3>1. PICK x \in session.slots : x.actor = a /\ x.group = b BY <2>5 DEF SlotIn
      <3>2. CASE x \in session'.slots BY <1>3, <2>3, <3>1, <3>2 DEF SlotIn
      <3>3. CASE e.type = "slot_released" /\ x.actor = ActorOf(e) /\ x.group = e.group
        <4>1. Spent(ActorOf(e)) \/ (e.n = 2 /\ Taken(session, e.group))
          <5> HIDE DEF Spent, Taken
          <5> QED BY <3>3 DEF Entry, HeadOK
        <4>2. ActorOf(e) = a /\ e.group = b /\ a[2] = e.n BY <3>1, <3>3 DEF ActorOf
        <4> HIDE DEF Spent, Taken
        <4> QED BY <1>3, <2>3, <2>4, <4>1, <4>2
      <3> QED BY <3>2, <3>3, SlotKept
    <2>6. CASE ~SlotIn(session, a, b)
      <3> HIDE DEF Spent, Taken, SlotIn
      <3> QED BY <1>3, <2>3, <2>4, <2>6
    <2> QED BY <2>5, <2>6
  <1> QED BY <1>4, <1>5

\* The event that is next keeps what the writer promises of it.
LEMMA HeadClear ==
  ASSUME Inv, Booking, writer.todo # <<>>, NEW e, e = Head(writer.todo)
  PROVE  /\ 1 \in DOMAIN writer.todo /\ e = writer.todo[1]
         /\ GrantClear(session, writer, 1)
         /\ OpenClear(session, writer, {writer.by, cmd[writer.by].grp}, 1)
  <1>1. writer.todo \in Seq(Event) BY DEF Inv, Types, WriterType
  <1>2. 1 \in DOMAIN writer.todo /\ e = writer.todo[1] BY <1>1, Heads
  <1> HIDE DEF GrantClear, OpenClear
  <1> QED BY <1>2 DEF Booking, WriterClear

\* Whoever is admitted by the event is not on his way to a retry.
LEMMA HeadSpares ==
  ASSUME Inv, Booking, writer.by # 0, writer.todo # <<>>, NEW e, Entry(e), e = Head(writer.todo), e.type \in Granting
  PROVE  /\ Only(IF e.type = "slot_claimed" THEN session.slots ELSE session.claims, e)
         /\ ~Retrying(e.group, e.d)
  <1>1. e = writer.todo[1] /\ GrantClear(session, writer, 1)
    <2> HIDE DEF GrantClear, OpenClear, Entry
    <2> QED BY HeadClear
  <1>2. /\ Only(IF e.type = "slot_claimed" THEN session.slots ELSE session.claims, e)
        /\ writer.of # 0 => e.d = writer.of
    BY <1>1 DEF GrantClear
  <1>3. e.group = writer.by /\ writer.then \in {"run", "launch"} BY DEF Entry, HeadOK, Granting
  <1>4. CASE writer.then = "run"
    <2>1. cmd[e.group].pc = "holding" BY <1>3, <1>4, AdmissionHolder
    <2> QED BY <1>2, <2>1 DEF Retrying
  <1>5. CASE writer.then = "launch"
    <2>1. writer.of \in Delegations /\ thr[writer.by][writer.of].pc = "holding" BY <1>5, AdmissionHolder
    <2>2. writer.of # 0 BY <2>1 DEF Delegations
    <2> QED BY <1>2, <1>3, <1>5, <2>1, <2>2 DEF Retrying
  <1> QED BY <1>3, <1>4, <1>5

LEMMA EntryOneEach ==
  ASSUME Inv, Booking, writer.by # 0, writer.todo # <<>>, NEW e, Entry(e), e = Head(writer.todo)
  PROVE  OneEach(session.slots)' /\ OneEach(session.claims)'
  <1>1. e.type = "slot_claimed" => Only(session.slots, e)
    <2> HIDE DEF Only, Entry, Retrying
    <2> QED BY HeadSpares DEF Granting
  <1>2. e.type = "claim_granted" => Only(session.claims, e)
    <2> HIDE DEF Only, Entry, Retrying
    <2> QED BY HeadSpares DEF Granting
  <1>3. OneEach(session.slots) /\ OneEach(session.claims) BY DEF Booking
  <1>4. \A x \in session'.slots : x \in session.slots \/ (e.type = "slot_claimed" /\ x = SlotRecord(e)) BY NewSlot
  <1>5. \A x \in session'.claims : x \in session.claims \/ (e.type = "claim_granted" /\ x = ClaimRecord(e)) BY NewClaim
  <1>6. /\ SlotRecord(e).actor = ActorOf(e) /\ SlotRecord(e).group = e.group
        /\ ClaimRecord(e).actor = ActorOf(e) /\ ClaimRecord(e).group = e.group
    BY DEF SlotRecord, ClaimRecord
  <1>7. ActorOf(e)[1] = e.d BY DEF ActorOf
  <1> HIDE DEF SlotRecord, ClaimRecord, ActorOf, Entry
  <1>8. OneEach(session.slots)'
    <2> SUFFICES ASSUME NEW x \in session'.slots, NEW y \in session'.slots, x.group = y.group, x.actor[1] = y.actor[1]
                 PROVE  x.actor = y.actor
      BY DEF OneEach
    <2>1. CASE x \in session.slots /\ y \in session.slots BY <1>3, <2>1 DEF OneEach
    <2>2. CASE x \in session.slots /\ y = SlotRecord(e) /\ e.type = "slot_claimed"
      BY <1>1, <1>6, <1>7, <2>2 DEF Only
    <2>3. CASE y \in session.slots /\ x = SlotRecord(e) /\ e.type = "slot_claimed"
      BY <1>1, <1>6, <1>7, <2>3 DEF Only
    <2>4. CASE x = SlotRecord(e) /\ y = SlotRecord(e) BY <2>4
    <2> QED BY <1>4, <2>1, <2>2, <2>3, <2>4
  <1>9. OneEach(session.claims)'
    <2> SUFFICES ASSUME NEW x \in session'.claims, NEW y \in session'.claims, x.group = y.group, x.actor[1] = y.actor[1]
                 PROVE  x.actor = y.actor
      BY DEF OneEach
    <2>1. CASE x \in session.claims /\ y \in session.claims BY <1>3, <2>1 DEF OneEach
    <2>2. CASE x \in session.claims /\ y = ClaimRecord(e) /\ e.type = "claim_granted"
      BY <1>2, <1>6, <1>7, <2>2 DEF Only
    <2>3. CASE y \in session.claims /\ x = ClaimRecord(e) /\ e.type = "claim_granted"
      BY <1>2, <1>6, <1>7, <2>3 DEF Only
    <2>4. CASE x = ClaimRecord(e) /\ y = ClaimRecord(e) BY <2>4
    <2> QED BY <1>5, <2>1, <2>2, <2>3, <2>4
  <1> QED BY <1>8, <1>9

LEMMA EntryClear ==
  ASSUME Inv, Booking, writer.by # 0, writer.todo # <<>>, NEW e, Entry(e), e = Head(writer.todo),
         NEW h \in Commands, NEW d \in Delegations, Retrying(h, d)
  PROVE  Clear(session', h, d)
  <1>1. e.type \in Granting => ~(e.group = h /\ e.d = d)
    <2> HIDE DEF Only, Entry, Retrying, Granting
    <2> QED BY HeadSpares
  <1>2. Clear(session, h, d)
    <2> HIDE DEF Retrying, Clear
    <2> QED BY DEF Booking, LaunchClear
  <1>3. /\ SlotRecord(e).actor[1] = e.d /\ SlotRecord(e).group = e.group
        /\ ClaimRecord(e).actor[1] = e.d /\ ClaimRecord(e).group = e.group
    BY DEF SlotRecord, ClaimRecord, ActorOf
  <1>4. \A x \in session'.slots : x \in session.slots \/ (e.type = "slot_claimed" /\ x = SlotRecord(e)) BY NewSlot
  <1>5. \A x \in session'.claims : x \in session.claims \/ (e.type = "claim_granted" /\ x = ClaimRecord(e)) BY NewClaim
  <1> HIDE DEF SlotRecord, ClaimRecord, Entry
  <1>6. NoneFor(session'.slots, h, d) BY <1>1, <1>2, <1>3, <1>4 DEF Clear, NoneFor, Granting
  <1>7. NoneFor(session'.claims, h, d) BY <1>1, <1>2, <1>3, <1>5 DEF Clear, NoneFor, Granting
  <1> QED BY <1>6, <1>7 DEF Clear

LEMMA EntryBooks ==
  ASSUME Inv, Admission, Booking, writer.by # 0, writer.todo # <<>>, NEW e, Entry(e), e = Head(writer.todo),
         \A h \in Commands, d \in Delegations : Retrying(h, d)' => Retrying(h, d) \/ Clear(session', h, d),
         WriterClear'
  PROVE  Booking'
  <1>1. Booked'
    <2> HIDE DEF Entry
    <2> QED BY EntryBooked
  <1>2. OneEach(session.slots)' /\ OneEach(session.claims)'
    <2> HIDE DEF Entry
    <2> QED BY EntryOneEach
  <1>3. ASSUME NEW h \in Commands, NEW d \in Delegations, Retrying(h, d)' PROVE Clear(session', h, d)
    <2> HIDE DEF Entry, Retrying, Clear
    <2> QED BY <1>3, EntryClear
  <1>4. ASSUME NEW h \in Commands, NEW d \in Delegations PROVE LaunchClear(h, d)'
    <2>1. Clear(session', h, d) => Clear(session, h, d)' BY DEF Clear, NoneFor
    <2> HIDE DEF Retrying, Clear
    <2> QED BY <1>3, <2>1 DEF LaunchClear
  <1> HIDE DEF Booked, LaunchClear, WriterClear
  <1> QED BY <1>1, <1>2, <1>4 DEF Booking

-----------------------------------------------------------------------------
(* The append of one event: what the writer has still to do. *)

\* The writer after an event that was not its last.
TakesNext(w) == w.by = writer.by /\ w.of = writer.of /\ w.then = writer.then /\ w.todo = Tail(writer.todo)

LEMMA NextTodo ==
  ASSUME Inv, Len(writer.todo) > 1, NEW w, TakesNext(w), NEW q, q = writer.todo, NEW p, p = w.todo
  PROVE  /\ p \in Seq(Event) /\ Len(p) \in Nat /\ DOMAIN p = 1 .. Len(p)
         /\ \A j \in DOMAIN p : j + 1 \in DOMAIN q /\ p[j] = q[j + 1]
         /\ 1 \in DOMAIN q /\ Head(q) = q[1] /\ q # <<>>
  <1>1. q \in Seq(Event) /\ q # <<>> BY DEF Inv, Types, WriterType
  <1>2. p = Tail(q) BY DEF TakesNext
  <1> HIDE DEF Event
  <1>3. 1 \in DOMAIN q /\ Head(q) = q[1] BY <1>1, Heads
  <1>4. p \in Seq(Event) /\ \A j \in DOMAIN p : j + 1 \in DOMAIN q /\ p[j] = q[j + 1] BY <1>1, <1>2, Tails
  <1> QED BY <1>1, <1>3, <1>4

LEMMA GrantMore ==
  ASSUME Inv, Booking, writer.by # 0, NEW e, Entry(e), e = Head(writer.todo), Len(writer.todo) > 1,
         NEW w, TakesNext(w), NEW i \in DOMAIN w.todo
  PROVE  GrantClear(session', w, i)
  <1>1. PICK q, p : q = writer.todo /\ p = w.todo OBVIOUS
  <1>2. /\ \A j \in DOMAIN p : j + 1 \in DOMAIN q /\ p[j] = q[j + 1]
        /\ 1 \in DOMAIN q /\ e = q[1]
    <2> HIDE DEF Entry, TakesNext
    <2> QED BY <1>1, NextTodo
  <1>3. PICK f : f = p[i] OBVIOUS
  <1>4. i + 1 \in DOMAIN q /\ f = q[i + 1] BY <1>1, <1>2, <1>3
  <1>5. GrantClear(session, writer, i + 1)
    <2> HIDE DEF GrantClear
    <2> QED BY <1>1, <1>4 DEF Booking, WriterClear
  <1> SUFFICES ASSUME f.type \in Granting
               PROVE  /\ Only(IF f.type = "slot_claimed" THEN session'.slots ELSE session'.claims, f)
                      /\ \A j \in DOMAIN p : p[j].type = f.type /\ p[j].d = f.d => p[j].n = f.n
                      /\ w.of # 0 => f.d = w.of
    BY <1>1, <1>3 DEF GrantClear
  <1>6. /\ Only(IF f.type = "slot_claimed" THEN session.slots ELSE session.claims, f)
        /\ \A j \in DOMAIN q : q[j].type = f.type /\ q[j].d = f.d => q[j].n = f.n
        /\ w.of # 0 => f.d = w.of
    BY <1>1, <1>4, <1>5 DEF GrantClear, TakesNext
  <1>7. \A j \in DOMAIN p : p[j].type = f.type /\ p[j].d = f.d => p[j].n = f.n BY <1>2, <1>6
  <1>8. e.type = f.type /\ e.d = f.d => ActorOf(e) = ActorOf(f) BY <1>2, <1>6 DEF ActorOf
  <1>9. /\ SlotRecord(e).actor = ActorOf(e) /\ ClaimRecord(e).actor = ActorOf(e) /\ ActorOf(e)[1] = e.d
    BY DEF SlotRecord, ClaimRecord, ActorOf
  <1>10. CASE f.type = "slot_claimed"
    <2>1. \A x \in session'.slots : x \in session.slots \/ (e.type = "slot_claimed" /\ x = SlotRecord(e)) BY NewSlot
    <2>2. Only(session.slots, f) BY <1>6, <1>10
    <2> HIDE DEF SlotRecord, ClaimRecord, Entry, ActorOf
    <2>3. Only(session'.slots, f) BY <1>8, <1>9, <1>10, <2>1, <2>2 DEF Only
    <2> QED BY <1>6, <1>7, <1>10, <2>3
  <1>11. CASE f.type = "claim_granted"
    <2>1. \A x \in session'.claims : x \in session.claims \/ (e.type = "claim_granted" /\ x = ClaimRecord(e)) BY NewClaim
    <2>2. Only(session.claims, f) BY <1>6, <1>11
    <2> HIDE DEF SlotRecord, ClaimRecord, Entry, ActorOf
    <2>3. Only(session'.claims, f) BY <1>8, <1>9, <1>11, <2>1, <2>2 DEF Only
    <2> QED BY <1>6, <1>7, <1>11, <2>3
  <1> QED BY <1>10, <1>11 DEF Granting

\* What an event has given back need not be given back again.
LEMMA GivesNext ==
  ASSUME NEW q, NEW p, NEW i \in Nat, \A j \in 1 .. i - 1 : p[j] = q[j + 1],
         NEW type, NEW x, Gives(q, i, type, x),
         ~(q[1].type = type /\ x.actor = ActorOf(q[1]) /\ x.group = q[1].group)
  PROVE  Gives(p, i - 1, type, x)
  <1>1. PICK j \in 1 .. i : q[j].type = type /\ ActorOf(q[j]) = x.actor /\ q[j].group = x.group BY DEF Gives
  <1>2. j # 1 BY <1>1
  <1>3. j - 1 \in 1 .. i - 1 /\ (j - 1) + 1 = j BY <1>2
  <1>4. p[j - 1] = q[j] BY <1>3
  <1> HIDE DEF ActorOf
  <1> QED BY <1>1, <1>3, <1>4 DEF Gives

LEMMA OpenMore ==
  ASSUME Inv, Booking, writer.by # 0, NEW e, Entry(e), e = Head(writer.todo), Len(writer.todo) > 1,
         NEW w, TakesNext(w), NEW i \in DOMAIN w.todo, NEW own, own = {writer.by, cmd[writer.by].grp}
  PROVE  OpenClear(session', w, own, i)
  <1>1. PICK q, p : q = writer.todo /\ p = w.todo OBVIOUS
  <1>2. /\ Len(p) \in Nat /\ DOMAIN p = 1 .. Len(p)
        /\ \A j \in DOMAIN p : j + 1 \in DOMAIN q /\ p[j] = q[j + 1]
        /\ 1 \in DOMAIN q /\ e = q[1]
    <2> HIDE DEF Entry, TakesNext
    <2> QED BY <1>1, NextTodo
  <1>3. PICK f : f = p[i] OBVIOUS
  <1>4. i + 1 \in DOMAIN q /\ f = q[i + 1] /\ i \in Nat BY <1>1, <1>2, <1>3
  <1>5. OpenClear(session, writer, own, i + 1)
    <2> HIDE DEF OpenClear
    <2> QED BY <1>1, <1>4 DEF Booking, WriterClear
  <1>6. (i + 1) - 1 = i BY <1>4
  <1> SUFFICES ASSUME f.type = "barrier_released"
               PROVE  /\ w.then \notin {"run", "launch"}
                      /\ f.group \in own => Given(session', p, i - 1, f.group)
    BY <1>1, <1>3 DEF OpenClear
  <1>7. writer.then \notin {"run", "launch"} /\ (f.group \in own => Given(session, q, i, f.group))
    BY <1>1, <1>4, <1>5, <1>6 DEF OpenClear
  <1>8. \A j \in 1 .. i - 1 : p[j] = q[j + 1]
    <2>1. i \in 1 .. Len(p) BY <1>1, <1>2
    <2> QED BY <1>2, <2>1
  <1>9. e.type \notin {"slot_claimed", "claim_granted"} BY <1>7 DEF Entry, HeadOK
  <1>10. ASSUME f.group \in own PROVE Given(session', p, i - 1, f.group)
    <2>1. Given(session, q, i, f.group) BY <1>7, <1>10
    <2>2. ASSUME NEW x \in session'.slots, x.group = f.group PROVE Gives(p, i - 1, "slot_released", x)
      <3>1. x \in session.slots BY <1>9, <2>2, NewSlot
      <3>2. Gives(q, i, "slot_released", x) BY <2>1, <2>2, <3>1 DEF Given
      <3>3. ~(e.type = "slot_released" /\ x.actor = ActorOf(e) /\ x.group = e.group)
        <4>1. Books(session, session', e) BY DEF Entry
        <4>2. e.type = "slot_released" => session'.slots = Without(session.slots, e) BY <4>1 DEF Books
        <4> QED BY <2>2, <4>2 DEF Without
      <3> HIDE DEF Gives, ActorOf, Entry
      <3> QED BY <1>2, <1>4, <1>8, <3>2, <3>3, GivesNext
    <2>3. ASSUME NEW x \in session'.claims, x.group = f.group PROVE Gives(p, i - 1, "claim_released", x)
      <3>1. x \in session.claims BY <1>9, <2>3, NewClaim
      <3>2. Gives(q, i, "claim_released", x) BY <2>1, <2>3, <3>1 DEF Given
      <3>3. ~(e.type = "claim_released" /\ x.actor = ActorOf(e) /\ x.group = e.group)
        <4>1. Books(session, session', e) BY DEF Entry
        <4>2. e.type = "claim_released" => session'.claims = Without(session.claims, e) BY <4>1 DEF Books
        <4> QED BY <2>3, <4>2 DEF Without
      <3> HIDE DEF Gives, ActorOf, Entry
      <3> QED BY <1>2, <1>4, <1>8, <3>2, <3>3, GivesNext
    <2> HIDE DEF Gives
    <2> QED BY <2>2, <2>3 DEF Given
  <1> QED BY <1>7, <1>10 DEF TakesNext

\* A release takes away all that the group holds of the delegation.
LEMMA ReleaseClears ==
  ASSUME NEW S, OneEach(S), NEW a, NEW g, NEW e, ActorOf(e) = a, e.group = g, \E x \in S : x.actor = a /\ x.group = g
  PROVE  NoneFor(Without(S, e), g, a[1])
  <1> HIDE DEF ActorOf
  <1> QED BY DEF NoneFor, Without, OneEach

LEMMA RetryMore ==
  ASSUME Inv, Booking, writer.by # 0, NEW e, Entry(e), Admissible(session, e), e = Head(writer.todo),
         Len(writer.todo) > 1, NEW w, TakesNext(w), NEW n, RetryClear(session, writer, n)
  PROVE  RetryClear(session', w, n)
  <1>1. PICK d, g, q : d = writer.of /\ g = writer.by /\ q = writer.todo OBVIOUS
  <1>2. PICK x, y : x = Held("claim_released", <<d, n>>, g) /\ y = Held("slot_released", <<d, n>>, g) OBVIOUS
  <1>3. q = <<x, y>> \/ q = <<y>> BY <1>1, <1>2 DEF RetryClear, Releasing
  <1>4. q = <<x, y>>
    <2>1. Len(q) > 1 BY <1>1
    <2>2. Len(<<y>>) = 1 OBVIOUS
    <2>3. ASSUME q = <<y>> PROVE FALSE BY <2>1, <2>2, <2>3
    <2> QED BY <1>3, <2>3
  <1>5. e = x /\ w.todo = <<y>> BY <1>1, <1>4 DEF TakesNext
  <1>6. e.type = "claim_released" /\ ActorOf(e) = <<d, n>> /\ e.group = g BY <1>2, <1>5 DEF Held, ActorOf
  <1>7. \E z \in session.claims : z.actor = <<d, n>> /\ z.group = g BY <1>6 DEF Admissible
  <1>8. session'.claims = Without(session.claims, e) BY <1>6 DEF Entry, Books
  <1>9. OneEach(session.claims) BY DEF Booking
  <1>10. NoneFor(session'.claims, g, d)
    <2>0. PICK a : a = <<d, n>> OBVIOUS
    <2>1. a = <<d, n>> /\ a[1] = d BY <2>0
    <2> HIDE DEF NoneFor, OneEach, Without, ActorOf, Entry, Admissible
    <2>2. NoneFor(Without(session.claims, e), g, a[1]) BY <1>6, <1>7, <1>9, <2>1, ReleaseClears
    <2> QED BY <1>8, <2>1, <2>2
  <1>11. w.of = d /\ w.by = g BY <1>1 DEF TakesNext
  <1> QED BY <1>2, <1>5, <1>10, <1>11 DEF RetryClear

LEMMA BookedMore ==
  ASSUME Inv, Admission, Booking, writer.by # 0, writer.todo # <<>>, NEW e, Entry(e), Admissible(session, e),
         e = Head(writer.todo), Len(writer.todo) > 1, writer' = [writer EXCEPT !.todo = Tail(@)],
         UNCHANGED <<cmd, thr>>
  PROVE  Booking'
  <1>1. PICK w : writer' = w /\ TakesNext(w)
    <2>1. writer \in WriterType BY DEF Inv, Types
    <2> QED BY <2>1 DEF WriterType, TakesNext
  <1>2. \A h \in Commands, d \in Delegations : Retrying(h, d)' => Retrying(h, d)
    BY <1>1 DEF Retrying, TakesNext
  <1>3. PICK own, n : own = {writer.by, cmd[writer.by].grp} /\ n = thr[writer.by][writer.of].n OBVIOUS
  <1>4. own = {writer.by, cmd[writer.by].grp}' /\ n = (thr[writer.by][writer.of].n)' BY <1>1, <1>3 DEF TakesNext
  <1>5. ASSUME NEW i \in DOMAIN w.todo
        PROVE  GrantClear(session', w, i) /\ OpenClear(session', w, own, i)
    <2> HIDE DEF GrantClear, OpenClear, Entry, TakesNext
    <2> QED BY <1>1, <1>3, <1>5, GrantMore, OpenMore
  <1>6. w.of # 0 /\ w.then = "prepare" => RetryClear(session', w, n)
    <2> SUFFICES ASSUME w.of # 0, w.then = "prepare" PROVE RetryClear(session', w, n) OBVIOUS
    <2>1. RetryClear(session, writer, n)
      <3> HIDE DEF RetryClear, GrantClear, OpenClear
      <3> QED BY <1>1, <1>3 DEF Booking, WriterClear, TakesNext
    <2> HIDE DEF RetryClear, Entry, Admissible, TakesNext
    <2> QED BY <1>1, <2>1, RetryMore
  <1>7. WriterClear'
    <2> HIDE DEF RetryClear, GrantClear, OpenClear
    <2> QED BY <1>1, <1>4, <1>5, <1>6 DEF WriterClear
  <1> HIDE DEF Entry, Retrying, Clear, WriterClear, Admissible
  <1> QED BY <1>2, <1>7, EntryBooks

-----------------------------------------------------------------------------
(* The append of one event: who goes on, as far as the book is concerned. *)

LEMMA OthersRetry ==
  ASSUME Inv, writer.by # 0, NEW g \in Commands, NEW d \in Delegations, g = writer.by, d = writer.of,
         NEW t \in LaunchType, Moves(g, d, t), UNCHANGED cmd, t.pc # "holding",
         NEW h \in Commands, NEW k \in Delegations, Retrying(h, k)'
  PROVE  Retrying(h, k) \/ (h = g /\ k = d /\ t.pc \in {"prepare", "readmit"})
  <1>1. /\ thr'[g][d] = t
        /\ h # g \/ k # d => thr'[h][k] = thr[h][k]
    BY ThrUpdate DEF Inv
  <1>2. h # g \/ k # d => thr[h][k].pc # "holding" BY OthersDoNotHold
  <1> QED BY <1>1, <1>2 DEF Retrying

\* The slot is the last that a retry gives back.
LEMMA RetryLast ==
  ASSUME Inv, Booking, NEW e, Entry(e), Admissible(session, e), e = Head(writer.todo), Len(writer.todo) = 1,
         NEW n, RetryClear(session, writer, n)
  PROVE  Clear(session', writer.by, writer.of)
  <1>1. PICK d, g, q : d = writer.of /\ g = writer.by /\ q = writer.todo OBVIOUS
  <1>2. PICK x, y : x = Held("claim_released", <<d, n>>, g) /\ y = Held("slot_released", <<d, n>>, g) OBVIOUS
  <1>3. q = <<x, y>> \/ (q = <<y>> /\ NoneFor(session.claims, g, d)) BY <1>1, <1>2 DEF RetryClear, Releasing
  <1>4. q = <<y>> /\ NoneFor(session.claims, g, d)
    <2>1. Len(q) = 1 BY <1>1
    <2>2. Len(<<x, y>>) = 2 OBVIOUS
    <2>3. ASSUME q = <<x, y>> PROVE FALSE BY <2>1, <2>2, <2>3
    <2> QED BY <1>3, <2>3
  <1>5. e = y BY <1>1, <1>4
  <1>6. e.type = "slot_released" /\ ActorOf(e) = <<d, n>> /\ e.group = g BY <1>2, <1>5 DEF Held, ActorOf
  <1>7. \E z \in session.slots : z.actor = <<d, n>> /\ z.group = g BY <1>6 DEF Admissible
  <1>8. session'.slots = Without(session.slots, e) /\ session'.claims = session.claims BY <1>6 DEF Entry, Books
  <1>9. OneEach(session.slots) BY DEF Booking
  <1>10. NoneFor(session'.slots, g, d)
    <2>0. PICK a : a = <<d, n>> OBVIOUS
    <2>1. a = <<d, n>> /\ a[1] = d BY <2>0
    <2> HIDE DEF NoneFor, OneEach, Without, ActorOf, Entry, Admissible
    <2>2. NoneFor(Without(session.slots, e), g, a[1]) BY <1>6, <1>7, <1>9, <2>1, ReleaseClears
    <2> QED BY <1>8, <2>1, <2>2
  <1> QED BY <1>1, <1>4, <1>8, <1>10 DEF Clear

LEMMA LaunchAt ==
  ASSUME Inv, writer.by # 0, writer.of # 0, writer.todo # <<>>, NEW to, to \in {writer.then, writer.refused},
         Goto(writer.by, writer.of, to)
  PROVE  \E g \in Commands, d \in Delegations, t \in LaunchType :
           /\ g = writer.by /\ d = writer.of /\ cmd[g].pc = "run" /\ thr[g][d].pc = "holding"
           /\ Moves(g, d, t) /\ t.pc = to /\ UNCHANGED cmd /\ to \notin {"holding", "idle"}
           /\ writer.refused \in {"fail", "rejected"}
  <1>1. PICK g \in Commands, d \in Delegations : g = writer.by /\ d = writer.of /\ LaunchHolds(g, d)
    <2> HIDE DEF CommandHolds, LaunchHolds, Goto
    <2> QED BY WriterHolder
  <1>2. /\ cmd[g].pc = "run" /\ thr[g][d].pc = "holding"
        /\ writer.then \in LaunchSteps \ {"holding", "idle"} /\ writer.refused \in {"fail", "rejected"}
    BY <1>1 DEF LaunchHolds
  <1>3. to \in LaunchSteps /\ to \notin {"holding", "idle"} BY <1>2 DEF LaunchSteps
  <1>4. Goto(g, d, to) BY <1>1
  <1>5. UNCHANGED cmd /\ \E t \in LaunchType : Moves(g, d, t) /\ t.pc = to
    <2> HIDE DEF Goto
    <2> QED BY <1>3, <1>4, GotoLaunch
  <1> HIDE DEF Goto, Moves
  <1> QED BY <1>1, <1>2, <1>3, <1>5

LEMMA BookedLastOfLaunch ==
  ASSUME Inv, Admission, Booking, writer.by # 0, writer.of # 0, writer.todo # <<>>, NEW e, Entry(e),
         Admissible(session, e), e = Head(writer.todo), Len(writer.todo) = 1,
         Goto(writer.by, writer.of, writer.then), WriterClear'
  PROVE  Booking'
  <1>1. PICK to : to = writer.then OBVIOUS
  <1>2. PICK g \in Commands, d \in Delegations, t \in LaunchType :
          /\ g = writer.by /\ d = writer.of /\ cmd[g].pc = "run" /\ thr[g][d].pc = "holding"
          /\ Moves(g, d, t) /\ t.pc = to /\ UNCHANGED cmd /\ to \notin {"holding", "idle"}
    <2> HIDE DEF Goto, Entry, Admissible, Moves
    <2> QED BY <1>1, LaunchAt
  <1>3. ASSUME to = "prepare" PROVE Clear(session', g, d)
    <2>1. PICK n : n = thr[writer.by][writer.of].n OBVIOUS
    <2>2. RetryClear(session, writer, n)
      <3> HIDE DEF RetryClear, GrantClear, OpenClear
      <3> QED BY <1>1, <1>3, <2>1 DEF Booking, WriterClear
    <2> HIDE DEF RetryClear, Entry, Admissible, Clear
    <2> QED BY <1>2, <2>2, RetryLast
  <1>4. to = "readmit" => Retrying(g, d) BY <1>1, <1>2 DEF Retrying
  <1>5. ASSUME NEW h \in Commands, NEW k \in Delegations, Retrying(h, k)'
        PROVE  Retrying(h, k) \/ Clear(session', h, k)
    <2>1. Retrying(h, k) \/ (h = g /\ k = d /\ t.pc \in {"prepare", "readmit"})
      <3> HIDE DEF Retrying, Moves, Entry, Admissible
      <3> QED BY <1>2, <1>5, OthersRetry
    <2> HIDE DEF Retrying, Clear
    <2> QED BY <1>2, <1>3, <1>4, <2>1
  <1> HIDE DEF Entry, Retrying, Clear, WriterClear, Admissible
  <1> QED BY <1>5, EntryBooks

\* The start barrier keeps the writer, with nothing left to append.
LEMMA StartingClear ==
  ASSUME Inv, writer.then = "sending", writer' = [writer EXCEPT !.todo = <<>>]
  PROVE  WriterClear'
  <1>1. writer \in WriterType BY DEF Inv, Types
  <1>2. writer'.todo = <<>> /\ writer'.then = "sending" BY <1>1 DEF WriterType
  <1>3. DOMAIN writer'.todo = {} BY <1>2
  <1> QED BY <1>2, <1>3 DEF WriterClear

\* The writer of a command is let go: its launches are not on their way to a retry.
LEMMA CommandAt ==
  ASSUME Inv, Admission, writer.by # 0, writer.of = 0, writer.todo # <<>>,
         NEW to, to \in {writer.then, writer.refused}, Goto(writer.by, 0, to),
         NEW h \in Commands, NEW k \in Delegations, Retrying(h, k)', writer' = Free
  PROVE  Retrying(h, k)
  <1>1. PICK g \in Commands : g = writer.by /\ CommandHolds(g)
    <2> HIDE DEF CommandHolds, LaunchHolds, Goto, Retrying
    <2> QED BY WriterHolder
  <1>2. to \in {"run", "release", "done", "read", "reclaim", "yield"} /\ (to = "run" => writer.then = "run")
    BY <1>1 DEF CommandHolds
  <1>3. Goto(g, 0, to) BY <1>1
  <1>4. /\ cmd'[g].pc = to /\ (to = "run" => thr' = thr)
        /\ \A c \in Commands : c # g => cmd'[c] = cmd[c] /\ thr'[c] = thr[c]
    <2>1. CASE to = "done"
      <3>1. Over(g) BY <1>3, <2>1 DEF Goto
      <3>2. PICK c \in CommandType : Comes(g, c) /\ c.pc = "done" BY <3>1, OverFacts
      <3>3. \A b \in Commands : b # g => thr'[b] = thr[b] BY <3>1, OverFacts, QuitsLaunches
      <3>4. cmd'[g] = c /\ \A b \in Commands : b # g => cmd'[b] = cmd[b] BY <3>2, ComesFacts
      <3> QED BY <2>1, <3>2, <3>3, <3>4
    <2>2. CASE to # "done"
      <3>1. cmd' = [cmd EXCEPT ![g].pc = to] /\ UNCHANGED thr BY <1>3, <2>2 DEF Goto
      <3>2. cmd \in [Commands -> CommandType] BY DEF Inv, Types
      <3>3. /\ cmd'[g] = [cmd[g] EXCEPT !.pc = to]
            /\ \A b \in Commands : b # g => cmd'[b] = cmd[b]
        <4> HIDE DEF CommandType
        <4> QED BY <3>1, <3>2
      <3>4. cmd'[g].pc = to BY <3>2, <3>3 DEF CommandType
      <3> QED BY <3>1, <3>3, <3>4
    <2> QED BY <2>1, <2>2
  <1>5. CASE h # g
    <2>1. thr[h][k].pc # "holding"
      <3> HIDE DEF Goto, Retrying
      <3> QED BY <1>1, <1>5, OthersDoNotHold
    <2>2. cmd'[h] = cmd[h] /\ thr'[h] = thr[h] BY <1>4, <1>5
    <2> QED BY <2>1, <2>2 DEF Retrying
  <1>6. CASE h = g
    <2>1. to = "run" /\ thr' = thr BY <1>4, <1>6 DEF Retrying
    <2>2. thr[g][k].pc \in {"idle", "launch"}
      <3>1. WriterSafe BY DEF Admission
      <3> HIDE DEF Coming, Promised
      <3> QED BY <1>1, <1>2, <2>1, <3>1 DEF WriterSafe
    <2> QED BY <1>6, <2>1, <2>2 DEF Retrying
  <1> QED BY <1>5, <1>6

LEMMA BookedLastOfCommand ==
  ASSUME Inv, Admission, Booking, writer.by # 0, writer.of = 0, writer.todo # <<>>, NEW e, Entry(e),
         e = Head(writer.todo), writer' = Free, Goto(writer.by, 0, writer.then)
  PROVE  Booking'
  <1>1. PICK to : to = writer.then OBVIOUS
  <1>2. WriterClear' BY FreeIsClear
  <1>3. ASSUME NEW h \in Commands, NEW k \in Delegations, Retrying(h, k)' PROVE Retrying(h, k)
    <2> HIDE DEF Entry, Retrying, Goto, WriterClear
    <2> QED BY <1>1, <1>3, CommandAt
  <1> HIDE DEF Entry, Retrying, Clear, WriterClear, Goto, Free
  <1> QED BY <1>2, <1>3, EntryBooks

LEMMA BookedRefused ==
  ASSUME Inv, Admission, Booking, writer.by # 0, writer.todo # <<>>, writer' = Free,
         Goto(writer.by, writer.of, writer.refused), UNCHANGED <<session, op, child>>
  PROVE  Booking'
  <1>1. SpentKept BY SpentSame
  <1>2. SameBook BY SessionSame
  <1>3. WriterClear' BY FreeIsClear
  <1>4. PICK to : to = writer.refused OBVIOUS
  <1>5. ASSUME NEW h \in Commands, NEW k \in Delegations, Retrying(h, k)' PROVE Retrying(h, k)
    <2>1. CASE writer.of = 0
      <3>1. Goto(writer.by, 0, to) BY <1>4, <2>1
      <3> HIDE DEF Retrying, Goto, WriterClear, Free
      <3> QED BY <1>4, <1>5, <2>1, <3>1, CommandAt
    <2>2. CASE writer.of # 0
      <3>1. PICK g \in Commands, d \in Delegations, t \in LaunchType :
              /\ g = writer.by /\ d = writer.of /\ Moves(g, d, t) /\ t.pc = to /\ UNCHANGED cmd
              /\ to \notin {"holding", "idle"} /\ writer.refused \in {"fail", "rejected"}
        <4> HIDE DEF Goto, Moves
        <4> QED BY <1>4, <2>2, LaunchAt
      <3>2. Retrying(h, k) \/ (h = g /\ k = d /\ t.pc \in {"prepare", "readmit"})
        <4> HIDE DEF Retrying, Moves, Goto
        <4> QED BY <1>5, <3>1, OthersRetry
      <3> HIDE DEF Retrying
      <3> QED BY <1>4, <3>1, <3>2
    <2> QED BY <2>1, <2>2
  <1> HIDE DEF Retrying, WriterClear, SpentKept, SameBook
  <1> QED BY <1>1, <1>2, <1>3, <1>5, StepIsBooked

LEMMA BookedAppendEvent ==
  ASSUME Inv, Admission, Booking, AppendEvent
  PROVE  Booking'
  <1>1. writer.by # 0 /\ writer.todo # <<>> /\ UNCHANGED <<op, child>> BY DEF AppendEvent
  <1>2. writer.todo \in Seq(Event) BY DEF Inv, Types, WriterType
  <1>3. Len(writer.todo) \in Nat /\ Len(writer.todo) >= 1 BY <1>1, <1>2, Heads
  <1>4. Len(writer.todo) = 1 \/ Len(writer.todo) > 1
    <2>1. \A k \in Nat : k >= 1 => k = 1 \/ k > 1 OBVIOUS
    <2> QED BY <1>3, <2>1
  <1>5. CASE ~Admissible(session, Head(writer.todo))
    <2>1. writer' = Free /\ Goto(writer.by, writer.of, writer.refused) /\ UNCHANGED session
      <3> HIDE DEF Admissible, Goto
      <3> QED BY <1>5 DEF AppendEvent
    <2> HIDE DEF Goto
    <2> QED BY <1>1, <2>1, BookedRefused
  <1>6. CASE Admissible(session, Head(writer.todo))
    <2>1. /\ session' = Apply(session, Head(writer.todo))
          /\ IF Len(writer.todo) > 1
             THEN writer' = [writer EXCEPT !.todo = Tail(@)] /\ UNCHANGED <<cmd, thr>>
             ELSE /\ writer' = IF writer.then = "sending" THEN [writer EXCEPT !.todo = <<>>] ELSE Free
                  /\ Goto(writer.by, writer.of, writer.then)
      <3> HIDE DEF Admissible, Goto, Apply
      <3> QED BY <1>6 DEF AppendEvent, KeepsWriter
    <2>2. PICK e : e = Head(writer.todo) OBVIOUS
    <2>3. Admissible(session, e) /\ session' = Apply(session, e) BY <1>6, <2>1, <2>2
    <2> HIDE DEF Admissible, Apply
    <2>4. Entry(e)
      <3> HIDE DEF Entry
      <3> QED BY <1>1, <2>2, <2>3, Enters
    <2> HIDE DEF Entry, Goto
    <2>5. CASE Len(writer.todo) > 1 BY <1>1, <2>1, <2>2, <2>3, <2>4, <2>5, BookedMore
    <2>6. CASE ~(Len(writer.todo) > 1)
      <3>1. Len(writer.todo) = 1 BY <1>4, <2>6
      <3>2. Goto(writer.by, writer.of, writer.then) BY <2>1, <2>6
      <3>3. CASE writer.of = 0
        <4>1. writer.then # "sending"
          <5>1. CommandHolds(writer.by)
            <6> HIDE DEF CommandHolds, LaunchHolds
            <6> QED BY <1>1, <3>3, WriterHolder
          <5> QED BY <5>1 DEF CommandHolds
        <4>2. writer' = Free BY <2>1, <2>6, <4>1
        <4>3. Goto(writer.by, 0, writer.then) BY <3>2, <3>3
        <4> QED BY <1>1, <2>2, <2>4, <3>3, <4>2, <4>3, BookedLastOfCommand
      <3>4. CASE writer.of # 0
        <4>1. WriterClear'
          <5>1. CASE writer.then = "sending" BY <2>1, <2>6, <5>1, StartingClear
          <5>2. CASE writer.then # "sending" BY <2>1, <2>6, <5>2, FreeIsClear
          <5> QED BY <5>1, <5>2
        <4> QED BY <1>1, <2>2, <2>3, <2>4, <3>1, <3>2, <3>4, <4>1, BookedLastOfLaunch
      <3> QED BY <3>3, <3>4
    <2> QED BY <2>5, <2>6
  <1> QED BY <1>5, <1>6

-----------------------------------------------------------------------------
(* The induction of the booking layer. *)

LEMMA InitBooking == Init => Booking
  <1> SUFFICES ASSUME Init PROVE Booking OBVIOUS
  <1>1. session.slots = {} /\ session.claims = {} BY DEF Init
  <1>2. Booked
    <2> SUFFICES ASSUME NEW a \in Actors, NEW b \in Commands PROVE GroupOf(session, a) # b BY DEF Booked
    <2>1. PICK d \in Delegations, n \in 1..2 : a = <<d, n>> BY DEF Actors
    <2>2. session.claimed[d][n] = 0 BY DEF Init
    <2>3. b # 0 BY DEF Commands
    <2> QED BY <2>1, <2>2, <2>3 DEF GroupOf
  <1>3. OneEach(session.slots) /\ OneEach(session.claims) BY <1>1 DEF OneEach
  <1>4. \A g \in Commands, d \in Delegations : LaunchClear(g, d)
    <2>1. \A g \in Commands : cmd[g].pc = "unused" BY DEF Init, Unused
    <2> QED BY <2>1 DEF LaunchClear, Retrying
  <1>5. WriterClear
    <2>1. writer.todo = <<>> /\ writer.of = 0 BY DEF Init, Free
    <2>2. DOMAIN writer.todo = {} BY <2>1
    <2> QED BY <2>1, <2>2 DEF WriterClear
  <1> HIDE DEF Init, Booked, LaunchClear, WriterClear, OneEach
  <1> QED BY <1>2, <1>3, <1>4, <1>5 DEF Booking

LEMMA StutterBooking == ASSUME Inv, Booking, UNCHANGED vars PROVE Booking'
  <1>1. UNCHANGED <<session, writer, op, child, cmd, thr>> BY DEF vars
  <1>2. SpentKept BY <1>1, SpentSame
  <1>3. SameBook BY <1>1, SessionSame
  <1>4. \A h \in Commands, e \in Delegations : Retrying(h, e)' => Retrying(h, e) BY <1>1 DEF Retrying
  <1>5. WriterClear'
    <2> HIDE DEF SameBook, WriterClear
    <2> QED BY <1>1, <1>3, ClearStays
  <1> HIDE DEF SameBook, SpentKept, WriterClear, Retrying
  <1> QED BY <1>2, <1>3, <1>4, <1>5, StepIsBooked

LEMMA NextBooking == Inv /\ Admission /\ Booking /\ [Next]_vars => Booking'
  <1> SUFFICES ASSUME Inv, Admission, Booking, [Next]_vars PROVE Booking' OBVIOUS
  <1>0. Inv' /\ Admission'
    <2> HIDE DEF Inv, Admission, Booking, Next
    <2> QED BY NextInv, NextAdmission
  <1> HIDE DEF Inv, Admission, Booking
  <1>1. CASE UNCHANGED vars BY <1>1, StutterBooking
  <1>2. CASE AppendEvent BY <1>2, BookedAppendEvent
  <1>3. ASSUME NEW d \in Delegations, Decide(d) \/ Enqueue(d) \/ PrepareEnvelope(d) \/ Cancel(d) PROVE Booking'
    BY <1>3, BookedUser
  <1>4. ASSUME NEW g \in Commands, Begin(g) \/ Command(g) \/ Abort(g) \/ Crash(g) \/ Exit(g) PROVE Booking'
    BY <1>0, <1>4, BookedCommand
  <1>5. ASSUME NEW g \in Commands, NEW d \in Delegations, Launch(g, d) \/ PollCancel(g, d) PROVE Booking'
    BY <1>0, <1>5, BookedLaunch
  <1>6. ASSUME NEW a \in Actors, ChildStart(a) \/ ChildEnd(a) \/ ChildDies(a) PROVE Booking'
    BY <1>6, BookedChild
  <1> QED BY <1>1, <1>2, <1>3, <1>4, <1>5, <1>6 DEF Next

(* The booking layer is invariant: whoever was admitted with a group has his *)
(* slot still, or can do nothing any more, or is the retry of a group that   *)
(* was taken over; and whoever opens the barrier of a group has first in its *)
(* list the releases of all that the group holds (the end of a group in      *)
(* delegation-owner-execution-service.ts, delegation-pre-effect-recovery.ts  *)
(* and delegation-group-takeover.ts).                                        *)
THEOREM BookingInvariant == Spec => [](Inv /\ Admission /\ Booking)
  <1>1. Init => Inv /\ Admission /\ Booking BY InitInv, InitAdmission, InitBooking
  <1>2. (Inv /\ Admission /\ Booking) /\ [Next]_vars => (Inv /\ Admission /\ Booking)'
    <2> HIDE DEF Inv, Admission, Booking
    <2> QED BY NextInv, NextAdmission, NextBooking
  <1> QED BY <1>1, <1>2, PTL DEF Spec

\* Only its release ends the suspension of a barrier.
LEMMA OnlyReleaseOpens ==
  ASSUME NEW s \in SessionType, NEW e \in Event, NEW t, t = Apply(s, e), Admissible(s, e), NEW b \in Commands,
         s.barriers[b].status = "suspended", t.barriers[b].status # "suspended"
  PROVE  e.type = "barrier_released" /\ e.group = b
  <1>1. e.type \in {"decided", "queued", "prepared", "accepted", "blocked", "cancel", "reserved",
              "launch_requested", "started", "settled", "pre_effect_cancelled", "terminal", "ready",
              "claim_granted", "claim_released", "slot_released", "slot_claimed", "lease_acquired",
              "barrier_suspended", "barrier_requested", "barrier_released", "takeover"}
    BY EventFields
  <1>2. CASE e.type \in {"decided", "queued", "prepared", "accepted", "blocked", "cancel"}
    BY <1>2 DEF Apply, SessionType
  <1>3. CASE e.type \in {"reserved", "launch_requested", "settled"} BY <1>3 DEF Apply, SessionType
  <1>4. CASE e.type \in {"started", "terminal", "ready"} BY <1>4 DEF Apply, SessionType
  <1>5. CASE e.type = "pre_effect_cancelled" BY <1>5 DEF Apply, SessionType
  <1>6. CASE e.type \in {"claim_granted", "claim_released", "slot_released", "slot_claimed"}
    BY <1>6 DEF Apply, SessionType
  <1>7. CASE e.type \in {"lease_acquired", "takeover"} BY <1>7 DEF Apply, SessionType
  <1>8. CASE e.type \in {"barrier_suspended", "barrier_requested", "barrier_released"}
    <2>1. e.group \in Commands BY <1>8, EventFields
    <2>2. PICK r : t = [s EXCEPT !.barriers = [@ EXCEPT ![e.group] = r]]
      <3>1. CASE e.type = "barrier_requested" BY <3>1 DEF Apply
      <3>2. CASE e.type = "barrier_suspended"
        <4>1. t = [s EXCEPT !.barriers = [@ EXCEPT ![e.group] = [s.barriers[e.group] EXCEPT !.status = "suspended"]]]
          BY <3>2 DEF Apply
        <4> QED BY <4>1
      <3>3. CASE e.type = "barrier_released"
        <4>1. t = [s EXCEPT !.barriers = [@ EXCEPT ![e.group] = [s.barriers[e.group] EXCEPT !.status = e.kind]]]
          BY <3>3 DEF Apply
        <4> QED BY <4>1
      <3> QED BY <1>8, <3>1, <3>2, <3>3
    <2>3. b # e.group => t.barriers[b] = s.barriers[b] BY <2>1, <2>2 DEF SessionType
    <2>4. b = e.group BY <2>3
    <2>5. e.type # "barrier_requested" BY <2>4 DEF Admissible
    <2>6. e.type # "barrier_suspended" BY <2>4 DEF Admissible
    <2> QED BY <1>8, <2>4, <2>5, <2>6
  <1> HIDE DEF Apply, Admissible, Event, SessionType
  <1> QED BY <1>1, <1>2, <1>3, <1>4, <1>5, <1>6, <1>7, <1>8

\* A barrier opens when its release is next.
LEMMA AppendOpens ==
  ASSUME Inv, AppendEvent, NEW b \in Commands,
         session.barriers[b].status = "suspended", session'.barriers[b].status # "suspended"
  PROVE  /\ writer.todo # <<>> /\ Head(writer.todo).type = "barrier_released" /\ Head(writer.todo).group = b
  <1>1. writer.by # 0 /\ writer.todo # <<>> BY DEF AppendEvent
  <1>2. writer.todo \in Seq(Event) /\ session \in SessionType BY DEF Inv, Types, WriterType
  <1>3. PICK e : e = Head(writer.todo) OBVIOUS
  <1>4. e \in Event BY <1>1, <1>2, <1>3, Heads
  <1>5. Admissible(session, e) /\ session' = Apply(session, e)
    <2>1. session' # session OBVIOUS
    <2> HIDE DEF Admissible, Goto, Apply
    <2> QED BY <1>3, <2>1 DEF AppendEvent
  <1>6. PICK t : t = session' OBVIOUS
  <1>7. PICK s : s = session OBVIOUS
  <1>8. /\ s \in SessionType /\ t = Apply(s, e) /\ Admissible(s, e)
        /\ s.barriers[b].status = "suspended" /\ t.barriers[b].status # "suspended"
    <2> HIDE DEF Apply, Admissible, SessionType
    <2> QED BY <1>2, <1>5, <1>6, <1>7
  <1> HIDE DEF Apply, Admissible, SessionType, Event, AppendEvent
  <1>9. e.type = "barrier_released" /\ e.group = b BY <1>4, <1>8, OnlyReleaseOpens
  <1> QED BY <1>1, <1>3, <1>9

LEMMA CommandKeepsSession ==
  ASSUME NEW g \in Commands, Begin(g) \/ Command(g) \/ Abort(g) \/ Crash(g) \/ Exit(g)
  PROVE  UNCHANGED session
  <1>1. CASE Command(g)
    BY <1>1 DEF Command, Read, Fence, Acquire, AdmitGroup, AppendPreEffectTerminal, Finish, ReleaseLease,
       Inspect, PrepareAgain, RecoverLater, Reclaim, Unlease, Again, Takeover, Seize, Adopt, Yield
  <1>2. CASE Begin(g) BY <1>2 DEF Begin
  <1>3. CASE Abort(g) BY <1>3 DEF Abort
  <1>4. CASE Crash(g) \/ Exit(g) BY <1>4 DEF Crash, Exit, Dies
  <1> QED BY <1>1, <1>2, <1>3, <1>4

LEMMA LaunchKeepsSession ==
  ASSUME NEW g \in Commands, NEW d \in Delegations, Launch(g, d) \/ PollCancel(g, d)
  PROVE  UNCHANGED session
  <1>1. CASE PollCancel(g, d) BY <1>1 DEF PollCancel
  <1>2. CASE LaunchRequest(g, d) \/ Spawn(g, d) \/ Handshake(g, d) \/ Start(g, d) \/ SendStart(g, d)
    BY <1>2 DEF LaunchRequest, Spawn, Handshake, Start, SendStart
  <1>3. CASE Launch(g, d) /\ ~(LaunchRequest(g, d) \/ Spawn(g, d) \/ Handshake(g, d) \/ Start(g, d) \/ SendStart(g, d))
    BY <1>3 DEF Launch, Fail, RecordBlocked, Recover, Reconcile, Release, Prepare, Readmit, Wait, Lost, Import, Receipt,
       Settle
  <1> QED BY <1>1, <1>2, <1>3

Quiet(b) ==
  /\ ~Admitted(session, b)
  /\ \A a \in Actors : GroupOf(session, a) = b /\ child[a].state \in Live => Bypassed(a)

\* Nothing is held of a group whose release is next, and who had it is over.
LEMMA ReleaseIsQuiet ==
  ASSUME Inv, Admission, Booking, writer.todo # <<>>, NEW b \in Commands, b \in {writer.by, cmd[writer.by].grp},
         Head(writer.todo).type = "barrier_released", Head(writer.todo).group = b
  PROVE  Quiet(b)
  <1>1. PICK e : e = Head(writer.todo) OBVIOUS
  <1>2. PICK own : own = {writer.by, cmd[writer.by].grp} OBVIOUS
  <1>3. e = writer.todo[1] /\ OpenClear(session, writer, own, 1)
    <2> HIDE DEF GrantClear, OpenClear
    <2> QED BY <1>1, <1>2, HeadClear
  <1>4. Given(session, writer.todo, 1 - 1, b)
    <2> HIDE DEF Given
    <2> QED BY <1>1, <1>2, <1>3 DEF OpenClear
  <1>5. \A type, x : ~Gives(writer.todo, 1 - 1, type, x)
    <2>1. \A j \in 1 .. 1 - 1 : FALSE OBVIOUS
    <2> QED BY <2>1 DEF Gives
  <1>6. (\A x \in session.slots : x.group # b) /\ (\A x \in session.claims : x.group # b)
    <2> HIDE DEF Gives
    <2> QED BY <1>4, <1>5 DEF Given
  <1>7. ~Admitted(session, b) BY <1>6 DEF Admitted
  <1>8. ASSUME NEW a \in Actors, GroupOf(session, a) = b, child[a].state \in Live PROVE Bypassed(a)
    <2>1. /\ a[1] \in session.barriers[b].required
          /\ SlotIn(session, a, b) \/ Spent(a) \/ (a[2] = 2 /\ Taken(session, b))
      <3> HIDE DEF SlotIn, Spent, Taken
      <3> QED BY <1>8 DEF Booking, Booked
    <2>2. ~SlotIn(session, a, b) BY <1>6 DEF SlotIn
    <2>3. ~Spent(a)
      <3>1. child[a].state \notin {"none", "dead", "finished"} BY <1>8 DEF Live
      <3>2. ~Proven(op, a)
        <4>1. Proven(op, a) => child[a].state \in {"none", "dead"} BY DEF Inv, ProvenIsOver
        <4> QED BY <3>1, <4>1
      <3> QED BY <3>1, <3>2 DEF Spent
    <2> QED BY <2>1, <2>2, <2>3 DEF Taken, Bypassed
  <1> QED BY <1>7, <1>8 DEF Quiet

(* A command opens the parent barrier of the group it starts, recovers or    *)
(* takes over only when nothing of the group is admitted and no child of it  *)
(* can act, but for the retried child of a group that was taken over         *)
(* (parent.barrier.released in delegation-owner-execution-service.ts,        *)
(* delegation-pre-effect-recovery.ts and delegation-group-takeover.ts).      *)
THEOREM BarrierSafety == Spec => BarrierOpensQuiet
  <1> DEFINE P == \A b \in Commands :
                    /\ session.barriers[b].status = "suspended" /\ session'.barriers[b].status # "suspended"
                    /\ b \in {writer.by, cmd[writer.by].grp}
                    => /\ ~Admitted(session, b)
                       /\ \A a \in Actors :
                            GroupOf(session, a) = b /\ child[a].state \in Live => Bypassed(a)
  <1>1. ASSUME Inv, Admission, Booking, [Next]_vars PROVE P
    <2>1. ASSUME session'.barriers = session.barriers PROVE P BY <2>1
    <2>2. ASSUME UNCHANGED session PROVE P BY <2>2
    <2>3. CASE AppendEvent
      <3> SUFFICES ASSUME NEW b \in Commands,
                          session.barriers[b].status = "suspended", session'.barriers[b].status # "suspended",
                          b \in {writer.by, cmd[writer.by].grp}
                   PROVE  Quiet(b)
        BY DEF Quiet
      <3>1. writer.todo # <<>> /\ Head(writer.todo).type = "barrier_released" /\ Head(writer.todo).group = b
        <4> HIDE DEF AppendEvent, Inv, P, Quiet
        <4> QED BY <1>1, <2>3, AppendOpens
      <3> HIDE DEF Quiet, P
      <3> QED BY <1>1, <3>1, ReleaseIsQuiet
    <2> HIDE DEF P
    <2>4. CASE UNCHANGED vars
      <3>1. UNCHANGED session BY <2>4 DEF vars
      <3> QED BY <2>2, <3>1
    <2>5. ASSUME NEW d \in Delegations, Decide(d) \/ Enqueue(d) \/ PrepareEnvelope(d) \/ Cancel(d) PROVE P
      <3>1. SameBook BY <1>1, <2>5, UserKeepsBook
      <3> QED BY <2>1, <3>1 DEF SameBook
    <2>6. ASSUME NEW g \in Commands, Begin(g) \/ Command(g) \/ Abort(g) \/ Crash(g) \/ Exit(g) PROVE P
      BY <2>2, <2>6, CommandKeepsSession
    <2>7. ASSUME NEW g \in Commands, NEW d \in Delegations, Launch(g, d) \/ PollCancel(g, d) PROVE P
      BY <2>2, <2>7, LaunchKeepsSession
    <2>8. ASSUME NEW a \in Actors, ChildStart(a) \/ ChildEnd(a) \/ ChildDies(a) PROVE P
      <3>1. UNCHANGED session BY <2>8 DEF ChildStart, ChildEnd, ChildDies
      <3> QED BY <2>2, <3>1
    <2> HIDE DEF AppendEvent
    <2> QED BY <1>1, <2>3, <2>4, <2>5, <2>6, <2>7, <2>8 DEF Next
  <1>2. Inv /\ Admission /\ Booking /\ [Next]_vars => P BY <1>1
  <1>3. Inv /\ Admission /\ Booking /\ [Next]_vars => [P]_vars BY <1>2
  <1> QED BY <1>3, BookingInvariant, PTL DEF Spec, BarrierOpensQuiet

=============================================================================
