--------------------------- MODULE DelegationProofs ---------------------------
(* The steps of the commands, of the children and of the writer preserve the *)
(* inductive invariant of DelegationLaunchProofs; the theorems follow.       *)
EXTENDS DelegationLaunchProofs

-----------------------------------------------------------------------------
(* The steps of the commands and of the children. *)

LeaseType ==
  [state : {"none", "active", "released"}, group : 0..MaxCommands,
   owner : 0..MaxCommands, nonce : 0..MaxCommands]

\* The launch of e by h is left alone.
Same(h, e) ==
  /\ thr'[h][e] = thr[h][e]
  /\ thr[h][e].pc # "idle" => cmd'[h].pc = cmd[h].pc /\ cmd'[h].adm = cmd[h].adm
  /\ thr[h][e].pc \in {"holding", "sending"} => UNCHANGED writer

\* Nothing is proven of an operation that was not.
NothingProven == \A a \in Actors : Touched(a) /\ (Proven(op', a) => Proven(op, a))

LEMMA Unproven == ASSUME Inv, UNCHANGED <<op, child>> PROVE NothingProven
  <1>1. ASSUME NEW a \in Actors PROVE Touched(a) BY Untouched
  <1>2. ASSUME NEW a \in Actors PROVE Proven(op', a) => Proven(op, a) BY DEF Proven
  <1> HIDE DEF Touched, Proven
  <1> QED BY <1>1, <1>2 DEF NothingProven

LEMMA QuietStep ==
  ASSUME Inv, Types', UNCHANGED session, NothingProven,
         \A h \in Commands, e \in Delegations :
           Same(h, e) \/ (LaunchOK(h, e)' /\ ~Danger(h, e)'),
         \A h \in Commands : CommandOK(h)', WriterOK'
  PROVE  Inv'
  <1>1. Goes BY StillGoes
  <1>2. \A a \in Actors : Touched(a) BY DEF NothingProven
  <1>3. /\ ActedIsStarted' /\ UnboundIsNew' /\ OperationOK' /\ NoEffectIsProven'
    BY <1>1, <1>2, RecordsKeep
  <1>4. ASSUME NEW h \in Commands, NEW e \in Delegations
        PROVE  /\ LaunchOK(h, e)'
               /\ Danger(h, e)' => Danger(h, e) /\ thr'[h][e].n = thr[h][e].n
    <2>1. CASE Same(h, e)
      <3>1. LaunchOK(h, e)' /\ (Danger(h, e)' <=> Danger(h, e)) BY <1>1, <2>1, LaunchFrame DEF Same
      <3>2. thr'[h][e] = thr[h][e] BY <2>1 DEF Same
      <3> HIDE DEF LaunchOK, Danger
      <3> QED BY <3>1, <3>2
    <2>2. CASE LaunchOK(h, e)' /\ ~Danger(h, e)'
      <3> HIDE DEF LaunchOK, Danger
      <3> QED BY <2>2
    <2> HIDE DEF LaunchOK, Danger, Same
    <2> QED BY <2>1, <2>2
  <1>5. \A a \in Actors : ~(Proven(op', a) /\ ~Proven(op, a)) BY DEF NothingProven
  <1>6. ProvenIsOver' /\ OneDanger'
    <2> HIDE DEF Danger, LaunchOK
    <2> QED BY <1>2, <1>4, <1>5, DangerKeeps
  <1>7. SessionOK(session)' BY <1>1 DEF Goes
  <1> HIDE DEF LaunchOK, CommandOK, WriterOK, Danger
  <1> QED BY <1>3, <1>4, <1>6, <1>7 DEF Inv

\* A child's own steps, and what an abort does to the children.
LEMMA ChildrenStep ==
  ASSUME Inv, NothingProven, op' \in [Actors -> OpType], child' \in [Actors -> ChildType],
         cmd' \in [Commands -> CommandType],
         \A h \in Commands :
           /\ cmd'[h].pc = cmd[h].pc /\ cmd'[h].sel = cmd[h].sel /\ cmd'[h].n = cmd[h].n
           /\ cmd'[h].adm = cmd[h].adm /\ cmd'[h].grp = cmd[h].grp,
         UNCHANGED <<session, writer, lease, thr, gone, crashes>>
  PROVE  Inv'
  <1>1. Goes BY StillGoes
  <1>2. Types' BY DEF Inv, Types
  <1>3. \A h \in Commands, e \in Delegations : Same(h, e) BY DEF Same
  <1>4. ASSUME NEW h \in Commands PROVE CommandOK(h)' BY <1>1, CommandFrame
  <1>5. ProvenStays BY DEF NothingProven, Touched, ProvenStays
  <1>6. WriterOK' BY <1>1, <1>5, WriterFrame
  <1> HIDE DEF CommandOK, WriterOK, Same, LaunchOK, Danger, NothingProven
  <1> QED BY <1>2, <1>3, <1>4, <1>6, QuietStep

LEMMA OneChild ==
  ASSUME Inv, NEW a \in Actors, NEW c \in ChildType, child' = [child EXCEPT ![a] = c],
         NEW o \in OpType, op' = [op EXCEPT ![a] = o], o.failure = op[a].failure,
         o.state \in {op[a].state, "terminal_observed"},
         ~Proven(op, a), IsBound(session, a), c.state \in Acted => IsStarted(session, a),
         UNCHANGED <<session, writer, lease, cmd, thr, gone, crashes>>
  PROVE  Inv'
  <1>1. op \in [Actors -> OpType] /\ child \in [Actors -> ChildType] BY DEF Inv, Types
  <1>2. /\ op' \in [Actors -> OpType] /\ child' \in [Actors -> ChildType]
        /\ op'[a] = o /\ child'[a] = c
        /\ \A b \in Actors : b # a => op'[b] = op[b] /\ child'[b] = child[b]
    <2> HIDE DEF OpType, ChildType
    <2> QED BY <1>1
  <1>3. ~Proven(op', a) BY <1>2 DEF Proven
  <1>4. /\ op[a].state = "pre_effect_terminal" => Proven(op, a)
        /\ op[a].state = "reconciled" => IsSettled(session, a)
    BY SameChild
  <1>5. Touched(a)
    <2> HIDE DEF Proven, IsBound, IsStarted, IsSettled
    <2> QED BY <1>2, <1>3, <1>4 DEF Touched
  <1>6. ASSUME NEW b \in Actors, b # a PROVE Touched(b) /\ (Proven(op', b) => Proven(op, b))
    <2>1. Touched(b) BY <1>2, <1>6, Untouched
    <2>2. op'[b] = op[b] BY <1>2, <1>6
    <2> QED BY <2>1, <2>2 DEF Proven
  <1>7. NothingProven
    <2> HIDE DEF Touched, Proven
    <2> QED BY <1>3, <1>5, <1>6 DEF NothingProven
  <1>8. cmd' \in [Commands -> CommandType] BY DEF Inv, Types
  <1> HIDE DEF NothingProven
  <1> QED BY <1>2, <1>7, <1>8, ChildrenStep

LEMMA StepChild ==
  ASSUME Inv, NEW a \in Actors, ChildStart(a) \/ ChildEnd(a) \/ ChildDies(a)
  PROVE  Inv'
  <1>0. child[a].state \in Live BY DEF ChildStart, ChildEnd, ChildDies, Live
  <1>1. /\ ~Proven(op, a) /\ IsBound(session, a)
        /\ Ended(child[a]) \in ChildType
        /\ Ended(child[a]).state \in Acted => IsStarted(session, a)
    BY <1>0, EndedChild
  <1>2. /\ child[a] \in ChildType /\ op[a] \in OpType /\ op = [op EXCEPT ![a] = op[a]]
        /\ child[a].state \in Acted => IsStarted(session, a)
    BY SameChild
  <1>3. UNCHANGED <<session, writer, lease, cmd, thr, gone, crashes>>
    BY DEF ChildStart, ChildEnd, ChildDies
  <1>4. CASE ChildDies(a)
    <2>1. child' = [child EXCEPT ![a] = Ended(child[a])] /\ op' = [op EXCEPT ![a] = op[a]]
      BY <1>2, <1>4 DEF ChildDies
    <2> HIDE DEF Proven, IsBound, IsStarted
    <2> QED BY <1>1, <1>2, <1>3, <2>1, OneChild
  <1>5. CASE ChildStart(a)
    <2> DEFINE c == [child[a] EXCEPT !.state = IF op[a].state = "running" THEN "running" ELSE "dead"]
    <2>1. child' = [child EXCEPT ![a] = c] /\ op' = [op EXCEPT ![a] = op[a]]
      BY <1>2, <1>5 DEF ChildStart
    <2>2. c \in ChildType BY <1>2 DEF ChildType, ChildStates
    <2>3. IsStarted(session, a) BY <1>2, <1>5 DEF ChildStart, Acted
    <2> HIDE DEF Proven, IsBound, IsStarted, c
    <2> QED BY <1>1, <1>2, <1>3, <2>1, <2>2, <2>3, OneChild
  <1>6. CASE ChildEnd(a)
    <2>1. IsStarted(session, a) BY <1>2, <1>6 DEF ChildEnd, Acted
    <2>2. PICK c \in ChildType : child' = [child EXCEPT ![a] = c]
      <3> DEFINE k == [child[a] EXCEPT !.state = "killed"]
      <3>1. k \in ChildType BY <1>2 DEF ChildType, ChildStates
      <3>2. \A r \in Outcomes : [state |-> "finished", result |-> r] \in ChildType
        BY DEF ChildType, ChildStates
      <3>3. \/ child' = [child EXCEPT ![a] = k]
            \/ \E r \in Outcomes : child' = [child EXCEPT ![a] = [state |-> "finished", result |-> r]]
        BY <1>6 DEF ChildEnd
      <3> HIDE DEF k
      <3> QED BY <3>1, <3>2, <3>3
    <2>3. PICK o \in OpType : /\ op' = [op EXCEPT ![a] = o] /\ o.failure = op[a].failure
                              /\ o.state \in {op[a].state, "terminal_observed"}
      <3> DEFINE x == [op[a] EXCEPT !.state = "terminal_observed"]
      <3>1. x \in OpType /\ x.failure = op[a].failure /\ x.state = "terminal_observed"
        BY <1>2 DEF OpType, OpStates
      <3>2. op' = [op EXCEPT ![a] = op[a]] \/ op' = [op EXCEPT ![a] = x]
        BY <1>2, <1>6 DEF ChildEnd
      <3> HIDE DEF x
      <3> QED BY <1>2, <3>1, <3>2
    <2> HIDE DEF Proven, IsBound, IsStarted
    <2> QED BY <1>1, <1>3, <2>1, <2>2, <2>3, OneChild
  <1> QED BY <1>4, <1>5, <1>6

LEMMA StepAbort ==
  ASSUME Inv, NEW g \in Commands, Abort(g)
  PROVE  Inv'
  <1>1. UNCHANGED <<session, writer, lease, op, thr, gone, crashes>> BY DEF Abort
  <1>2. PICK why \in {"cancel", "fatal"} : cmd' = [cmd EXCEPT ![g].aborted = why] BY DEF Abort
  <1>3. cmd \in [Commands -> CommandType] BY DEF Inv, Types
  <1>4. /\ cmd' \in [Commands -> CommandType]
        /\ \A h \in Commands :
           /\ cmd'[h].pc = cmd[h].pc /\ cmd'[h].sel = cmd[h].sel /\ cmd'[h].n = cmd[h].n
           /\ cmd'[h].adm = cmd[h].adm /\ cmd'[h].grp = cmd[h].grp
    <2> DEFINE c == [cmd[g] EXCEPT !.aborted = why]
    <2>1. /\ c \in CommandType /\ c.pc = cmd[g].pc /\ c.sel = cmd[g].sel /\ c.n = cmd[g].n
          /\ c.adm = cmd[g].adm /\ c.grp = cmd[g].grp
      BY <1>3 DEF CommandType
    <2>2. cmd' = [cmd EXCEPT ![g] = c] BY <1>2
    <2> HIDE DEF c, CommandType
    <2> QED BY <1>3, <2>1, <2>2
  <1>5. ASSUME NEW a \in Actors
        PROVE  child'[a] = child[a] \/ (child[a].state \in Live /\ child'[a] = Ended(child[a]))
    BY DEF Abort
  <1>6. ASSUME NEW a \in Actors PROVE Touched(a) /\ child'[a] \in ChildType
    <2>0. child[a] \in ChildType BY SameChild
    <2>1. CASE child'[a] = child[a] BY <1>1, <2>0, <2>1, Untouched
    <2>2. CASE child[a].state \in Live /\ child'[a] = Ended(child[a])
      <3>1. /\ ~Proven(op, a) /\ IsBound(session, a) /\ Ended(child[a]) \in ChildType
            /\ Ended(child[a]).state \in Acted => IsStarted(session, a)
        BY <2>2, EndedChild
      <3>2. /\ op[a].state = "pre_effect_terminal" => Proven(op, a)
            /\ op[a].state = "reconciled" => IsSettled(session, a)
        BY SameChild
      <3>3. Proven(op', a) <=> Proven(op, a) BY <1>1 DEF Proven
      <3> HIDE DEF Proven, IsBound, IsStarted, IsSettled
      <3> QED BY <1>1, <2>2, <3>1, <3>2, <3>3 DEF Touched
    <2> QED BY <1>5, <2>1, <2>2
  <1>7. child' \in [Actors -> ChildType]
    <2>1. child' = [a \in Actors |-> child'[a]] BY DEF Abort
    <2> HIDE DEF ChildType
    <2> QED BY <1>6, <2>1
  <1>8. NothingProven
    <2>1. \A a \in Actors : Proven(op', a) => Proven(op, a) BY <1>1 DEF Proven
    <2> HIDE DEF Touched, Proven
    <2> QED BY <1>6, <2>1 DEF NothingProven
  <1>9. op' \in [Actors -> OpType] BY <1>1 DEF Inv, Types
  <1> HIDE DEF NothingProven
  <1> QED BY <1>1, <1>4, <1>7, <1>8, <1>9, ChildrenStep

\* What a command has to know to be at its step, when it does not hold the writer.
Knows(c) ==
  LET a == <<c.sel, c.n>> IN
  /\ c.pc \notin {"unused", "done"} => c.sel \in Delegations
  /\ c.pc \in {"recover", "reclaim"} => c.n \in 1..2 /\ HasAttempt(session, a)
  /\ c.pc = "reclaim" => IsSettled(session, a)
  /\ c.pc = "takeover" => session.attempts[c.sel] # <<>>
  /\ c.pc \in {"seize", "adopt", "yield"} => c.grp \in Commands
  /\ c.pc \in {"fence", "acquire", "admit"} =>
       Cardinality(c.adm) <= 2 /\ \A d \in c.adm : session.envelopes[d] > 0

LEMMA CommandKnows ==
  ASSUME Inv, NEW g \in Commands
  PROVE  cmd[g] \in CommandType /\ Knows(cmd[g]) /\ g # 0
  <1>1. cmd[g] \in CommandType BY DEF Inv, Types
  <1>2. CommandOK(g) BY DEF Inv
  <1> HIDE DEF HasAttempt, IsSettled
  <1> QED BY <1>1, <1>2 DEF CommandOK, Knows, Commands

LEMMA IdleLaunches ==
  ASSUME Inv, NEW g \in Commands, cmd[g].pc \notin {"run", "holding", "release"}
  PROVE  \A e \in Delegations : thr[g][e].pc = "idle"
  <1> SUFFICES ASSUME NEW e \in Delegations PROVE thr[g][e].pc = "idle" OBVIOUS
  <1>1. LaunchOK(g, e) BY DEF Inv
  <1> QED BY <1>1 DEF LaunchOK

LEMMA IdleIsOK ==
  ASSUME NEW h \in Commands, NEW e \in Delegations, thr'[h][e].pc = "idle"
  PROVE  LaunchOK(h, e)' /\ ~Danger(h, e)'
  BY DEF LaunchOK, Danger, AfterLaunch

LEMMA IdleType == Idle \in LaunchType
  BY DEF Idle, LaunchType, LaunchSteps

\* The launches of g end.
Quits(g) == thr' = [thr EXCEPT ![g] = [d \in Delegations |-> Idle]]

LEMMA QuitsLaunches ==
  ASSUME Inv, NEW g \in Commands, Quits(g)
  PROVE  /\ thr' \in [Commands -> [Delegations -> LaunchType]]
         /\ \A e \in Delegations : thr'[g][e].pc = "idle"
         /\ \A h \in Commands : h # g => thr'[h] = thr[h]
  <1>1. thr \in [Commands -> [Delegations -> LaunchType]] BY DEF Inv, Types
  <1>2. Idle \in LaunchType /\ Idle.pc = "idle" BY IdleType DEF Idle
  <1> HIDE DEF LaunchType, Idle
  <1> QED BY <1>1, <1>2 DEF Quits

Comes(g, c) == cmd' = [cmd EXCEPT ![g] = c]

LEMMA ComesFacts ==
  ASSUME Inv, NEW g \in Commands, NEW c \in CommandType, Comes(g, c)
  PROVE  /\ cmd' \in [Commands -> CommandType] /\ cmd'[g] = c
         /\ \A h \in Commands : h # g => cmd'[h] = cmd[h]
  <1>1. cmd \in [Commands -> CommandType] BY DEF Inv, Types
  <1> HIDE DEF CommandType
  <1> QED BY <1>1 DEF Comes

LEMMA CommandGoes ==
  ASSUME Inv, NEW g \in Commands, NEW c \in CommandType, Comes(g, c), Knows(c), c.pc # "holding",
         cmd[g].pc # "holding", cmd[g].pc = "run" => writer.by = 0,
         Quits(g) \/ (UNCHANGED thr /\ cmd[g].pc \notin {"run", "release"}),
         UNCHANGED <<session, writer, child, gone, crashes>>,
         lease' \in LeaseType, op' \in [Actors -> OpType], NothingProven
  PROVE  Inv'
  <1>1. Goes BY StillGoes
  <1>2. /\ cmd' \in [Commands -> CommandType] /\ cmd'[g] = c
        /\ \A h \in Commands : h # g => cmd'[h] = cmd[h]
    BY ComesFacts
  <1>3. /\ thr' \in [Commands -> [Delegations -> LaunchType]]
        /\ \A e \in Delegations : thr'[g][e].pc = "idle"
        /\ \A h \in Commands : h # g => thr'[h] = thr[h]
    <2>1. CASE Quits(g) BY <2>1, QuitsLaunches
    <2>2. CASE UNCHANGED thr /\ cmd[g].pc \notin {"run", "release"}
      <3>1. \A e \in Delegations : thr[g][e].pc = "idle" BY <2>2, IdleLaunches
      <3> QED BY <2>2, <3>1 DEF Inv, Types
    <2> QED BY <2>1, <2>2
  <1>4. Types' BY <1>2, <1>3 DEF Inv, Types, LeaseType
  <1>5. ASSUME NEW h \in Commands, NEW e \in Delegations
        PROVE  Same(h, e) \/ (LaunchOK(h, e)' /\ ~Danger(h, e)')
    <2>1. CASE h = g
      <3>1. thr'[h][e].pc = "idle" BY <1>3, <2>1
      <3> HIDE DEF LaunchOK, Danger, Same
      <3> QED BY <3>1, IdleIsOK
    <2>2. CASE h # g BY <1>2, <1>3, <2>2 DEF Same
    <2> QED BY <2>1, <2>2
  <1>6. ASSUME NEW h \in Commands PROVE CommandOK(h)'
    <2>1. CASE h = g
      <3> HIDE DEF HasAttempt, IsSettled
      <3> QED BY <1>2, <2>1 DEF CommandOK, Knows
    <2>2. CASE h # g BY <1>1, <1>2, <2>2, CommandFrame
    <2> QED BY <2>1, <2>2
  <1>7. ProvenStays BY DEF NothingProven, Touched, ProvenStays
  <1>8. writer.by # g
    <2> SUFFICES ASSUME writer.by = g PROVE FALSE OBVIOUS
    <2>1. WriterOK BY DEF Inv
    <2>2. writer.of # 0 BY <2>1 DEF WriterOK, CommandHolds
    <2>3. writer.of \in Delegations
      <3>1. writer.of \in 0..NDelegations BY DEF Inv, Types, WriterType
      <3> QED BY <2>2, <3>1, DelegationAssumption DEF Delegations
    <2>4. cmd[g].pc = "run" BY <2>1, <2>3 DEF WriterOK, LaunchHolds
    <2> QED BY <2>4 DEF Commands
  <1>9. WriterOK'
    <2>1. \A h \in Commands : writer.by = h => h # g BY <1>8
    <2> QED BY <1>1, <1>2, <1>3, <1>7, <2>1, WriterFrame
  <1> HIDE DEF CommandOK, WriterOK, Same, LaunchOK, Danger, NothingProven
  <1> QED BY <1>4, <1>5, <1>6, <1>9, QuietStep

LEMMA OverFacts ==
  ASSUME NEW g \in Commands, Over(g)
  PROVE  /\ Quits(g)
         /\ \E c \in CommandType : Comes(g, c) /\ Knows(c) /\ c.pc = "done"
  <1> DEFINE c == [Unused EXCEPT !.pc = "done"]
  <1>1. c \in CommandType /\ c.pc = "done"
    BY DelegationAssumption DEF Unused, CommandType, CommandSteps
  <1>2. Comes(g, c) /\ Quits(g) BY DEF Over, Comes, Quits
  <1>3. Knows(c)
    <2> HIDE DEF c
    <2> QED BY <1>1 DEF Knows
  <1> QED BY <1>1, <1>2, <1>3

\* A command is over.
LEMMA CommandEnds ==
  ASSUME Inv, NEW g \in Commands, Over(g), cmd[g].pc # "holding", cmd[g].pc = "run" => writer.by = 0,
         lease' \in LeaseType, UNCHANGED <<session, writer, op, child, gone, crashes>>
  PROVE  Inv'
  <1>1. PICK c \in CommandType : Comes(g, c) /\ Knows(c) /\ c.pc = "done" BY OverFacts
  <1>2. Quits(g) BY OverFacts
  <1>3. NothingProven BY Unproven
  <1>4. op' \in [Actors -> OpType] BY DEF Inv, Types
  <1> HIDE DEF NothingProven, Knows
  <1> QED BY <1>1, <1>2, <1>3, <1>4, CommandGoes

\* A command goes on to another step.
StepsTo(c, g, to) == c = [cmd[g] EXCEPT !.pc = to]

LEMMA CommandTo ==
  ASSUME Inv, NEW g \in Commands, NEW to \in CommandSteps \ {"holding", "unused", "run"},
         Goto(g, 0, to),
         cmd[g].pc \notin {"holding", "unused", "done"}, cmd[g].pc \in {"run", "release"} => to = "done",
         cmd[g].pc = "run" => writer.by = 0,
         \A c : StepsTo(c, g, to) /\ to # "done" => Knows(c),
         lease' \in LeaseType, op' \in [Actors -> OpType], NothingProven,
         UNCHANGED <<session, writer, child, gone, crashes>>
  PROVE  Inv'
  <1>1. CASE to = "done"
    <2>1. Over(g) BY <1>1 DEF Goto
    <2>2. PICK c \in CommandType : Comes(g, c) /\ Knows(c) /\ c.pc = "done" BY <2>1, OverFacts
    <2>3. Quits(g) BY <2>1, OverFacts
    <2> HIDE DEF NothingProven, Knows
    <2> QED BY <2>2, <2>3, CommandGoes
  <1>2. CASE to # "done"
    <2> DEFINE c == [cmd[g] EXCEPT !.pc = to]
    <2>1. c \in CommandType /\ c.pc = to
      <3>1. cmd[g] \in CommandType BY CommandKnows
      <3> QED BY <3>1 DEF CommandType
    <2>2. Comes(g, c) /\ UNCHANGED thr BY <1>2 DEF Goto, Comes
    <2>3. Knows(c)
      <3>1. StepsTo(c, g, to) BY DEF StepsTo
      <3> QED BY <1>2, <3>1
    <2> HIDE DEF NothingProven, Knows, c
    <2> QED BY <1>2, <2>1, <2>2, <2>3, CommandGoes
  <1> QED BY <1>1, <1>2

\* A launch that waits for its command.
QuietLaunch(g, e, t) ==
  t.pc # "idle" =>
    /\ t.pc \in {"launch", "fulfilled", "rejected"} /\ e \in cmd[g].adm
    /\ t.n \in 1..2 /\ t.n <= session.envelopes[e]

\* A command takes the writer.
LEMMA CommandHold ==
  ASSUME Inv, NEW g \in Commands, NEW events \in Seq(Event), events # <<>>,
         NEW then \in {"run", "release", "done", "read", "reclaim", "yield"},
         writer.by = 0, cmd[g].pc \notin {"unused", "done"},
         Hold(g, 0, events, then, "done"), cmd' = [cmd EXCEPT ![g].pc = "holding"],
         thr' \in [Commands -> [Delegations -> LaunchType]],
         \A h \in Commands : h # g => thr'[h] = thr[h],
         \A e \in Delegations : QuietLaunch(g, e, thr'[g][e]),
         then \in {"read", "reclaim", "yield"} => \A e \in Delegations : thr'[g][e].pc = "idle",
         then = "run" => \A e \in cmd[g].adm :
           thr'[g][e].n \in 1..2 /\ Pending(events, "slot_claimed", <<e, thr'[g][e].n>>),
         then = "reclaim" =>
           /\ cmd[g].n \in 1..2 /\ HasAttempt(session, <<cmd[g].sel, cmd[g].n>>)
           /\ \/ IsSettled(session, <<cmd[g].sel, cmd[g].n>>)
              \/ Pending(events, "settled", <<cmd[g].sel, cmd[g].n>>),
         then = "yield" => cmd[g].grp \in Commands,
         \A w : w.then = then /\ w.of = 0 => \A i \in DOMAIN events : EventOK(w, session, op, events[i]),
         UNCHANGED <<session, lease, op, child, gone, crashes>>
  PROVE  Inv'
  <1> DEFINE w == [by |-> g, of |-> 0, todo |-> events, then |-> then, refused |-> "done"]
             c == [cmd[g] EXCEPT !.pc = "holding"]
  <1>0. Goes BY StillGoes
  <1>1. w \in WriterType
    <2>1. g \in 0..MaxCommands /\ 0 \in 0..NDelegations BY DelegationAssumption DEF Commands
    <2>2. then \in Steps /\ "done" \in Steps BY DEF Steps, CommandSteps
    <2> HIDE DEF Event, Steps
    <2> QED BY <2>1, <2>2 DEF WriterType
  <1>2. /\ w.by = g /\ w.of = 0 /\ w.todo = events /\ w.then = then /\ w.refused = "done"
        /\ writer' = w
    BY DEF Hold
  <1>3. cmd[g] \in CommandType /\ Knows(cmd[g]) /\ g # 0 BY CommandKnows
  <1>4. /\ c \in CommandType /\ c.pc = "holding" /\ c.sel = cmd[g].sel /\ c.n = cmd[g].n
        /\ c.adm = cmd[g].adm /\ c.grp = cmd[g].grp
    BY <1>3 DEF CommandType, CommandSteps
  <1>5. Comes(g, c) BY DEF Comes
  <1> HIDE DEF c
  <1>6. /\ cmd' \in [Commands -> CommandType] /\ cmd'[g] = c
        /\ \A h \in Commands : h # g => cmd'[h] = cmd[h]
    BY <1>4, <1>5, ComesFacts
  <1>7. Types' BY <1>1, <1>2, <1>6 DEF Inv, Types
  <1>8. ASSUME NEW h \in Commands, NEW e \in Delegations
        PROVE  thr[h][e].pc \notin {"holding", "sending"}
    <2>1. LaunchOK(h, e) /\ h # 0 BY DEF Inv, Commands
    <2> QED BY <2>1 DEF LaunchOK
  <1> HIDE DEF w
  <1>9. ASSUME NEW h \in Commands, NEW e \in Delegations
        PROVE  Same(h, e) \/ (LaunchOK(h, e)' /\ ~Danger(h, e)')
    <2>1. CASE h = g
      <3>1. QuietLaunch(g, e, thr'[g][e]) OBVIOUS
      <3>2. thr'[g][e].pc \in {"idle", "launch", "fulfilled", "rejected"} BY <3>1 DEF QuietLaunch
      <3>3. ~Danger(g, e)' BY <3>2 DEF Danger
      <3>4. LaunchOK(g, e)'
        <4> HIDE DEF Danger
        <4> QED BY <1>4, <1>6, <3>1, <3>2, <3>3 DEF LaunchOK, QuietLaunch, AfterLaunch
      <3> QED BY <2>1, <3>3, <3>4
    <2>2. CASE h # g BY <1>6, <1>8, <2>2 DEF Same
    <2> QED BY <2>1, <2>2
  <1>10. ASSUME NEW h \in Commands PROVE CommandOK(h)'
    <2>1. CASE h = g
      <3>1. cmd[g].sel \in Delegations BY <1>3 DEF Knows
      <3> HIDE DEF HasAttempt, IsSettled
      <3> QED BY <1>2, <1>4, <1>6, <2>1, <3>1 DEF CommandOK
    <2>2. CASE h # g
      <3>1. CommandOK(h) BY DEF Inv
      <3>2. cmd[h].pc # "holding" BY <3>1 DEF CommandOK, Commands
      <3> QED BY <1>0, <1>6, <2>2, <3>2, CommandFrame
    <2> QED BY <2>1, <2>2
  <1>11. WriterOK'
    <2>1. CommandHolds(g)'
      <3> HIDE DEF HasAttempt, IsSettled, Pending, IsClaimed
      <3> QED BY <1>2, <1>4, <1>6 DEF CommandHolds
    <2>2. ASSUME NEW i \in DOMAIN events PROVE EventOK(w, session, op, events[i])
      <3> HIDE DEF EventOK
      <3> QED BY <1>2
    <2>3. \A h \in Commands, e \in Delegations : ~(w.by = h /\ w.of = e)
      BY <1>2 DEF Delegations
    <2>4. \A h \in Commands : w.by = h => h = g BY <1>2
    <2>5. w.by # 0 BY <1>2, <1>3
    <2> HIDE DEF CommandHolds, LaunchHolds, EventOK
    <2> QED BY <1>2, <2>1, <2>2, <2>3, <2>4, <2>5 DEF WriterOK
  <1>12. NothingProven BY Unproven
  <1> HIDE DEF CommandOK, WriterOK, Same, LaunchOK, Danger, NothingProven
  <1> QED BY <1>7, <1>9, <1>10, <1>11, <1>12, QuietStep

\* A command without launches takes the writer.
LEMMA IdleHold ==
  ASSUME Inv, NEW g \in Commands, NEW events \in Seq(Event), events # <<>>,
         NEW then \in {"done", "read", "reclaim", "yield"},
         writer.by = 0, cmd[g].pc \notin {"unused", "done", "run", "holding", "release"},
         Hold(g, 0, events, then, "done"), Goto(g, 0, "holding"),
         then = "reclaim" =>
           /\ cmd[g].n \in 1..2 /\ HasAttempt(session, <<cmd[g].sel, cmd[g].n>>)
           /\ \/ IsSettled(session, <<cmd[g].sel, cmd[g].n>>)
              \/ Pending(events, "settled", <<cmd[g].sel, cmd[g].n>>),
         then = "yield" => cmd[g].grp \in Commands,
         \A w : w.then = then /\ w.of = 0 => \A i \in DOMAIN events : EventOK(w, session, op, events[i]),
         UNCHANGED <<session, lease, op, child, gone, crashes>>
  PROVE  Inv'
  <1>1. cmd' = [cmd EXCEPT ![g].pc = "holding"] /\ UNCHANGED thr BY DEF Goto
  <1>2. \A e \in Delegations : thr[g][e].pc = "idle" BY IdleLaunches
  <1>3. \A e \in Delegations : QuietLaunch(g, e, thr'[g][e]) BY <1>1, <1>2 DEF QuietLaunch
  <1>4. thr' \in [Commands -> [Delegations -> LaunchType]] BY <1>1 DEF Inv, Types
  <1> HIDE DEF QuietLaunch, EventOK, Pending, HasAttempt, IsSettled, Event
  <1> QED BY <1>1, <1>2, <1>3, <1>4, CommandHold

\* ... to append what nothing has to be known for.
LEMMA IdlePlainHold ==
  ASSUME Inv, NEW g \in Commands, NEW events \in Seq(Plain), events # <<>>,
         NEW then \in {"done", "read", "yield"},
         writer.by = 0, cmd[g].pc \notin {"unused", "done", "run", "holding", "release"},
         Hold(g, 0, events, then, "done"), Goto(g, 0, "holding"),
         then = "yield" => cmd[g].grp \in Commands,
         UNCHANGED <<session, lease, op, child, gone, crashes>>
  PROVE  Inv'
  <1>1. events \in Seq(Event) BY PlainEvents
  <1>2. ASSUME NEW w PROVE \A i \in DOMAIN events : EventOK(w, session, op, events[i]) BY PlainEvents
  <1> HIDE DEF EventOK, Event, Plain
  <1> QED BY <1>1, <1>2, IdleHold

-----------------------------------------------------------------------------
(* One command step after another. *)

LEMMA LeaseStays == ASSUME Inv PROVE lease \in LeaseType /\ op \in [Actors -> OpType]
  BY DEF Inv, Types, LeaseType

LEMMA StepBegin ==
  ASSUME Inv, NEW g \in Commands, Begin(g)
  PROVE  Inv'
  <1>1. PICK d \in Delegations, pc \in {"read", "inspect"} : cmd' = [cmd EXCEPT ![g].pc = pc, ![g].sel = d]
    BY DEF Begin
  <1>2. UNCHANGED <<session, writer, lease, op, child, thr, gone, crashes>> /\ cmd[g].pc = "unused"
    BY DEF Begin
  <1> DEFINE c == [cmd[g] EXCEPT !.pc = pc, !.sel = d]
  <1>3. cmd[g] \in CommandType BY CommandKnows
  <1>4. c \in CommandType /\ c.pc = pc /\ c.sel = d
    <2>1. pc \in CommandSteps /\ d \in 0..NDelegations BY DEF CommandSteps, Delegations
    <2> QED BY <1>3, <2>1 DEF CommandType
  <1>5. Comes(g, c) BY <1>1 DEF Comes, Inv, Types
  <1> HIDE DEF c
  <1>6. Knows(c) BY <1>4 DEF Knows
  <1>7. NothingProven BY <1>2, Unproven
  <1>8. lease' \in LeaseType /\ op' \in [Actors -> OpType] BY <1>2, LeaseStays
  <1> HIDE DEF Knows, NothingProven
  <1> QED BY <1>2, <1>4, <1>5, <1>6, <1>7, <1>8, CommandGoes

LEMMA AdmitNone ==
  ASSUME Inv
  PROVE  /\ Admit({}, Ready(session)) \subseteq Delegations
         /\ Cardinality(Admit({}, Ready(session))) <= 2
         /\ \A d \in Admit({}, Ready(session)) : session.envelopes[d] > 0
  <1> DEFINE P == Admit({}, Ready(session))
  <1>1. Ready(session) \in SUBSET Delegations BY DEF Ready
  <1>2. Bounded({}, Ready(session), P) BY <1>1, AdmitBound
  <1> HIDE DEF P
  <1>3. {} \cup P = P OBVIOUS
  <1>4. Cardinality({}) = 0 BY FS_EmptySet
  <1>5. P = {} \/ Cardinality(P) <= 2 BY <1>2, <1>3 DEF Bounded
  <1>6. Cardinality(P) <= 2 BY <1>4, <1>5
  <1>7. P \subseteq Ready(session) BY <1>2 DEF Bounded
  <1> QED BY <1>6, <1>7 DEF Ready, P

LEMMA StepRead ==
  ASSUME Inv, NEW g \in Commands, Read(g)
  PROVE  Inv'
  <1> DEFINE adm == Admit({}, Ready(session))
             c == [cmd[g] EXCEPT !.pc = "fence", !.adm = adm]
  <1>1. /\ UNCHANGED <<session, writer, lease, op, child, gone, crashes>> /\ cmd[g].pc = "read"
        /\ \/ Over(g)
           \/ cmd' = [cmd EXCEPT ![g].pc = "fence", ![g].adm = adm] /\ UNCHANGED thr
    BY DEF Read
  <1>2. lease' \in LeaseType /\ op' \in [Actors -> OpType] BY <1>1, LeaseStays
  <1>3. CASE Over(g) BY <1>1, <1>2, <1>3, CommandEnds
  <1>4. CASE cmd' = [cmd EXCEPT ![g].pc = "fence", ![g].adm = adm] /\ UNCHANGED thr
    <2>1. cmd[g] \in CommandType /\ Knows(cmd[g]) BY CommandKnows
    <2>2. /\ adm \subseteq Delegations /\ Cardinality(adm) <= 2
          /\ \A d \in adm : session.envelopes[d] > 0
      BY AdmitNone
    <2>3. Comes(g, c) BY <1>4 DEF Comes, Inv, Types
    <2> HIDE DEF adm
    <2>4. c \in CommandType /\ c.pc = "fence" /\ c.adm = adm /\ c.sel = cmd[g].sel
      <3>1. "fence" \in CommandSteps BY DEF CommandSteps
      <3> QED BY <2>1, <2>2, <3>1 DEF CommandType
    <2> HIDE DEF c
    <2>5. Knows(c) BY <1>1, <2>1, <2>2, <2>4 DEF Knows
    <2>6. NothingProven BY <1>1, Unproven
    <2> HIDE DEF Knows, NothingProven
    <2> QED BY <1>1, <1>2, <1>4, <2>3, <2>4, <2>5, <2>6, CommandGoes
  <1> QED BY <1>1, <1>3, <1>4

\* A step to where nothing more has to be known.
Onward(g, to) ==
  \/ to \in {"cancelled", "read", "again", "unlease", "prepare"}
  \/ cmd[g].pc \in {"fence", "acquire"} /\ to \in {"acquire", "admit"}
  \/ cmd[g].pc = "seize" /\ to = "adopt"

LEMMA KnowsMore ==
  ASSUME Inv, NEW g \in Commands, NEW to \in CommandSteps, NEW c, StepsTo(c, g, to),
         cmd[g].pc \notin {"unused", "done"},
         Onward(g, to)
  PROVE  Knows(c)
  <1>1. cmd[g] \in CommandType /\ Knows(cmd[g]) BY CommandKnows
  <1>2. c.pc = to /\ c.sel = cmd[g].sel /\ c.adm = cmd[g].adm /\ c.grp = cmd[g].grp
    BY <1>1 DEF CommandType, StepsTo
  <1> QED BY <1>1, <1>2 DEF Knows, Onward

LEMMA CommandOn ==
  ASSUME Inv, NEW g \in Commands, NEW to, Goto(g, 0, to),
         cmd[g].pc \notin {"unused", "done", "holding", "run", "release"},
         \/ to \in {"done", "cancelled", "read", "again", "unlease", "prepare"}
         \/ cmd[g].pc \in {"fence", "acquire"} /\ to \in {"acquire", "admit"}
         \/ cmd[g].pc = "seize" /\ to = "adopt",
         lease' \in LeaseType, UNCHANGED <<session, writer, op, child, gone, crashes>>
  PROVE  Inv'
  <1>1. NothingProven BY Unproven
  <1>2. op' \in [Actors -> OpType] BY LeaseStays
  <1>3. to \in CommandSteps \ {"holding", "unused", "run"} BY DEF CommandSteps
  <1>4. ASSUME NEW c, StepsTo(c, g, to), to # "done" PROVE Knows(c)
    <2>1. to \in CommandSteps /\ cmd[g].pc \notin {"unused", "done"} BY <1>3
    <2>2. Onward(g, to) BY <1>4 DEF Onward
    <2> QED BY <1>4, <2>1, <2>2, KnowsMore
  <1> HIDE DEF NothingProven, Knows
  <1> QED BY <1>1, <1>2, <1>3, <1>4, CommandTo

LEMMA StepFence ==
  ASSUME Inv, NEW g \in Commands, Fence(g)
  PROVE  Inv'
  <1>1. lease' \in LeaseType BY LeaseStays DEF Fence
  <1>2. PICK to \in {"acquire", "cancelled", "done"} : Goto(g, 0, to) BY DEF Fence
  <1> QED BY <1>1, <1>2, CommandOn DEF Fence

LEMMA StepAcquire ==
  ASSUME Inv, NEW g \in Commands, Acquire(g)
  PROVE  Inv'
  <1>1. lease' \in LeaseType BY LeaseStays DEF Acquire, LeaseType, Commands
  <1>2. PICK to \in {"admit", "done"} : Goto(g, 0, to) BY DEF Acquire
  <1> QED BY <1>1, <1>2, CommandOn DEF Acquire

LEMMA LeaseReleased ==
  ASSUME Inv PROVE [lease EXCEPT !.state = "released"] \in LeaseType
  BY LeaseStays DEF LeaseType

LEMMA StepReleaseLease ==
  ASSUME Inv, NEW g \in Commands, ReleaseLease(g)
  PROVE  Inv'
  <1>1. lease' \in LeaseType BY LeaseStays, LeaseReleased DEF ReleaseLease, Released
  <1>2. Over(g) BY DEF ReleaseLease, Goto
  <1> QED BY <1>1, <1>2, CommandEnds DEF ReleaseLease

LEMMA StepUnlease ==
  ASSUME Inv, NEW g \in Commands, Unlease(g) \/ Yield(g)
  PROVE  Inv'
  <1>1. lease' \in LeaseType BY LeaseStays, LeaseReleased DEF Unlease, Yield
  <1>2. PICK to \in {"again", "done"} : Goto(g, 0, to) BY DEF Unlease, Yield
  <1> QED BY <1>1, <1>2, CommandOn DEF Unlease, Yield

LEMMA StepAgain ==
  ASSUME Inv, NEW g \in Commands, Again(g)
  PROVE  Inv'
  <1>1. lease' \in LeaseType BY LeaseStays DEF Again
  <1>2. PICK to \in {"prepare", "read", "done"} : Goto(g, 0, to) BY DEF Again
  <1> QED BY <1>1, <1>2, CommandOn DEF Again

LEMMA StepSeize ==
  ASSUME Inv, NEW g \in Commands, Seize(g)
  PROVE  Inv'
  <1>1. lease' \in LeaseType
    <2>1. lease' = lease \/ lease' = [lease EXCEPT !.owner = g, !.nonce = g] BY DEF Seize
    <2>2. g \in 0..MaxCommands BY DEF Commands
    <2> QED BY <2>1, <2>2, LeaseStays DEF LeaseType
  <1>2. PICK to \in {"adopt", "done"} : Goto(g, 0, to) BY DEF Seize
  <1> QED BY <1>1, <1>2, CommandOn DEF Seize

LEMMA StepAppendPreEffectTerminal ==
  ASSUME Inv, NEW g \in Commands, AppendPreEffectTerminal(g)
  PROVE  Inv'
  <1>1. /\ UNCHANGED <<session, lease, op, child, gone, crashes>>
        /\ cmd[g].pc = "cancelled" /\ writer.by = 0
    BY DEF AppendPreEffectTerminal, WriterFree
  <1>2. lease' \in LeaseType BY <1>1, LeaseStays
  <1>3. CASE Goto(g, 0, "done") /\ UNCHANGED writer BY <1>1, <1>2, <1>3, CommandOn
  <1>4. CASE /\ Hold(g, 0, <<OfAttempt("pre_effect_cancelled", <<cmd[g].sel, 0>>)>>, "done", "done")
             /\ Goto(g, 0, "holding")
    <2>1. PICK d \in Delegations : d = cmd[g].sel BY <1>1, CommandKnows DEF Knows
    <2> DEFINE e == OfAttempt("pre_effect_cancelled", <<d, 0>>)
               q == <<e>>
    <2>2. PICK n \in 0..2 : n = 0 OBVIOUS
    <2>3. About(e, "pre_effect_cancelled", d, n) BY <2>2, AttemptMade
    <2>4. Hold(g, 0, q, "done", "done") BY <1>4, <2>1
    <2> HIDE DEF e
    <2>5. e \in Event /\ e.type = "pre_effect_cancelled" /\ e.n = 0 BY <2>2, <2>3 DEF About
    <2>6. q \in Seq(Event) /\ q # <<>> /\ DOMAIN q = {1} /\ q[1] = e BY <2>5, OneEvent
    <2>7. ASSUME NEW w PROVE EventOK(w, session, op, e) BY <2>5 DEF EventOK
    <2> HIDE DEF q, Event, EventOK
    <2> QED BY <1>1, <1>4, <2>4, <2>6, <2>7, IdleHold
  <1> QED BY <1>3, <1>4 DEF AppendPreEffectTerminal

LEMMA StepPrepareAgain ==
  ASSUME Inv, NEW g \in Commands, PrepareAgain(g)
  PROVE  Inv'
  <1>1. /\ UNCHANGED <<session, lease, op, child, gone, crashes>>
        /\ cmd[g].pc = "prepare" /\ writer.by = 0
    BY DEF PrepareAgain, WriterFree
  <1>2. lease' \in LeaseType BY <1>1, LeaseStays
  <1>3. CASE Goto(g, 0, "done") /\ UNCHANGED writer BY <1>1, <1>2, <1>3, CommandOn
  <1>4. CASE Hold(g, 0, <<Of("prepared", cmd[g].sel)>>, "read", "done") /\ Goto(g, 0, "holding")
    <2>1. PICK d \in Delegations : d = cmd[g].sel BY <1>1, CommandKnows DEF Knows
    <2>2. <<Of("prepared", d)>> \in Seq(Plain) /\ <<Of("prepared", d)>> # <<>> BY PlainOf
    <2> QED BY <1>1, <1>4, <2>1, <2>2, IdlePlainHold
  <1> QED BY <1>3, <1>4 DEF PrepareAgain

-----------------------------------------------------------------------------
(* The loops over the delegations and the barriers. *)

LEMMA LoopSeq ==
  ASSUME NEW E, NEW N \in Nat, NEW F \in [1..N -> Seq(E)]
  PROVE  F \in Seq(Seq(E)) /\ Len(F) = N
  OBVIOUS

\* What a loop over the delegations appends.
LEMMA LoopDelegations ==
  ASSUME NEW E, NEW F \in [Delegations -> Seq(E)]
  PROVE  /\ Flatten(F) \in Seq(E)
         /\ \A d \in Delegations : \A j \in 1 .. Len(F[d]) :
              \E k \in 1 .. Len(Flatten(F)) : Flatten(F)[k] = F[d][j]
  <1>1. NDelegations \in Nat BY DelegationAssumption
  <1>2. F \in Seq(Seq(E)) /\ Len(F) = NDelegations BY <1>1, LoopSeq DEF Delegations
  <1> QED BY <1>2, FlattenSeq DEF Delegations

LEMMA LoopCommands ==
  ASSUME NEW E, NEW F \in [Commands -> Seq(E)]
  PROVE  Flatten(F) \in Seq(E)
  <1>1. MaxCommands \in Nat BY DelegationAssumption
  <1>2. F \in Seq(Seq(E)) /\ Len(F) = MaxCommands BY <1>1, LoopSeq DEF Commands
  <1> QED BY <1>2, FlattenSeq

Opened(b, k) == [type |-> "barrier_released", group |-> b, kind |-> k]

LEMMA OpenedPlain ==
  ASSUME NEW b \in Commands, NEW k \in {"completed", "cancelled", "blocked"}
  PROVE  Opened(b, k) \in Plain
  <1>1. Opened(b, k) \in ReleaseEvent /\ Opened(b, k).type = "barrier_released"
    BY DEF Opened, ReleaseEvent
  <1>2. \A e \in ReleaseEvent : e \in Event BY DEF Event
  <1> HIDE DEF Event, ReleaseEvent, Opened
  <1> QED BY <1>1, <1>2 DEF Plain

LEMMA OpeningPlain ==
  ASSUME NEW B, NEW kind, \A b \in Commands : kind[b] \in {"completed", "cancelled", "blocked"}
  PROVE  Opening(B, kind) \in Seq(Plain)
  <1> DEFINE F == [b \in Commands |-> IF b \in B THEN <<Opened(b, kind[b])>> ELSE <<>>]
  <1>1. ASSUME NEW b \in Commands PROVE <<Opened(b, kind[b])>> \in Seq(Plain)
    <2>1. Opened(b, kind[b]) \in Plain BY OpenedPlain
    <2> HIDE DEF Plain, Opened
    <2> QED BY <2>1
  <1>2. <<>> \in Seq(Plain) OBVIOUS
  <1>3. F \in [Commands -> Seq(Plain)]
    <2> HIDE DEF Plain, Opened
    <2> QED BY <1>1, <1>2
  <1>4. Opening(B, kind) = Flatten(F) BY DEF Opening, Opened
  <1> HIDE DEF F, Plain
  <1> QED BY <1>3, <1>4, LoopCommands

LEMMA PendingConcat ==
  ASSUME NEW E, NEW p \in Seq(E), NEW r \in Seq(E), NEW type, NEW a
  PROVE  /\ p \o r \in Seq(E)
         /\ Pending(p, type, a) => Pending(p \o r, type, a)
         /\ Pending(r, type, a) => Pending(p \o r, type, a)
         /\ p \o r = <<>> => p = <<>> /\ r = <<>>
  <1> DEFINE q == p \o r
  <1>1. /\ q \in Seq(E) /\ Len(p) \in Nat /\ Len(r) \in Nat /\ Len(q) = Len(p) + Len(r)
        /\ \A k \in 1 .. Len(p) : q[k] = p[k]
        /\ \A k \in 1 .. Len(r) : q[Len(p) + k] = r[k]
    BY ConcatFacts
  <1> HIDE DEF q
  <1>2. DOMAIN p = 1 .. Len(p) /\ DOMAIN r = 1 .. Len(r) /\ DOMAIN q = 1 .. Len(q) BY <1>1
  <1>3. \A k \in DOMAIN p : k \in DOMAIN q /\ q[k] = p[k] BY <1>1, <1>2
  <1>4. \A k \in DOMAIN r : Len(p) + k \in DOMAIN q /\ q[Len(p) + k] = r[k] BY <1>1, <1>2
  <1>5. Pending(p, type, a) => Pending(q, type, a) BY <1>3 DEF Pending
  <1>6. Pending(r, type, a) => Pending(q, type, a) BY <1>4 DEF Pending
  <1>7. q = <<>> => p = <<>> /\ r = <<>>
    <2> SUFFICES ASSUME q = <<>> PROVE p = <<>> /\ r = <<>> OBVIOUS
    <2>1. Len(q) = 0 OBVIOUS
    <2>2. Len(p) = 0 /\ Len(r) = 0 BY <1>1, <2>1
    <2> QED BY <2>2
  <1> QED BY <1>1, <1>5, <1>6, <1>7 DEF q

\* The events that any command may append now.
Now == {e \in Event : \A w : EventOK(w, session, op, e)}

LEMMA NowEvents ==
  ASSUME NEW q \in Seq(Now)
  PROVE  q \in Seq(Event) /\ \A w : \A i \in DOMAIN q : EventOK(w, session, op, q[i])
  <1>1. \A e \in Now : e \in Event /\ \A w : EventOK(w, session, op, e) BY DEF Now
  <1> HIDE DEF Now, Event, EventOK
  <1> QED BY <1>1

LEMMA PlainNow == ASSUME NEW q \in Seq(Plain) PROVE q \in Seq(Now)
  <1>1. \A e \in Plain : e \in Now BY DEF Plain, Now, EventOK
  <1> HIDE DEF Now, Plain
  <1> QED BY <1>1

-----------------------------------------------------------------------------
LEMMA LastAttempt ==
  ASSUME Inv, NEW d \in Delegations, session.attempts[d] # <<>>
  PROVE  \E n \in 1..2 : /\ LastActor(session, d) = <<d, n>> /\ Has(session, d, n)
                         /\ session.claimed[d][n] \in Commands
                         /\ GroupOf(session, <<d, n>>) = session.claimed[d][n]
  <1>1. session \in SessionType /\ SessionOK(session) BY DEF Inv, Types
  <1>2. /\ session.attempts[d] \in Seq(AttemptRecord) /\ Len(session.attempts[d]) \in Nat
        /\ DOMAIN session.attempts[d] = 1 .. Len(session.attempts[d])
        /\ \A i \in DOMAIN session.attempts[d] : session.attempts[d][i] \in AttemptRecord
        /\ session.claimed[d] \in [1..2 -> 0..MaxCommands]
    BY <1>1, SessionFields
  <1> DEFINE k == Len(session.attempts[d])
  <1>3. k \in DOMAIN session.attempts[d] BY <1>2
  <1>4. PICK n : n = session.attempts[d][k].actor OBVIOUS
  <1>5. n \in 1..2 BY <1>2, <1>3, <1>4 DEF AttemptRecord
  <1>6. LastActor(session, d) = <<d, n>> BY <1>4 DEF LastActor, Last
  <1>7. Has(session, d, n) BY <1>3, <1>4 DEF Has
  <1>8. session.claimed[d][n] # 0 BY <1>1, <1>3, <1>4 DEF SessionOK, DelegationOK
  <1>9. session.claimed[d][n] \in Commands
    <2>1. session.claimed[d][n] \in 0..MaxCommands BY <1>2, <1>5
    <2> QED BY <1>8, <2>1, DelegationAssumption DEF Commands
  <1>10. GroupOf(session, <<d, n>>) = session.claimed[d][n] BY DEF GroupOf
  <1> QED BY <1>5, <1>6, <1>7, <1>9, <1>10

LEMMA StepInspect ==
  ASSUME Inv, NEW g \in Commands, Inspect(g)
  PROVE  Inv'
  <1>1. /\ UNCHANGED <<session, lease, op, child, gone, crashes>>
        /\ cmd[g].pc = "inspect" /\ writer.by = 0
    BY DEF Inspect, WriterFree
  <1>2. lease' \in LeaseType /\ op' \in [Actors -> OpType] BY <1>1, LeaseStays
  <1>3. PICK d \in Delegations : d = cmd[g].sel BY <1>1, CommandKnows DEF Knows
  <1>4. NothingProven BY <1>1, Unproven
  <1>5. cmd[g] \in CommandType BY CommandKnows
  <1>6. CASE /\ EndedPreEffect(session, d)
             /\ cmd' = [cmd EXCEPT ![g] = [@ EXCEPT !.pc = "recover", !.n = LastActor(session, d)[2],
                                                    !.grp = GroupOf(session, LastActor(session, d))]]
             /\ UNCHANGED <<writer, thr>>
    <2>1. session.attempts[d] # <<>> BY <1>6 DEF EndedPreEffect, HasOperation
    <2>2. PICK n \in 1..2 : /\ LastActor(session, d) = <<d, n>> /\ Has(session, d, n)
                            /\ session.claimed[d][n] \in Commands
                            /\ GroupOf(session, <<d, n>>) = session.claimed[d][n]
      BY <2>1, LastAttempt
    <2>3. PICK x \in Commands : x = session.claimed[d][n] BY <2>2
    <2> DEFINE c == [cmd[g] EXCEPT !.pc = "recover", !.n = n, !.grp = x]
    <2>4. Comes(g, c)
      <3>1. LastActor(session, d)[2] = n /\ GroupOf(session, LastActor(session, d)) = x BY <2>2, <2>3
      <3> QED BY <1>6, <3>1 DEF Comes
    <2>5. c \in CommandType /\ c.pc = "recover" /\ c.n = n /\ c.sel = d
      <3>1. "recover" \in CommandSteps /\ n \in 0..2 /\ x \in 0..MaxCommands BY DEF CommandSteps, Commands
      <3> QED BY <1>3, <1>5, <3>1 DEF CommandType
    <2> HIDE DEF c
    <2>6. Knows(c) BY <2>2, <2>5 DEF Knows, HasAttempt
    <2> HIDE DEF Knows, NothingProven
    <2> QED BY <1>1, <1>2, <1>4, <1>6, <2>4, <2>5, <2>6, CommandGoes
  <1>7. CASE OrphanedAdmission(session, d) /\ Goto(g, 0, "takeover") /\ UNCHANGED writer
    <2>1. session.attempts[d] # <<>> BY <1>7 DEF OrphanedAdmission, HasOperation
    <2>2. ASSUME NEW c, StepsTo(c, g, "takeover") PROVE Knows(c)
      <3>1. c.pc = "takeover" /\ c.sel = d BY <1>3, <1>5, <2>2 DEF CommandType, StepsTo
      <3> QED BY <2>1, <3>1 DEF Knows
    <2>3. "takeover" \in CommandSteps \ {"holding", "unused", "run"} BY DEF CommandSteps
    <2> HIDE DEF Knows, NothingProven
    <2> QED BY <1>1, <1>2, <1>4, <1>7, <2>2, <2>3, CommandTo
  <1>8. CASE \E to \in {"prepare", "read", "done"} : Goto(g, 0, to) /\ UNCHANGED writer
    BY <1>1, <1>2, <1>8, CommandOn
  <1>9. CASE Hold(g, 0, <<Of("queued", d)>>, "done", "done") /\ Goto(g, 0, "holding")
    <2>2. <<Of("queued", d)>> \in Seq(Plain) /\ <<Of("queued", d)>> # <<>> BY PlainOf
    <2> QED BY <1>1, <1>9, <2>2, IdlePlainHold
  <1> QED BY <1>3, <1>6, <1>7, <1>8, <1>9 DEF Inspect

-----------------------------------------------------------------------------
LEMMA SlotNumberBound ==
  ASSUME NEW S \in SUBSET Delegations, Cardinality(S) <= 2, NEW d \in S
  PROVE  SlotNumber(S, d) \in 1..2
  <1> DEFINE T == {e \in S : e <= d}
  <1>1. T \in SUBSET S /\ T \in SUBSET Delegations OBVIOUS
  <1>2. d \in T BY DEF Delegations
  <1> HIDE DEF T
  <1>3. IsFiniteSet(S) /\ IsFiniteSet(T) /\ Cardinality(S) \in Nat /\ Cardinality(T) \in Nat
    BY <1>1, FiniteDelegations
  <1>4. Cardinality(T) <= Cardinality(S) BY <1>1, <1>3, FS_Subset
  <1>5. Cardinality(T) # 0 BY <1>2, <1>3, FS_EmptySet
  <1> QED BY <1>3, <1>4, <1>5 DEF SlotNumber, T

Opens(g, R) ==
  << [type |-> "lease_acquired", group |-> g],
     [type |-> "barrier_requested", group |-> g, required |-> R],
     [type |-> "barrier_suspended", group |-> g] >>

LEMMA OpensPlain ==
  ASSUME NEW g \in Commands, NEW R \in SUBSET Delegations
  PROVE  Opens(g, R) \in Seq(Plain) /\ Opens(g, R) # <<>>
  <1> DEFINE e1 == [type |-> "lease_acquired", group |-> g]
             e2 == [type |-> "barrier_requested", group |-> g, required |-> R]
             e3 == [type |-> "barrier_suspended", group |-> g]
  <1>1. e1 \in OpenEvent /\ e1.type = "lease_acquired" BY DEF OpenEvent
  <1>2. e2 \in BarrierEvent /\ e2.type = "barrier_requested" BY DEF BarrierEvent
  <1>3. e3 \in OpenEvent /\ e3.type = "barrier_suspended" BY DEF OpenEvent
  <1>4. (\A e \in OpenEvent : e \in Event) /\ (\A e \in BarrierEvent : e \in Event) BY DEF Event
  <1>5. Opens(g, R) = <<e1, e2, e3>> BY DEF Opens
  <1> HIDE DEF e1, e2, e3, Event, OpenEvent, BarrierEvent
  <1>6. e1 \in Plain /\ e2 \in Plain /\ e3 \in Plain BY <1>1, <1>2, <1>3, <1>4 DEF Plain
  <1> HIDE DEF Plain
  <1> QED BY <1>5, <1>6

\* The events that admit the delegations of R, each with its newest envelope.
Admitting(g, R) ==
  Flatten([d \in Delegations |->
    IF d \in R THEN Claiming(<<d, session.envelopes[d]>>, g, SlotNumber(R, d)) ELSE <<>>])

LEMMA AdmittingFacts ==
  ASSUME NEW g \in Commands, NEW R \in SUBSET Delegations, Cardinality(R) <= 2,
         \A d \in R : session.envelopes[d] \in 1..2
  PROVE  /\ Admitting(g, R) \in Seq(Plain)
         /\ \A d \in R : Pending(Admitting(g, R), "slot_claimed", <<d, session.envelopes[d]>>)
  <1> DEFINE F == [d \in Delegations |->
                     IF d \in R THEN Claiming(<<d, session.envelopes[d]>>, g, SlotNumber(R, d)) ELSE <<>>]
             q == Flatten(F)
  <1>1. ASSUME NEW d \in R
        PROVE  /\ Claiming(<<d, session.envelopes[d]>>, g, SlotNumber(R, d)) \in Seq(Plain)
               /\ Len(Claiming(<<d, session.envelopes[d]>>, g, SlotNumber(R, d))) = 2
               /\ Claiming(<<d, session.envelopes[d]>>, g, SlotNumber(R, d))[1].type = "slot_claimed"
               /\ Claiming(<<d, session.envelopes[d]>>, g, SlotNumber(R, d))[1].d = d
               /\ Claiming(<<d, session.envelopes[d]>>, g, SlotNumber(R, d))[1].n = session.envelopes[d]
    <2>1. PICK k \in 1..2 : k = SlotNumber(R, d) BY SlotNumberBound
    <2>2. PICK n \in 1..2 : n = session.envelopes[d] OBVIOUS
    <2>3. d \in Delegations OBVIOUS
    <2>4. /\ Claiming(<<d, n>>, g, k) \in Seq(Plain) /\ Len(Claiming(<<d, n>>, g, k)) = 2
          /\ Claiming(<<d, n>>, g, k)[1] = SlotOf(d, n, g, k)
          /\ About(SlotOf(d, n, g, k), "slot_claimed", d, n)
      BY <2>3, ClaimingFacts
    <2> HIDE DEF Plain, Claiming, SlotOf
    <2> QED BY <2>1, <2>2, <2>4 DEF About
  <1>2. <<>> \in Seq(Plain) OBVIOUS
  <1>3. F \in [Delegations -> Seq(Plain)]
    <2> HIDE DEF Plain, Claiming
    <2> QED BY <1>1, <1>2
  <1>4. \A d \in R : F[d] = Claiming(<<d, session.envelopes[d]>>, g, SlotNumber(R, d)) OBVIOUS
  <1> HIDE DEF F, Plain, Claiming
  <1>5. /\ q \in Seq(Plain)
        /\ \A d \in Delegations : \A j \in 1 .. Len(F[d]) :
              \E k \in 1 .. Len(q) : q[k] = F[d][j]
    BY <1>3, LoopDelegations
  <1> HIDE DEF q
  <1>6. ASSUME NEW d \in R PROVE Pending(q, "slot_claimed", <<d, session.envelopes[d]>>)
    <2>0. Len(F[d]) = 2 BY <1>1, <1>4
    <2>1. 1 \in 1 .. Len(F[d]) BY <2>0
    <2>2. PICK k \in 1 .. Len(q) : q[k] = F[d][1] BY <1>5, <2>1
    <2>3. k \in DOMAIN q BY <1>5
    <2>4. q[k].type = "slot_claimed" /\ q[k].d = d /\ q[k].n = session.envelopes[d] BY <1>1, <1>4, <2>2, ZenonT(60)
    <2> QED BY <2>3, <2>4 DEF Pending
  <1>7. Admitting(g, R) = q BY DEF Admitting, q, F
  <1> QED BY <1>5, <1>6, <1>7

LEMMA StepAdmitGroup ==
  ASSUME Inv, NEW g \in Commands, AdmitGroup(g)
  PROVE  Inv'
  <1>1. /\ UNCHANGED <<session, op, child, gone, crashes>>
        /\ cmd[g].pc = "admit" /\ writer.by = 0
    BY DEF AdmitGroup, WriterFree
  <1>2. CASE /\ lease' \in {Released(g), lease} /\ UNCHANGED writer
             /\ \E to \in {"cancelled", "done"} : Goto(g, 0, to)
    <2>1. lease' \in LeaseType BY <1>2, LeaseStays, LeaseReleased DEF Released
    <2> QED BY <1>1, <1>2, <2>1, CommandOn
  <1> DEFINE R == cmd[g].adm
             q == Opens(g, R) \o Admitting(g, R)
             T == [d \in Delegations |->
                     IF d \in R
                     THEN [Idle EXCEPT !.pc = "launch", !.n = session.envelopes[d],
                                       !.first = session.envelopes[d], !.slot = SlotNumber(R, d)]
                     ELSE Idle]
  <1>3. CASE /\ Hold(g, 0, q, "run", "done") /\ cmd' = [cmd EXCEPT ![g].pc = "holding"]
             /\ thr' = [thr EXCEPT ![g] = T] /\ UNCHANGED lease
    <2>1. cmd[g] \in CommandType /\ Knows(cmd[g]) BY CommandKnows
    <2>2. R \in SUBSET Delegations /\ Cardinality(R) <= 2 /\ \A d \in R : session.envelopes[d] > 0
      BY <1>1, <2>1 DEF CommandType, Knows
    <2>3. \A d \in R : session.envelopes[d] \in 1..2
      <3>1. \A d \in Delegations : session.envelopes[d] \in 0..2 BY SessionFields DEF Inv, Types
      <3>2. \A x \in 0..2 : x > 0 => x \in 1..2 OBVIOUS
      <3> QED BY <2>2, <3>1, <3>2
    <2>4. /\ Admitting(g, R) \in Seq(Plain)
          /\ \A d \in R : Pending(Admitting(g, R), "slot_claimed", <<d, session.envelopes[d]>>)
      <3> HIDE DEF R
      <3> QED BY <2>2, <2>3, AdmittingFacts
    <2>5. Opens(g, R) \in Seq(Plain) /\ Opens(g, R) # <<>> BY <2>2, OpensPlain
    <2>6. /\ q \in Seq(Plain) /\ q # <<>>
          /\ \A d \in R : Pending(q, "slot_claimed", <<d, session.envelopes[d]>>)
      <3> HIDE DEF Plain, Pending, R
      <3> QED BY <2>4, <2>5, PendingConcat
    <2>7. q \in Seq(Event) /\ \A w : \A i \in DOMAIN q : EventOK(w, session, op, q[i])
      <3> HIDE DEF q, EventOK
      <3>1. ASSUME NEW w PROVE \A i \in DOMAIN q : EventOK(w, session, op, q[i]) BY <2>6, PlainEvents
      <3>2. q \in Seq(Event) BY <2>6, PlainEvents
      <3> QED BY <3>1, <3>2
    <2>8. ASSUME NEW d \in Delegations
          PROVE  /\ T[d] \in LaunchType /\ QuietLaunch(g, d, T[d])
                 /\ d \in R => T[d].n = session.envelopes[d]
      <3>1. CASE d \in R
        <4>1. PICK n \in 1..2 : n = session.envelopes[d] BY <2>3, <3>1
        <4>2. PICK k \in 1..2 : k = SlotNumber(R, d) BY <2>2, <3>1, SlotNumberBound
        <4>3. T[d] = [Idle EXCEPT !.pc = "launch", !.n = n, !.first = n, !.slot = k] BY <3>1, <4>1, <4>2
        <4>4. n \in 0..2 /\ k \in 0..2 /\ "launch" \in LaunchSteps BY DEF LaunchSteps
        <4>5. T[d] \in LaunchType /\ T[d].pc = "launch" /\ T[d].n = n BY <4>3, <4>4 DEF LaunchType, Idle
        <4> HIDE DEF T
        <4> QED BY <3>1, <4>1, <4>5 DEF QuietLaunch
      <3>2. CASE d \notin R
        <4>1. T[d] = Idle BY <3>2
        <4>2. Idle.pc = "idle" BY DEF Idle
        <4> HIDE DEF T
        <4> QED BY <3>2, <4>1, <4>2, IdleType DEF QuietLaunch
      <3> QED BY <3>1, <3>2
    <2>9. T \in [Delegations -> LaunchType]
      <3>1. T = [d \in Delegations |-> T[d]] OBVIOUS
      <3> HIDE DEF T, LaunchType
      <3> QED BY <2>8, <3>1
    <2> HIDE DEF T, q
    <2>10. /\ thr' \in [Commands -> [Delegations -> LaunchType]] /\ thr'[g] = T
           /\ \A h \in Commands : h # g => thr'[h] = thr[h]
      <3>1. thr \in [Commands -> [Delegations -> LaunchType]] BY DEF Inv, Types
      <3> HIDE DEF LaunchType
      <3> QED BY <1>3, <2>9, <3>1
    <2>11. \A e \in Delegations : QuietLaunch(g, e, thr'[g][e])
      <3> HIDE DEF QuietLaunch
      <3> QED BY <2>8, <2>10
    <2>12. \A e \in R : thr'[g][e].n \in 1..2 /\ Pending(q, "slot_claimed", <<e, thr'[g][e].n>>)
      <3> SUFFICES ASSUME NEW e \in R
                   PROVE thr'[g][e].n \in 1..2 /\ Pending(q, "slot_claimed", <<e, thr'[g][e].n>>)
        OBVIOUS
      <3>1. thr'[g][e].n = session.envelopes[e] BY <2>2, <2>8, <2>10
      <3> HIDE DEF Pending
      <3> QED BY <2>3, <2>6, <3>1
    <2> HIDE DEF QuietLaunch, EventOK, Pending, Event, LaunchType
    <2> QED BY <1>1, <1>3, <2>6, <2>7, <2>10, <2>11, <2>12, CommandHold
  <1>4. AdmitGroup(g) => \/ /\ lease' \in {Released(g), lease} /\ UNCHANGED writer
                            /\ \E to \in {"cancelled", "done"} : Goto(g, 0, to)
                         \/ /\ Hold(g, 0, q, "run", "done") /\ cmd' = [cmd EXCEPT ![g].pc = "holding"]
                            /\ thr' = [thr EXCEPT ![g] = T] /\ UNCHANGED lease
    BY DEF AdmitGroup, Opens, Admitting
  <1> QED BY <1>2, <1>3, <1>4

-----------------------------------------------------------------------------
LEMMA StepFinish ==
  ASSUME Inv, NEW g \in Commands, Finish(g)
  PROVE  Inv'
  <1> DEFINE over == {d \in cmd[g].adm : thr[g][d].pc = "fulfilled" \/ CancelledPreStart(g, d)}
             kept == {d \in over : \A e \in over : thr[g][e].slot = 0 => d < e}
             F == [d \in Delegations |->
                     IF d \in kept THEN Releasing(<<d, thr[g][d].n>>, g) ELSE <<>>]
             open == /\ kept = over /\ ~Admitted(Project(session, Flatten(F)), g)
                     /\ \A d \in cmd[g].adm : session.status[d] \in Known
             last == IF open THEN <<Opened(g, BarrierKind(g))>> ELSE <<>>
             q == Flatten(F) \o last
             to == IF open THEN "release" ELSE "done"
  <1>1. /\ UNCHANGED <<session, lease, op, child, gone, crashes>>
        /\ cmd[g].pc = "run" /\ writer.by = 0
        /\ \A d \in cmd[g].adm : thr[g][d].pc \in {"fulfilled", "rejected"}
        /\ HoldOrGo(g, 0, q, to, "done")
    BY DEF Finish, WriterFree, Opened
  <1>2. cmd[g].adm \subseteq Delegations BY CommandKnows DEF CommandType
  <1>3. kept \subseteq cmd[g].adm OBVIOUS
  <1> HIDE DEF kept
  <1>4. ASSUME NEW d \in Delegations PROVE LaunchOK(g, d) BY DEF Inv
  <1>5. ASSUME NEW d \in kept PROVE Releasing(<<d, thr[g][d].n>>, g) \in Seq(Plain)
    <2>1. d \in Delegations /\ thr[g][d].pc # "idle" BY <1>1, <1>2, <1>3
    <2>2. PICK n \in 1..2 : n = thr[g][d].n BY <1>4, <2>1 DEF LaunchOK
    <2>3. g \in 0..MaxCommands BY DEF Commands
    <2>4. Releasing(<<d, n>>, g) \in Seq(Plain) BY <2>1, <2>3, PlainReleasing
    <2> QED BY <2>2, <2>4
  <1>6. F \in [Delegations -> Seq(Plain)]
    <2>1. <<>> \in Seq(Plain) OBVIOUS
    <2> HIDE DEF Plain, Releasing
    <2> QED BY <1>5, <2>1
  <1>7. last \in Seq(Plain)
    <2>1. BarrierKind(g) \in {"completed", "cancelled", "blocked"} BY DEF BarrierKind
    <2>2. Opened(g, BarrierKind(g)) \in Plain BY <2>1, OpenedPlain
    <2> HIDE DEF Plain, Opened, open
    <2> QED BY <2>2
  <1>8. Flatten(F) \in Seq(Plain)
    <2> HIDE DEF F, Plain
    <2> QED BY <1>6, LoopDelegations
  <1>9. q \in Seq(Plain) /\ (q = <<>> => last = <<>>)
    <2> HIDE DEF F, last, Plain, Pending
    <2> QED BY <1>7, <1>8, PendingConcat
  <1>10. q = <<>> => to = "done" /\ ~open
    <2> HIDE DEF q, open, Opened
    <2> QED BY <1>9
  <1> HIDE DEF q, last, F, open
  <1>11. CASE q = <<>>
    <2>1. Over(g) /\ UNCHANGED writer BY <1>1, <1>10, <1>11 DEF HoldOrGo, Goto
    <2>2. lease' \in LeaseType BY <1>1, LeaseStays
    <2> QED BY <1>1, <2>1, <2>2, CommandEnds
  <1>12. CASE q # <<>>
    <2>1. /\ Hold(g, 0, q, to, "done") /\ cmd' = [cmd EXCEPT ![g].pc = "holding"] /\ UNCHANGED thr
      BY <1>1, <1>12 DEF HoldOrGo, Goto
    <2>2. thr' \in [Commands -> [Delegations -> LaunchType]] BY <2>1 DEF Inv, Types
    <2>3. \A e \in Delegations : QuietLaunch(g, e, thr'[g][e])
      <3> SUFFICES ASSUME NEW e \in Delegations PROVE QuietLaunch(g, e, thr[g][e]) BY <2>1
      <3>1. LaunchOK(g, e) BY <1>4
      <3> QED BY <1>1, <3>1 DEF LaunchOK, QuietLaunch
    <2>4. q \in Seq(Event) BY <1>9, PlainEvents
    <2>5. ASSUME NEW w PROVE \A i \in DOMAIN q : EventOK(w, session, op, q[i]) BY <1>9, PlainEvents
    <2>6. to \in {"release", "done"} OBVIOUS
    <2> HIDE DEF to, QuietLaunch, EventOK, Event, LaunchType, Pending
    <2> QED BY <1>1, <1>12, <2>1, <2>2, <2>3, <2>4, <2>5, <2>6, CommandHold
  <1> QED BY <1>11, <1>12

LEMMA StepRecoverLater ==
  ASSUME Inv, NEW g \in Commands, RecoverLater(g)
  PROVE  Inv'
  <1>0. /\ UNCHANGED <<session, lease, op, child, gone, crashes>>
        /\ cmd[g].pc = "recover" /\ writer.by = 0
    BY DEF RecoverLater, WriterFree
  <1>1. cmd[g] \in CommandType /\ Knows(cmd[g]) BY CommandKnows
  <1>2. PICK d \in Delegations : d = cmd[g].sel BY <1>0, <1>1 DEF Knows
  <1>3. PICK n \in 1..2 : n = cmd[g].n BY <1>0, <1>1 DEF Knows
  <1>4. PICK x \in 0..MaxCommands : x = cmd[g].grp BY <1>1 DEF CommandType
  <1>5. lease' \in LeaseType /\ op' \in [Actors -> OpType] BY <1>0, LeaseStays
  <1>6. CASE Goto(g, 0, "done") /\ UNCHANGED writer BY <1>0, <1>5, <1>6, CommandOn
  <1> DEFINE a == <<d, n>>
             pre == Recovering(session, a)
             given == IF ClaimsOf(session, a) # {} THEN <<Held("claim_released", a, x)>> ELSE <<>>
             freed == IF SlotsOf(session, a) # {} THEN <<Held("slot_released", a, x)>> ELSE <<>>
             s == Project(session, pre \o (given \o freed))
             kind == [b \in Commands |->
                        IF \A e \in s.barriers[b].required : s.status[e] = "cancelled"
                        THEN "cancelled" ELSE "blocked"]
             rest == Opening({b \in Suspended(s, d) : NothingLeft(s, b, x)}, kind)
             q == (pre \o (given \o freed)) \o rest
  <1>7. CASE Recoverable(session, a) /\ HoldOrGo(g, 0, q, "reclaim", "done")
    <2>1. /\ pre \in Seq(Event) /\ HasAttempt(session, a)
          /\ \A w : \A i \in DOMAIN pre : EventOK(w, session, op, pre[i])
          /\ IsSettled(session, a) \/ Pending(pre, "settled", a)
      BY <1>7, RecoveringFacts
    <2> HIDE DEF pre
    <2>2. pre \in Seq(Now)
      <3>1. \A i \in DOMAIN pre : pre[i] \in Now
        <4>1. \A i \in DOMAIN pre : pre[i] \in Event
          <5> HIDE DEF Event
          <5> QED BY <2>1
        <4> HIDE DEF Event, EventOK
        <4> QED BY <2>1, <4>1 DEF Now
      <3> HIDE DEF Event, Now
      <3> QED BY <2>1, <3>1
    <2>3. given \in Seq(Plain) /\ freed \in Seq(Plain)
      <3>1. Held("claim_released", a, x) \in Plain /\ Held("slot_released", a, x) \in Plain BY PlainHeld
      <3> HIDE DEF Plain, Held, ClaimsOf, SlotsOf
      <3> QED BY <3>1
    <2>4. given \in Seq(Now) /\ freed \in Seq(Now)
      <3> HIDE DEF given, freed, Plain, Now
      <3> QED BY <2>3, PlainNow
    <2>5. rest \in Seq(Now)
      <3>1. \A b \in Commands : kind[b] \in {"completed", "cancelled", "blocked"} OBVIOUS
      <3> HIDE DEF kind, s
      <3>2. rest \in Seq(Plain) BY <3>1, OpeningPlain
      <3> HIDE DEF rest, Plain, Now
      <3> QED BY <3>2, PlainNow
    <2> HIDE DEF given, freed, rest
    <2>6. given \o freed \in Seq(Now)
      <3> HIDE DEF Now
      <3> QED BY <2>4, PendingConcat
    <2> DEFINE p == pre \o (given \o freed)
    <2>7. /\ p \in Seq(Now) /\ (p = <<>> => pre = <<>>)
          /\ Pending(pre, "settled", a) => Pending(p, "settled", a)
      <3> HIDE DEF Now, Pending
      <3> QED BY <2>2, <2>6, PendingConcat
    <2>8. /\ q \in Seq(Now) /\ (q = <<>> => pre = <<>>)
          /\ Pending(pre, "settled", a) => Pending(q, "settled", a)
      <3> HIDE DEF Now, Pending, p
      <3>1. /\ p \o rest \in Seq(Now) /\ (p \o rest = <<>> => p = <<>>)
            /\ Pending(p, "settled", a) => Pending(p \o rest, "settled", a)
        BY <2>5, <2>7, PendingConcat
      <3> QED BY <2>7, <3>1 DEF p
    <2> HIDE DEF q
    <2>9. CASE q = <<>>
      <3>1. Goto(g, 0, "reclaim") /\ UNCHANGED writer BY <1>7, <2>9 DEF HoldOrGo
      <3>2. IsSettled(session, a)
        <4>1. pre = <<>> BY <2>8, <2>9
        <4>2. ~Pending(pre, "settled", a) BY <4>1 DEF Pending
        <4> QED BY <2>1, <4>2
      <3>3. ASSUME NEW c, StepsTo(c, g, "reclaim") PROVE Knows(c)
        <4>1. c.pc = "reclaim" /\ c.sel = d /\ c.n = n BY <1>1, <1>2, <1>3, <3>3 DEF StepsTo, CommandType
        <4> HIDE DEF HasAttempt, IsSettled
        <4> QED BY <2>1, <3>2, <4>1 DEF Knows
      <3>4. NothingProven BY <1>0, Unproven
      <3>5. "reclaim" \in CommandSteps \ {"holding", "unused", "run"} BY DEF CommandSteps
      <3> HIDE DEF Knows, NothingProven
      <3> QED BY <1>0, <1>5, <3>1, <3>3, <3>4, <3>5, CommandTo
    <2>10. CASE q # <<>>
      <3>1. Hold(g, 0, q, "reclaim", "done") /\ Goto(g, 0, "holding") BY <1>7, <2>10 DEF HoldOrGo
      <3>2. q \in Seq(Event) /\ \A w : \A i \in DOMAIN q : EventOK(w, session, op, q[i])
        BY <2>8, NowEvents
      <3> HIDE DEF HasAttempt, IsSettled, Pending, Event, EventOK, Now
      <3> QED BY <1>0, <1>2, <1>3, <2>1, <2>8, <2>10, <3>1, <3>2, IdleHold
    <2> QED BY <2>9, <2>10
  <1>8. \/ Recoverable(session, a) /\ HoldOrGo(g, 0, q, "reclaim", "done")
        \/ Goto(g, 0, "done") /\ UNCHANGED writer
    <2> DEFINE kinds(t) == [b \in Commands |->
                              IF \A e \in t.barriers[b].required : t.status[e] = "cancelled"
                              THEN "cancelled" ELSE "blocked"]
               all(t) == (pre \o (given \o freed))
                         \o Opening({b \in Suspended(t, d) : NothingLeft(t, b, x)}, kinds(t))
    <2>1. \/ Recoverable(session, a) /\ \E t \in {s} : HoldOrGo(g, 0, all(t), "reclaim", "done")
          \/ Goto(g, 0, "done") /\ UNCHANGED writer
      BY <1>2, <1>3, <1>4, ZenonT(60) DEF RecoverLater
    <2>2. q = all(s) OBVIOUS
    <2> HIDE DEF q, s, all
    <2> QED BY <2>1, <2>2
  <1> QED BY <1>6, <1>7, <1>8

-----------------------------------------------------------------------------
LEMMA StepReclaim ==
  ASSUME Inv, NEW g \in Commands, Reclaim(g)
  PROVE  Inv'
  <1>0. /\ UNCHANGED <<session, writer, lease, child, thr, gone, crashes>>
        /\ cmd[g].pc = "reclaim" /\ op' = Reconciled(<<cmd[g].sel, cmd[g].n>>)
    BY DEF Reclaim
  <1>1. cmd[g] \in CommandType /\ Knows(cmd[g]) BY CommandKnows
  <1>2. PICK d \in Delegations : d = cmd[g].sel BY <1>0, <1>1 DEF Knows
  <1>3. PICK n \in 1..2 : n = cmd[g].n BY <1>0, <1>1 DEF Knows
  <1>4. IsSettled(session, <<d, n>>) BY <1>0, <1>1, <1>2, <1>3 DEF Knows
  <1>5. <<d, n>> \in Actors BY DEF Actors
  <1>6. op' = op \/ op' = [op EXCEPT ![<<d, n>>].state = "reconciled"]
    BY <1>0, <1>2, <1>3 DEF Reconciled
  <1>7. op' \in [Actors -> OpType] /\ NothingProven
    <2>1. /\ op' \in [Actors -> OpType]
          /\ \A b \in Actors : Touched(b) /\ (Proven(op', b) => Proven(op, b))
      <3> HIDE DEF Touched, Proven, IsSettled
      <3> QED BY <1>0, <1>4, <1>5, <1>6, ReconciledTouches
    <2> HIDE DEF Touched, Proven
    <2> QED BY <2>1 DEF NothingProven
  <1>8. PICK to \in {"unlease", "again"} : cmd' = [cmd EXCEPT ![g].pc = to] BY DEF Reclaim
  <1>9. Goto(g, 0, to) BY <1>0, <1>8 DEF Goto
  <1>10. to \in CommandSteps \ {"holding", "unused", "run"} BY DEF CommandSteps
  <1>11. ASSUME NEW c, StepsTo(c, g, to) PROVE Knows(c)
    <2>1. Onward(g, to) /\ to \in CommandSteps BY <1>10 DEF Onward
    <2> QED BY <1>0, <1>11, <2>1, KnowsMore
  <1>12. lease' \in LeaseType BY <1>0, LeaseStays
  <1> HIDE DEF Knows, NothingProven
  <1> QED BY <1>0, <1>7, <1>9, <1>10, <1>11, <1>12, CommandTo

LEMMA StepTakeover ==
  ASSUME Inv, NEW g \in Commands, Takeover(g)
  PROVE  Inv'
  <1>0. /\ UNCHANGED <<session, writer, lease, op, child, gone, crashes>>
        /\ cmd[g].pc = "takeover"
    BY DEF Takeover
  <1>1. cmd[g] \in CommandType /\ Knows(cmd[g]) BY CommandKnows
  <1>2. PICK d \in Delegations : d = cmd[g].sel BY <1>0, <1>1 DEF Knows
  <1>3. session.attempts[d] # <<>> BY <1>0, <1>1, <1>2 DEF Knows
  <1>4. PICK n \in 1..2 : /\ LastActor(session, d) = <<d, n>>
                          /\ session.claimed[d][n] \in Commands
                          /\ GroupOf(session, <<d, n>>) = session.claimed[d][n]
    BY <1>3, LastAttempt
  <1>5. lease' \in LeaseType /\ op' \in [Actors -> OpType] BY <1>0, LeaseStays
  <1>6. CASE Over(g) BY <1>0, <1>5, <1>6, CommandEnds
  <1> DEFINE groups == {x.group : x \in SlotsOf(session, <<d, n>>) \cup ClaimsOf(session, <<d, n>>)}
             group == IF groups = {} THEN GroupOf(session, <<d, n>>) ELSE CHOOSE x \in groups : TRUE
  <1>7. group \in Commands
    <2>1. groups \subseteq Commands
      <3>1. /\ session.slots \subseteq [actor : Actors, group : Commands, slot : 1..2]
            /\ session.claims \subseteq [actor : Actors, group : Commands]
        BY DEF Inv, Types, SessionType
      <3> QED BY <3>1 DEF SlotsOf, ClaimsOf
    <2> HIDE DEF groups
    <2>2. CASE groups = {} BY <1>4, <2>2
    <2>3. CASE groups # {}
      <3>1. (CHOOSE x \in groups : TRUE) \in groups BY <2>3
      <3> QED BY <2>1, <2>3, <3>1
    <2> QED BY <2>2, <2>3
  <1> HIDE DEF group
  <1>8. CASE cmd' = [cmd EXCEPT ![g].pc = "seize", ![g].grp = group, ![g].from = session.nonce[group]]
             /\ UNCHANGED thr
    <2>1. PICK f \in 0..MaxCommands : f = session.nonce[group] BY <1>7 DEF Inv, Types, SessionType
    <2> DEFINE c == [cmd[g] EXCEPT !.pc = "seize", !.grp = group, !.from = f]
    <2>2. Comes(g, c) BY <1>8, <2>1 DEF Comes, Inv, Types
    <2>3. c \in CommandType /\ c.pc = "seize" /\ c.grp = group /\ c.sel = d
      <3>1. "seize" \in CommandSteps /\ group \in 0..MaxCommands BY <1>7 DEF CommandSteps, Commands
      <3> QED BY <1>1, <1>2, <3>1 DEF CommandType
    <2> HIDE DEF c
    <2>4. Knows(c) BY <1>7, <2>3 DEF Knows
    <2>5. NothingProven BY <1>0, Unproven
    <2> HIDE DEF Knows, NothingProven
    <2> QED BY <1>0, <1>5, <1>8, <2>2, <2>3, <2>4, <2>5, CommandGoes
  <1>9. \/ Over(g)
        \/ /\ cmd' = [cmd EXCEPT ![g].pc = "seize", ![g].grp = group, ![g].from = session.nonce[group]]
           /\ UNCHANGED thr
    BY <1>2, <1>4 DEF Takeover, group
  <1> QED BY <1>6, <1>8, <1>9

\* What the group still holds is given back, one event for each delegation.
LEMMA GivingBack ==
  ASSUME NEW S, \A x \in S : x.actor \in Actors, NEW x \in 0..MaxCommands,
         NEW type \in {"claim_released", "slot_released"}
  PROVE  Flatten([d \in Delegations |->
                    IF {y \in S : y.actor[1] = d /\ y.group = x} # {}
                    THEN <<Held(type, (CHOOSE y \in {z \in S : z.actor[1] = d /\ z.group = x} : TRUE).actor, x)>>
                    ELSE <<>>]) \in Seq(Plain)
  <1> DEFINE M(d) == {y \in S : y.actor[1] = d /\ y.group = x}
             F == [d \in Delegations |->
                    IF M(d) # {} THEN <<Held(type, (CHOOSE y \in M(d) : TRUE).actor, x)>> ELSE <<>>]
  <1>1. ASSUME NEW d \in Delegations, M(d) # {}
        PROVE  <<Held(type, (CHOOSE y \in M(d) : TRUE).actor, x)>> \in Seq(Plain)
    <2>1. PICK a \in Actors : a = (CHOOSE y \in M(d) : TRUE).actor
      <3>1. (CHOOSE y \in M(d) : TRUE) \in M(d)
        <4> HIDE DEF M
        <4> QED BY <1>1
      <3>2. (CHOOSE y \in M(d) : TRUE) \in S BY <3>1
      <3> QED BY <3>2
    <2>2. PICK e \in Delegations, n \in 1..2 : a = <<e, n>> BY DEF Actors
    <2>3. Held(type, <<e, n>>, x) \in Plain BY PlainHeld
    <2>4. <<Held(type, a, x)>> \in Seq(Plain)
      <3> HIDE DEF Plain, Held
      <3> QED BY <2>2, <2>3
    <2> HIDE DEF Plain, Held, M
    <2> QED BY <2>1, <2>4
  <1>2. <<>> \in Seq(Plain) OBVIOUS
  <1>3. F \in [Delegations -> Seq(Plain)]
    <2> HIDE DEF Plain, Held, M
    <2> QED BY <1>1, <1>2
  <1>4. Flatten(F) \in Seq(Plain)
    <2> HIDE DEF F, Plain
    <2> QED BY <1>3, LoopDelegations
  <1> QED BY <1>4

LEMMA StepAdopt ==
  ASSUME Inv, NEW g \in Commands, Adopt(g)
  PROVE  Inv'
  <1>0. /\ UNCHANGED <<session, lease, op, child, gone, crashes>>
        /\ cmd[g].pc = "adopt" /\ writer.by = 0
    BY DEF Adopt, WriterFree
  <1>1. cmd[g] \in CommandType /\ Knows(cmd[g]) BY CommandKnows
  <1>2. PICK x \in Commands : x = cmd[g].grp BY <1>0, <1>1 DEF Knows
  <1>3. PICK f \in 0..MaxCommands : f = cmd[g].from BY <1>1 DEF CommandType
  <1>4. lease' \in LeaseType BY <1>0, LeaseStays
  <1>5. CASE Goto(g, 0, "done") /\ UNCHANGED writer BY <1>0, <1>4, <1>5, CommandOn
  <1> DEFINE e == [type |-> "takeover", group |-> x, from |-> f, to |-> g]
             given == Flatten([d \in Delegations |->
                        IF {y \in session.claims : y.actor[1] = d /\ y.group = x} # {}
                        THEN <<Held("claim_released",
                               (CHOOSE y \in {z \in session.claims : z.actor[1] = d /\ z.group = x} : TRUE).actor, x)>>
                        ELSE <<>>])
             freed == Flatten([d \in Delegations |->
                        IF {y \in session.slots : y.actor[1] = d /\ y.group = x} # {}
                        THEN <<Held("slot_released",
                               (CHOOSE y \in {z \in session.slots : z.actor[1] = d /\ z.group = x} : TRUE).actor, x)>>
                        ELSE <<>>])
             over == {b \in Commands : /\ session.barriers[b].status = "suspended"
                                       /\ \A d \in session.barriers[b].required :
                                            session.status[d] \in KnownTerminal}
             kind == [b \in Commands |->
                        IF \A d \in session.barriers[b].required : session.status[d] = "accepted"
                        THEN "completed" ELSE "blocked"]
             rest == Opening(over, kind)
             q == ((<<e>> \o given) \o freed) \o rest
  <1>6. CASE Hold(g, 0, q, "yield", "done") /\ Goto(g, 0, "holding")
    <2>1. e \in Plain
      <3>1. e \in TakeoverEvent /\ e.type = "takeover" BY DEF TakeoverEvent
      <3>2. \A y \in TakeoverEvent : y \in Event BY DEF Event
      <3> HIDE DEF TakeoverEvent, Event, e
      <3> QED BY <3>1, <3>2 DEF Plain
    <2> HIDE DEF e
    <2>2. <<e>> \in Seq(Plain) /\ <<e>> # <<>>
      <3> HIDE DEF Plain
      <3> QED BY <2>1
    <2>3. /\ \A y \in session.claims : y.actor \in Actors
          /\ \A y \in session.slots : y.actor \in Actors
      <3>1. /\ session.slots \subseteq [actor : Actors, group : Commands, slot : 1..2]
            /\ session.claims \subseteq [actor : Actors, group : Commands]
        BY DEF Inv, Types, SessionType
      <3> QED BY <3>1
    <2>4. x \in 0..MaxCommands BY DEF Commands
    <2>5. given \in Seq(Plain) BY <2>3, <2>4, GivingBack, ZenonT(60)
    <2>6. freed \in Seq(Plain) BY <2>3, <2>4, GivingBack, ZenonT(60)
    <2>7. rest \in Seq(Plain)
      <3>1. \A b \in Commands : kind[b] \in {"completed", "cancelled", "blocked"} OBVIOUS
      <3> HIDE DEF kind, over
      <3> QED BY <3>1, OpeningPlain
    <2> HIDE DEF given, freed, rest
    <2> DEFINE p1 == <<e>> \o given
               p2 == p1 \o freed
    <2>8. p1 \in Seq(Plain) /\ p1 # <<>>
      <3> HIDE DEF Plain
      <3> QED BY <2>2, <2>5, PendingConcat
    <2> HIDE DEF p1
    <2>9. p2 \in Seq(Plain) /\ p2 # <<>>
      <3> HIDE DEF Plain
      <3> QED BY <2>6, <2>8, PendingConcat
    <2>10. p2 \o rest \in Seq(Plain) /\ p2 \o rest # <<>>
      <3> HIDE DEF Plain, p2
      <3> QED BY <2>7, <2>9, PendingConcat
    <2>11. q \in Seq(Plain) /\ q # <<>>
      <3> HIDE DEF Plain
      <3> QED BY <2>10 DEF p1
    <2> HIDE DEF q, Plain
    <2> QED BY <1>0, <1>2, <1>6, <2>11, IdlePlainHold
  <1>7. \/ Goto(g, 0, "done") /\ UNCHANGED writer
        \/ Hold(g, 0, q, "yield", "done") /\ Goto(g, 0, "holding")
    BY <1>2, <1>3 DEF Adopt
  <1> QED BY <1>5, <1>6, <1>7

\* The process of a command ends, wherever the command is.
LEMMA StepDies ==
  ASSUME Inv, NEW g \in Commands, Crash(g) \/ Exit(g)
  PROVE  Inv'
  <1>0. /\ UNCHANGED <<session, lease, op, child>> /\ Over(g) /\ gone' = gone \cup {g}
        /\ writer' = IF writer.by = g THEN Free ELSE writer
        /\ crashes' \in 0..MaxCrashes
    BY DelegationAssumption DEF Crash, Exit, Dies, Inv, Types
  <1>1. Goes BY <1>0, StillGoes
  <1>2. PICK c \in CommandType : Comes(g, c) /\ Knows(c) /\ c.pc = "done" BY <1>0, OverFacts
  <1>3. /\ cmd' \in [Commands -> CommandType] /\ cmd'[g] = c
        /\ \A h \in Commands : h # g => cmd'[h] = cmd[h]
    BY <1>2, ComesFacts
  <1>4. /\ thr' \in [Commands -> [Delegations -> LaunchType]]
        /\ \A e \in Delegations : thr'[g][e].pc = "idle"
        /\ \A h \in Commands : h # g => thr'[h] = thr[h]
    <2>1. Quits(g) BY <1>0, OverFacts
    <2> QED BY <2>1, QuitsLaunches
  <1>5. writer' \in WriterType BY <1>0, FreeWriter DEF Inv, Types
  <1>6. Types'
    <2>1. gone' \subseteq Commands BY <1>0 DEF Inv, Types
    <2> QED BY <1>0, <1>3, <1>4, <1>5, <2>1 DEF Inv, Types
  <1>7. ASSUME NEW h \in Commands, NEW e \in Delegations
        PROVE  Same(h, e) \/ (LaunchOK(h, e)' /\ ~Danger(h, e)')
    <2>1. CASE h = g
      <3>1. thr'[h][e].pc = "idle" BY <1>4, <2>1
      <3> HIDE DEF LaunchOK, Danger, Same
      <3> QED BY <3>1, IdleIsOK
    <2>2. CASE h # g
      <3>1. LaunchOK(h, e) BY DEF Inv
      <3>2. thr[h][e].pc \in {"holding", "sending"} => writer.by = h BY <3>1 DEF LaunchOK
      <3> QED BY <1>0, <1>3, <1>4, <2>2, <3>2 DEF Same
    <2> QED BY <2>1, <2>2
  <1>8. ASSUME NEW h \in Commands PROVE CommandOK(h)'
    <2>1. CASE h = g
      <3> HIDE DEF HasAttempt, IsSettled
      <3> QED BY <1>2, <1>3, <2>1 DEF CommandOK, Knows
    <2>2. CASE h # g
      <3>1. CommandOK(h) BY DEF Inv
      <3>2. cmd[h].pc = "holding" => writer.by = h BY <3>1 DEF CommandOK
      <3>3. cmd[h].pc = "holding" => UNCHANGED writer BY <1>0, <2>2, <3>2
      <3> QED BY <1>1, <1>3, <2>2, <3>3, CommandFrame
    <2> QED BY <2>1, <2>2
  <1>9. NothingProven BY <1>0, Unproven
  <1>10. ProvenStays BY <1>9 DEF NothingProven, Touched, ProvenStays
  <1>11. WriterOK'
    <2>1. CASE writer.by = g
      <3>1. writer' = Free BY <1>0, <2>1
      <3>2. DOMAIN <<>> = {} OBVIOUS
      <3>3. Free.by = 0 /\ Free.todo = <<>> BY DEF Free
      <3>4. \A h \in Commands : h # 0 BY DEF Commands
      <3> HIDE DEF CommandHolds, LaunchHolds, EventOK, Free
      <3> QED BY <3>1, <3>2, <3>3, <3>4 DEF WriterOK
    <2>2. CASE writer.by # g
      <3>1. UNCHANGED writer BY <1>0, <2>2
      <3>2. \A h \in Commands : writer.by = h => h # g BY <2>2
      <3> QED BY <1>1, <1>3, <1>4, <1>10, <3>1, <3>2, WriterFrame
    <2> QED BY <2>1, <2>2
  <1> HIDE DEF CommandOK, WriterOK, Same, LaunchOK, Danger, NothingProven, Types
  <1> QED BY <1>0, <1>6, <1>7, <1>8, <1>9, <1>11, QuietStep

-----------------------------------------------------------------------------
(* What an event leaves of the attempt it is about. *)

\* r is the attempt o after the event e.
Becomes(e, o, r) ==
  /\ r \in AttemptRecord /\ r.actor = o.actor
  /\ e.type = "launch_requested" => r.bound
  /\ e.type = "started" <=> r.started /\ ~o.started
  /\ o.started => r.started
  /\ e.type = "settled" => r.settled
  /\ e.type = "terminal" => r.terminal = e.kind
  /\ e.type \notin {"terminal", "pre_effect_cancelled"} => r.terminal = o.terminal

LEMMA AttemptResult ==
  ASSUME NEW s \in SessionType, SessionOK(s), NEW e \in Event, Admissible(s, e), Fits(s, e),
         \/ e.type \in {"launch_requested", "started", "terminal", "settled"}
         \/ e.type = "pre_effect_cancelled" /\ e.n # 0
  PROVE  /\ e.d \in Delegations /\ e.n \in 1..2 /\ Has(s, e.d, e.n)
         /\ At(s, e.d, e.n) \in DOMAIN s.attempts[e.d]
         /\ s.attempts[e.d][At(s, e.d, e.n)] \in AttemptRecord
         /\ s.attempts[e.d][At(s, e.d, e.n)].actor = e.n
         /\ \E r, v : /\ AttemptChange(s, Apply(s, e), e.d, At(s, e.d, e.n), r, v)
                      /\ Becomes(e, s.attempts[e.d][At(s, e.d, e.n)], r)
  <1> DEFINE d == e.d
             i == At(s, d, e.n)
             o == s.attempts[d][i]
  <1>1. d \in Delegations /\ e.n \in 1..2 /\ Has(s, d, e.n) BY EventFields DEF Fits
  <1>2. DelegationOK(s, d) BY <1>1 DEF SessionOK
  <1>3. Len(s.attempts[d]) \in Nat /\ Len(s.attempts[d]) <= 2
    BY <1>1, <1>2, SessionFields, DelegationAssumption DEF DelegationOK
  <1>4. i \in DOMAIN s.attempts[d] /\ o.actor = e.n
    <2> HIDE DEF d
    <2> QED BY <1>1, <1>3, AtFacts
  <1>5. o \in AttemptRecord
    <2> HIDE DEF d, i
    <2> QED BY <1>1, <1>4, SessionFields
  <1>a. Attempt(s, d, e.n) = o BY DEF Attempt
  <1>b. /\ o = [actor |-> o.actor, bound |-> o.bound, started |-> o.started,
                terminal |-> o.terminal, settled |-> o.settled]
        /\ o.actor \in 1..2 /\ o.bound \in BOOLEAN /\ o.started \in BOOLEAN
        /\ o.terminal \in Terminals /\ o.settled \in BOOLEAN
    <2> HIDE DEF o
    <2> QED BY <1>5 DEF AttemptRecord
  <1>s. PICK v : v = s.status[d] OBVIOUS
  <1> DEFINE Result == \E r, u : AttemptChange(s, Apply(s, e), d, i, r, u) /\ Becomes(e, o, r)
  <1>6. ASSUME e.type = "launch_requested" PROVE Result
    <2> DEFINE r == [o EXCEPT !.bound = TRUE]
    <2>1. Apply(s, e) = [s EXCEPT !.attempts[d][i].bound = TRUE] BY <1>6 DEF Apply
    <2>2. AttemptChange(s, Apply(s, e), d, i, r, v)
      BY <1>1, <1>4, <1>s, <2>1, ZenonT(60) DEF SessionType, AttemptChange
    <2>3. Becomes(e, o, r)
      <3> HIDE DEF o
      <3> QED BY <1>6, <1>b DEF AttemptRecord, Becomes
    <2> HIDE DEF r, i, d, o
    <2> QED BY <2>2, <2>3
  <1>7. ASSUME e.type = "started" PROVE Result
    <2> DEFINE r == [o EXCEPT !.started = TRUE]
    <2>1. Apply(s, e) = [s EXCEPT !.attempts[d][i].started = TRUE, !.status[d] = "active"]
      BY <1>7 DEF Apply
    <2>2. AttemptChange(s, Apply(s, e), d, i, r, "active")
      BY <1>1, <1>4, <2>1 DEF SessionType, AttemptChange
    <2>4. ~o.started BY <1>7, <1>a DEF Admissible
    <2>3. Becomes(e, o, r)
      <3> HIDE DEF o
      <3> QED BY <1>7, <1>b, <2>4 DEF AttemptRecord, Becomes
    <2> HIDE DEF r, i, d, o
    <2> QED BY <2>2, <2>3
  <1>8. ASSUME e.type = "settled" PROVE Result
    <2> DEFINE r == [o EXCEPT !.settled = TRUE]
    <2>1. Apply(s, e) = [s EXCEPT !.attempts[d][i].settled = TRUE] BY <1>8 DEF Apply
    <2>2. AttemptChange(s, Apply(s, e), d, i, r, v)
      BY <1>1, <1>4, <1>s, <2>1, ZenonT(60) DEF SessionType, AttemptChange
    <2>3. Becomes(e, o, r)
      <3> HIDE DEF o
      <3> QED BY <1>8, <1>b DEF AttemptRecord, Becomes
    <2> HIDE DEF r, i, d, o
    <2> QED BY <2>2, <2>3
  <1>9. ASSUME e.type = "pre_effect_cancelled" PROVE Result
    <2> DEFINE r == [o EXCEPT !.terminal = "cancelled_clean"]
    <2>1. Apply(s, e) = [s EXCEPT !.status[d] = "cancelled",
                                  !.attempts[d] = [@ EXCEPT ![i].terminal = "cancelled_clean"]]
      BY <1>9 DEF Apply
    <2>2. AttemptChange(s, Apply(s, e), d, i, r, "cancelled")
      BY <1>1, <1>4, <2>1 DEF SessionType, AttemptChange
    <2>3. Becomes(e, o, r)
      <3> HIDE DEF o
      <3> QED BY <1>9, <1>b DEF AttemptRecord, Terminals, Becomes
    <2> HIDE DEF r, i, d, o
    <2> QED BY <2>2, <2>3
  <1>10. ASSUME e.type = "terminal" PROVE Result
    <2> DEFINE r == [o EXCEPT !.terminal = e.kind]
               u == AfterTerminal(s, d, e.kind)
    <2>1. Apply(s, e) = [s EXCEPT !.attempts[d][i].terminal = e.kind, !.status[d] = u]
      BY <1>10 DEF Apply
    <2>2. AttemptChange(s, Apply(s, e), d, i, r, u)
      <3> HIDE DEF u
      <3> QED BY <1>1, <1>4, <2>1 DEF SessionType, AttemptChange
    <2>4. e.kind \in Terminals BY <1>10 DEF Fits
    <2>3. Becomes(e, o, r)
      <3> HIDE DEF o
      <3> QED BY <1>10, <1>b, <2>4 DEF AttemptRecord, Becomes
    <2> HIDE DEF r, i, d, o, u
    <2> QED BY <2>2, <2>3
  <1>11. Result
    <2> HIDE DEF Result
    <2> QED BY <1>6, <1>7, <1>8, <1>9, <1>10
  <1> QED BY <1>1, <1>4, <1>5, <1>11

LEMMA ChangeAt ==
  ASSUME NEW s \in SessionType, NEW d \in Delegations, NEW i \in DOMAIN s.attempts[d],
         NEW r \in AttemptRecord, NEW t, NEW v, AttemptChange(s, t, d, i, r, v)
  PROVE  /\ DOMAIN t.attempts[d] = DOMAIN s.attempts[d]
         /\ \A j \in DOMAIN s.attempts[d] : t.attempts[d][j] = IF j = i THEN r ELSE s.attempts[d][j]
         /\ \A c \in Delegations : c # d => t.attempts[c] = s.attempts[c]
  <1> DEFINE q == s.attempts[d]
             p == [q EXCEPT ![i] = r]
  <1>0. q \in Seq(AttemptRecord) BY DEF SessionType
  <1>1. /\ DOMAIN p = DOMAIN q /\ \A j \in DOMAIN q : p[j] = IF j = i THEN r ELSE q[j]
    <2> HIDE DEF q
    <2> QED BY <1>0, UpdateAttempt DEF q
  <1>2. t.attempts = [s.attempts EXCEPT ![d] = p] BY DEF SessionType, AttemptChange
  <1>3. s.attempts \in [Delegations -> Seq(AttemptRecord)] BY DEF SessionType
  <1> HIDE DEF p
  <1>4. t.attempts[d] = p /\ \A c \in Delegations : c # d => t.attempts[c] = s.attempts[c] BY <1>2, <1>3
  <1> QED BY <1>1, <1>4

\* What the events do for the one who waits for them.
LEMMA EventEffect ==
  ASSUME NEW s \in SessionType, SessionOK(s), NEW e \in Event, Admissible(s, e), Fits(s, e)
  PROVE  /\ e.type = "settled" => IsSettled(Apply(s, e), <<e.d, e.n>>)
         /\ e.type = "launch_requested" =>
              IsBound(Apply(s, e), <<e.d, e.n>>) /\ ~IsBound(s, <<e.d, e.n>>)
         /\ e.type = "started" =>
              IsStarted(Apply(s, e), <<e.d, e.n>>) /\ e.d \notin Apply(s, e).cancels
  <1> DEFINE t == Apply(s, e)
             i == At(s, e.d, e.n)
  <1>0. SUFFICES ASSUME e.type \in {"settled", "launch_requested", "started"}
        PROVE  /\ e.type = "settled" => IsSettled(t, <<e.d, e.n>>)
               /\ e.type = "launch_requested" => IsBound(t, <<e.d, e.n>>) /\ ~IsBound(s, <<e.d, e.n>>)
               /\ e.type = "started" => IsStarted(t, <<e.d, e.n>>) /\ e.d \notin t.cancels
    OBVIOUS
  <1>1. e.d \in Delegations /\ e.n \in 1..2 /\ Has(s, e.d, e.n) /\ i \in DOMAIN s.attempts[e.d]
    BY <1>0, AttemptResult
  <1>2. PICK r, v : AttemptChange(s, t, e.d, i, r, v) /\ Becomes(e, s.attempts[e.d][i], r)
    <2> HIDE DEF Apply, Becomes, AttemptChange, Admissible, Fits
    <2> QED BY <1>0, AttemptResult
  <1>3. Follows(s, t) BY ApplyFollows
  <1>4. /\ t \in SessionType /\ Grow(s, t) /\ Len(t.attempts[e.d]) <= 2
    BY <1>1, <1>3, AttemptsBound DEF Follows
  <1> HIDE DEF t
  <1>5. Has(t, e.d, e.n) /\ At(t, e.d, e.n) = i BY <1>1, <1>4, GrowKeeps
  <1>6. t.attempts[e.d][i] = r /\ r \in AttemptRecord
    <2>1. r \in AttemptRecord BY <1>2 DEF Becomes
    <2> QED BY <1>1, <1>2, <2>1, ChangeAt
  <1>7. Attempt(t, e.d, e.n) = r BY <1>5, <1>6 DEF Attempt
  <1>8. e.type = "settled" => IsSettled(t, <<e.d, e.n>>)
    BY <1>2, <1>5, <1>7 DEF IsSettled, HasAttempt, Becomes
  <1>9. e.type = "launch_requested" => IsBound(t, <<e.d, e.n>>) /\ ~IsBound(s, <<e.d, e.n>>)
    <2>1. e.type = "launch_requested" => ~Attempt(s, e.d, e.n).bound BY DEF Admissible
    <2> QED BY <1>2, <1>5, <1>7, <2>1 DEF IsBound, HasAttempt, Becomes
  <1>10. e.type = "started" => IsStarted(t, <<e.d, e.n>>) /\ e.d \notin t.cancels
    <2> SUFFICES ASSUME e.type = "started" PROVE IsStarted(t, <<e.d, e.n>>) /\ e.d \notin t.cancels OBVIOUS
    <2>1. IsStarted(t, <<e.d, e.n>>) BY <1>2, <1>5, <1>7 DEF IsStarted, HasAttempt, Becomes
    <2>2. s.status[e.d] = "queued" BY DEF Admissible
    <2>3. e.d \notin s.cancels BY <1>1, <2>2 DEF SessionOK, DelegationOK, Early
    <2>4. t.cancels = s.cancels BY <1>2 DEF AttemptChange, SessionType
    <2> QED BY <2>1, <2>3, <2>4
  <1> QED BY <1>8, <1>9, <1>10

LEMMA ReservedHas ==
  ASSUME NEW s \in SessionType, NEW e \in Event, e.type = "reserved"
  PROVE  Has(Apply(s, e), e.d, e.n)
  <1> DEFINE q == s.attempts[e.d]
             p == Append(q, NewAttempt(e.n))
             t == Apply(s, e)
  <1>1. e.d \in Delegations BY EventFields
  <1>2. t = [s EXCEPT !.attempts[e.d] = p] BY DEF Apply
  <1>3. q \in Seq(AttemptRecord) /\ Len(q) \in Nat BY <1>1, SessionFields
  <1>4. Len(q) + 1 \in DOMAIN p /\ p[Len(q) + 1] = NewAttempt(e.n)
    <2> HIDE DEF q, AttemptRecord
    <2> QED BY <1>3
  <1> HIDE DEF p, t
  <1>5. t.attempts[e.d] = p BY <1>1, <1>2 DEF SessionType
  <1>6. p[Len(q) + 1].actor = e.n BY <1>4 DEF NewAttempt
  <1>7. Has(t, e.d, e.n) BY <1>4, <1>5, <1>6 DEF Has
  <1> QED BY <1>7 DEF t

LEMMA SlotClaims ==
  ASSUME NEW s \in SessionType, NEW e \in Event, e.type = "slot_claimed"
  PROVE  IsClaimed(Apply(s, e), <<e.d, e.n>>)
  <1> DEFINE C == [s.claimed EXCEPT ![e.d][e.n] = e.group]
  <1>1. e.d \in Delegations /\ e.n \in 1..2 /\ e.group \in Commands BY EventFields
  <1>2. Apply(s, e).claimed = C BY DEF Apply, SessionType
  <1>3. C[e.d][e.n] = e.group BY <1>1 DEF SessionType
  <1>4. e.group # 0 BY <1>1 DEF Commands
  <1> HIDE DEF C
  <1> QED BY <1>2, <1>3, <1>4 DEF IsClaimed

\* Where an end without effect comes from.
Unended(s, d, i, e) ==
  /\ d = e.d /\ e.type \in {"terminal", "pre_effect_cancelled"} /\ e.n # 0
  /\ Apply(s, e).attempts[d][i].actor = e.n
  /\ e.type = "terminal" => e.kind = "pre_effect" /\ Apply(s, e).attempts[d][i].terminal = "pre_effect"

LEMMA NoEffectEvent ==
  ASSUME NEW s \in SessionType, SessionOK(s), NEW e \in Event, Admissible(s, e), Fits(s, e),
         NEW d \in Delegations, NEW i \in DOMAIN Apply(s, e).attempts[d],
         NoEffect(Apply(s, e).attempts[d][i])
  PROVE  \/ /\ i \in DOMAIN s.attempts[d] /\ NoEffect(s.attempts[d][i])
            /\ Apply(s, e).attempts[d][i].actor = s.attempts[d][i].actor
            /\ Apply(s, e).attempts[d][i].terminal = s.attempts[d][i].terminal
         \/ Unended(s, d, i, e)
  <1> DEFINE t == Apply(s, e)
  <1>1. CASE t.attempts = s.attempts BY <1>1
  <1>2. CASE e.type = "reserved"
    <2> DEFINE q == s.attempts[e.d]
               p == Append(q, NewAttempt(e.n))
    <2>1. e.d \in Delegations BY <1>2, EventFields
    <2>2. t = [s EXCEPT !.attempts[e.d] = p] BY <1>2 DEF Apply
    <2>3. q \in Seq(AttemptRecord) /\ Len(q) \in Nat /\ DOMAIN q = 1 .. Len(q) BY <2>1, SessionFields
    <2>4. /\ DOMAIN p = 1 .. Len(q) + 1 /\ p[Len(q) + 1] = NewAttempt(e.n)
          /\ \A j \in 1 .. Len(q) : p[j] = q[j]
      <3> HIDE DEF q, AttemptRecord
      <3> QED BY <2>3
    <2>5. ~NoEffect(NewAttempt(e.n)) BY DEF NoEffect, NewAttempt
    <2> HIDE DEF p, t
    <2>6. t.attempts[e.d] = p /\ \A c \in Delegations : c # e.d => t.attempts[c] = s.attempts[c]
      BY <2>1, <2>2 DEF SessionType
    <2>7. i \in DOMAIN t.attempts[d] /\ NoEffect(t.attempts[d][i]) BY DEF t
    <2>8. i \in DOMAIN s.attempts[d] /\ t.attempts[d][i] = s.attempts[d][i]
      <3>1. CASE d # e.d BY <2>6, <2>7, <3>1
      <3>2. CASE d = e.d
        <4>1. i # Len(q) + 1 BY <2>4, <2>5, <2>6, <2>7, <3>2
        <4>2. i \in 1 .. Len(q) BY <2>3, <2>4, <2>6, <2>7, <3>2, <4>1
        <4> QED BY <2>3, <2>4, <2>6, <3>2, <4>2
      <3> QED BY <3>1, <3>2
    <2> QED BY <2>7, <2>8 DEF t
  <1>3. CASE \/ e.type \in {"launch_requested", "started", "terminal", "settled"}
             \/ e.type = "pre_effect_cancelled" /\ e.n # 0
    <2> DEFINE k == At(s, e.d, e.n)
               o == s.attempts[e.d][k]
    <2>1. /\ e.d \in Delegations /\ e.n \in 1..2 /\ k \in DOMAIN s.attempts[e.d]
          /\ o.actor = e.n
      BY <1>3, AttemptResult
    <2>2. PICK r, v : AttemptChange(s, t, e.d, k, r, v) /\ Becomes(e, o, r)
      <3> HIDE DEF Apply, Becomes, AttemptChange, Admissible, Fits
      <3> QED BY <1>3, AttemptResult
    <2>3. o = Attempt(s, e.d, e.n) BY DEF Attempt
    <2>a. i \in DOMAIN t.attempts[d] /\ NoEffect(t.attempts[d][i]) OBVIOUS
    <2> HIDE DEF t, k
    <2>4. /\ DOMAIN t.attempts[e.d] = DOMAIN s.attempts[e.d]
          /\ \A j \in DOMAIN s.attempts[e.d] : t.attempts[e.d][j] = IF j = k THEN r ELSE s.attempts[e.d][j]
          /\ \A c \in Delegations : c # e.d => t.attempts[c] = s.attempts[c]
      <3>1. r \in AttemptRecord BY <2>2 DEF Becomes
      <3> QED BY <2>1, <2>2, <3>1, ChangeAt
    <2>5. CASE d # e.d BY <2>4, <2>5, <2>a DEF t
    <2>6. CASE d = e.d /\ i # k BY <2>4, <2>6, <2>a DEF t
    <2>7. CASE d = e.d /\ i = k
      <3>1. t.attempts[d][i] = r /\ i \in DOMAIN s.attempts[d] /\ s.attempts[d][i] = o
        BY <2>1, <2>4, <2>7
      <3>2. NoEffect(r) /\ r.actor = e.n BY <2>1, <2>2, <2>a, <3>1 DEF Becomes
      <3>3. CASE e.type \notin {"terminal", "pre_effect_cancelled"}
        <4>1. NoEffect(o) /\ r.actor = o.actor /\ r.terminal = o.terminal BY <2>2, <3>2, <3>3 DEF NoEffect, Becomes
        <4> QED BY <3>1, <4>1 DEF t
      <3>4. CASE e.type = "terminal"
        <4>1. e.kind # "pre_effect" => o.started BY <2>3, <3>4 DEF Admissible
        <4>2. e.kind = "pre_effect" BY <2>2, <3>2, <3>4, <4>1 DEF NoEffect, Becomes
        <4>3. e.n # 0 BY <2>1
        <4>4. r.terminal = "pre_effect" BY <2>2, <3>4, <4>2 DEF Becomes
        <4> QED BY <2>7, <3>1, <3>2, <3>4, <4>2, <4>3, <4>4 DEF Unended, t
      <3>5. CASE e.type = "pre_effect_cancelled"
        <4>3. e.n # 0 BY <2>1
        <4> QED BY <2>7, <3>1, <3>2, <3>5, <4>3 DEF Unended, t
      <3> QED BY <3>3, <3>4, <3>5
    <2> QED BY <2>5, <2>6, <2>7
  <1>4. \/ e.type \in {"reserved", "launch_requested", "started", "terminal", "settled"}
        \/ e.type = "pre_effect_cancelled" /\ e.n # 0
        \/ t.attempts = s.attempts
    <2>1. CASE e.type = "pre_effect_cancelled" /\ e.n = 0
      <3>1. t = [s EXCEPT !.status[e.d] = "cancelled", !.attempts[e.d] = @] BY <2>1 DEF Apply
      <3> HIDE DEF t
      <3> QED BY <3>1 DEF SessionType
    <2>2. CASE e.type \in {"decided", "queued", "prepared", "accepted", "blocked", "cancel", "ready"}
      BY <2>2 DEF Apply, SessionType
    <2>3. CASE e.type \in {"slot_claimed", "slot_released", "claim_granted", "claim_released",
                           "barrier_requested", "barrier_suspended", "barrier_released",
                           "lease_acquired", "takeover"}
      BY <2>3 DEF Apply, SessionType
    <2>4. e.type \in {"decided", "queued", "prepared", "accepted", "blocked", "cancel", "reserved",
              "launch_requested", "started", "settled", "pre_effect_cancelled", "terminal", "ready",
              "claim_granted", "claim_released", "slot_released", "slot_claimed", "lease_acquired",
              "barrier_suspended", "barrier_requested", "barrier_released", "takeover"}
      BY EventFields
    <2> HIDE DEF t
    <2> QED BY <2>1, <2>2, <2>3, <2>4
  <1> QED BY <1>1, <1>2, <1>3, <1>4

-----------------------------------------------------------------------------
(* The append of one event. *)

\* A launch comes near a process only with an attempt that has just been bound.
LEMMA AppendKeeps ==
  ASSUME Inv, Goes, Types', NoEffectIsProven', UNCHANGED <<op, child>>,
         NEW g, NEW d,
         \A h \in Commands, e \in Delegations : LaunchOK(h, e)',
         \A h \in Commands, e \in Delegations : Danger(h, e)' =>
           /\ thr'[h][e].n = thr[h][e].n
           /\ Danger(h, e) \/ (h = g /\ e = d /\ ~IsBound(session, <<e, thr[h][e].n>>)),
         \A h \in Commands : CommandOK(h)', WriterOK'
  PROVE  Inv'
  <1>1. \A a \in Actors : Touched(a)
    <2>1. ASSUME NEW a \in Actors PROVE Touched(a) BY Untouched
    <2> QED BY <2>1
  <1>2. ActedIsStarted' /\ UnboundIsNew' /\ OperationOK' BY <1>1, RecordsKeep
  <1>3. ASSUME NEW h \in Commands, NEW e \in Delegations, Danger(h, e)
        PROVE  IsBound(session, <<e, thr[h][e].n>>)
    <2>1. LaunchOK(h, e) BY DEF Inv
    <2> QED BY <1>3, <2>1 DEF LaunchOK
  <1>4. ProvenIsOver'
    <2> SUFFICES ASSUME NEW a \in Actors, Proven(op, a)
                 PROVE  /\ child[a].state \in {"none", "dead"}
                        /\ \A h \in Commands : Danger(h, a[1])' => thr'[h][a[1]].n # a[2]
      BY DEF ProvenIsOver, Proven
    <2>1. a[1] \in Delegations /\ a = <<a[1], a[2]>> BY DEF Actors
    <2>2. /\ child[a].state \in {"none", "dead"}
          /\ \A h \in Commands : Danger(h, a[1]) => thr[h][a[1]].n # a[2]
      BY DEF Inv, ProvenIsOver
    <2>3. IsBound(session, a) BY DEF Inv, UnboundIsNew
    <2>4. ASSUME NEW h \in Commands, Danger(h, a[1])', thr'[h][a[1]].n = a[2] PROVE FALSE
      <3>1. PICK e, n : e \in Delegations /\ e = a[1] /\ n = a[2] /\ a = <<e, n>> BY <2>1
      <3>2. Danger(h, e)' /\ thr'[h][e].n = n BY <2>4, <3>1
      <3> HIDE DEF Danger, IsBound, LaunchOK, CommandOK, WriterOK
      <3>3. thr[h][e].n = n /\ (Danger(h, e) \/ ~IsBound(session, <<e, n>>)) BY <3>1, <3>2, ZenonT(60)
      <3> QED BY <2>2, <2>3, <3>1, <3>3
    <2> QED BY <2>2, <2>4
  <1>5. OneDanger'
    <2> SUFFICES ASSUME NEW h \in Commands, NEW k \in Commands, NEW e \in Delegations,
                        Danger(h, e)', Danger(k, e)', thr'[h][e].n = thr'[k][e].n
                 PROVE  h = k
      BY DEF OneDanger
    <2>1. Danger(h, e) /\ Danger(k, e) /\ thr[h][e].n = thr[k][e].n => h = k BY DEF Inv, OneDanger
    <2>2. PICK n : n = thr'[h][e].n OBVIOUS
    <2> HIDE DEF Danger, IsBound, LaunchOK, CommandOK, WriterOK
    <2>3. /\ n = thr[h][e].n
          /\ Danger(h, e) \/ (h = g /\ ~IsBound(session, <<e, n>>))
      BY <2>2
    <2>4. /\ n = thr[k][e].n
          /\ Danger(k, e) \/ (k = g /\ ~IsBound(session, <<e, n>>))
      BY <2>2
    <2>5. Danger(h, e) => IsBound(session, <<e, n>>) BY <1>3, <2>3
    <2>6. Danger(k, e) => IsBound(session, <<e, n>>) BY <1>3, <2>4
    <2> QED BY <2>1, <2>3, <2>4, <2>5, <2>6
  <1>6. SessionOK(session)' BY DEF Goes
  <1> HIDE DEF LaunchOK, CommandOK, WriterOK, Danger
  <1> QED BY <1>2, <1>4, <1>5, <1>6 DEF Inv

\* Who has the writer.
LEMMA WriterHolder ==
  ASSUME Inv, writer.by # 0
  PROVE  /\ writer \in WriterType /\ writer.by \in Commands
         /\ writer.of = 0 \/ writer.of \in Delegations
         /\ writer.of = 0 => CommandHolds(writer.by)
         /\ writer.of # 0 => LaunchHolds(writer.by, writer.of)
  <1>1. writer \in WriterType BY DEF Inv, Types
  <1>2. writer.by \in 0..MaxCommands /\ writer.of \in 0..NDelegations BY <1>1 DEF WriterType
  <1>3. writer.by \in Commands /\ (writer.of = 0 \/ writer.of \in Delegations)
    BY <1>2, DelegationAssumption DEF Commands, Delegations
  <1>4. WriterOK BY DEF Inv
  <1> HIDE DEF CommandHolds, LaunchHolds
  <1> QED BY <1>1, <1>3, <1>4 DEF WriterOK

LEMMA Heads ==
  ASSUME NEW q \in Seq(Event), q # <<>>
  PROVE  /\ Head(q) \in Event /\ 1 \in DOMAIN q /\ Head(q) = q[1]
         /\ Tail(q) \in Seq(Event) /\ Len(q) \in Nat /\ Len(q) >= 1
         /\ Len(q) > 1 => Tail(q) # <<>>
  <1> HIDE DEF Event
  <1> QED OBVIOUS

\* The event that is next may come.
LEMMA HeadFits ==
  ASSUME Inv, writer.by # 0, writer.todo # <<>>
  PROVE  /\ Head(writer.todo) \in Event /\ Fits(session, Head(writer.todo))
         /\ EventOK(writer, session, op, Head(writer.todo))
  <1>0. PICK e : e = Head(writer.todo) OBVIOUS
  <1>1. writer.todo \in Seq(Event) BY DEF Inv, Types, WriterType
  <1>2. e \in Event /\ 1 \in DOMAIN writer.todo /\ e = writer.todo[1] BY <1>0, <1>1, Heads
  <1>3. EventOK(writer, session, op, e)
    <2>1. WriterOK BY DEF Inv
    <2> HIDE DEF EventOK
    <2> QED BY <1>2, <2>1 DEF WriterOK
  <1>4. ASSUME e.type \in {"reserved", "launch_requested", "started"}
        PROVE  /\ e.n \in 1..2
               /\ e.type = "reserved" => session.claimed[e.d][e.n] # 0 /\ e.n <= session.envelopes[e.d]
               /\ e.type # "reserved" => Has(session, e.d, e.n)
    <2>1. writer.of # 0 /\ writer.then = IF e.type = "started" THEN "sending" ELSE "spawn"
      BY <1>3, <1>4 DEF EventOK
    <2>2. PICK g \in Commands, d \in Delegations : g = writer.by /\ d = writer.of /\ LaunchHolds(g, d)
      <3> HIDE DEF LaunchHolds, CommandHolds
      <3> QED BY <2>1, WriterHolder
    <2>3. thr[g][d].pc = "holding" /\ cmd[g].pc = "run" BY <2>2 DEF LaunchHolds
    <2>4. PICK n : n = thr[g][d].n OBVIOUS
    <2>5. LaunchOK(g, d) BY DEF Inv
    <2>6. n \in 1..2 /\ n <= session.envelopes[d] BY <2>3, <2>4, <2>5 DEF LaunchOK
    <2>7. IsClaimed(session, <<d, n>>) BY <2>1, <2>3, <2>4, <2>5 DEF LaunchOK
    <2>8. CASE e.type = "started"
      <3>1. writer.todo = <<OfAttempt("started", <<d, n>>)>>
        BY <2>1, <2>2, <2>4, <2>8 DEF LaunchHolds
      <3>2. e.d = d /\ e.n = n BY <1>2, <3>1 DEF OfAttempt
      <3>3. Danger(g, d) BY <2>1, <2>3, <2>8 DEF Danger
      <3>4. IsBound(session, <<d, n>>) BY <2>4, <2>5, <3>3 DEF LaunchOK
      <3> QED BY <2>6, <2>8, <3>2, <3>4 DEF IsBound, HasAttempt
    <2>9. CASE e.type # "started"
      <3>1. \/ writer.todo = <<OfAttempt("reserved", <<d, n>>), OfAttempt("launch_requested", <<d, n>>)>>
            \/ /\ HasAttempt(session, <<d, n>>)
               /\ writer.todo = <<OfAttempt("launch_requested", <<d, n>>)>>
        <4> HIDE DEF HasAttempt
        <4> QED BY <2>1, <2>2, <2>4, <2>9 DEF LaunchHolds
      <3>2. \/ e = OfAttempt("reserved", <<d, n>>)
            \/ HasAttempt(session, <<d, n>>) /\ e = OfAttempt("launch_requested", <<d, n>>)
        <4> HIDE DEF HasAttempt
        <4> QED BY <1>2, <3>1
      <3>3. /\ e.d = d /\ e.n = n
            /\ e.type = "reserved" \/ (e.type = "launch_requested" /\ HasAttempt(session, <<d, n>>))
        <4> HIDE DEF HasAttempt
        <4> QED BY <3>2 DEF OfAttempt
      <3> QED BY <2>6, <2>7, <3>3 DEF HasAttempt, IsClaimed
    <2> QED BY <2>8, <2>9
  <1>5. ASSUME e.type \in {"terminal", "ready", "settled"} PROVE e.n \in 1..2 /\ Has(session, e.d, e.n)
    <2>1. Has(session, e.d, e.n) BY <1>3, <1>5 DEF EventOK
    <2>2. e.d \in Delegations BY <1>2, <1>5, EventFields
    <2> QED BY <2>1, <2>2, HasInRange DEF Inv, Types
  <1>6. Fits(session, e)
    <2> HIDE DEF Has
    <2> QED BY <1>3, <1>4, <1>5 DEF Fits, EventOK
  <1> QED BY <1>0, <1>2, <1>3, <1>6

\* What becomes of the session.
LEMMA AppendGoes ==
  ASSUME Inv, writer.by # 0, writer.todo # <<>>, Admissible(session, Head(writer.todo)),
         session' = Apply(session, Head(writer.todo)), UNCHANGED op
  PROVE  Goes /\ NoEffectIsProven'
  <1>0. PICK e : e = Head(writer.todo) OBVIOUS
  <1>1. e \in Event /\ Fits(session, e) /\ EventOK(writer, session, op, e) BY <1>0, HeadFits
  <1>2. session \in SessionType /\ SessionOK(session) BY DEF Inv, Types
  <1>3. Goes
    <2>1. Follows(session, Apply(session, e))
      <3> HIDE DEF Apply, Admissible, Fits, Follows, SessionType
      <3> QED BY <1>0, <1>1, <1>2, ApplyFollows
    <2>2. session' = Apply(session, e) BY <1>0
    <2> HIDE DEF Apply
    <2> QED BY <2>1, <2>2 DEF Follows, Goes
  <1>4. NoEffectIsProven'
    <2> SUFFICES ASSUME NEW d \in Delegations, NEW i \in DOMAIN session'.attempts[d],
                        NoEffect(session'.attempts[d][i])
                 PROVE  Proven(op, <<d, session'.attempts[d][i].actor>>)
      BY DEF NoEffectIsProven, Proven
    <2>1. session' = Apply(session, e) BY <1>0
    <2>2. \/ /\ i \in DOMAIN session.attempts[d] /\ NoEffect(session.attempts[d][i])
             /\ session'.attempts[d][i].actor = session.attempts[d][i].actor
          \/ Unended(session, d, i, e)
      <3> HIDE DEF Apply, Admissible, Fits, NoEffect, Unended, SessionType
      <3> QED BY <1>0, <1>1, <1>2, <2>1, NoEffectEvent
    <2>3. CASE /\ i \in DOMAIN session.attempts[d] /\ NoEffect(session.attempts[d][i])
               /\ session'.attempts[d][i].actor = session.attempts[d][i].actor
      BY <2>3 DEF Inv, NoEffectIsProven
    <2>4. CASE Unended(session, d, i, e)
      <3>1. /\ d = e.d /\ session'.attempts[d][i].actor = e.n /\ e.n # 0
            /\ e.type \in {"terminal", "pre_effect_cancelled"}
            /\ e.type = "terminal" => e.kind = "pre_effect"
        BY <2>1, <2>4 DEF Unended
      <3>2. Proven(op, <<e.d, e.n>>) BY <1>1, <3>1 DEF EventOK
      <3> QED BY <3>1, <3>2
    <2> QED BY <2>2, <2>3, <2>4
  <1> QED BY <1>3, <1>4

\* What the event leaves for the one who waits for it.
Lands(type, a) ==
  /\ type = "settled" => IsSettled(session', a)
  /\ type = "slot_claimed" => IsClaimed(session', a)
  /\ type = "reserved" => HasAttempt(session', a)
  /\ type = "launch_requested" => IsBound(session', a) /\ ~IsBound(session, a)
  /\ type = "started" => IsStarted(session', a) /\ a[1] \notin session'.cancels

LEMMA AppendLands ==
  ASSUME Inv, writer.by # 0, writer.todo # <<>>, Admissible(session, Head(writer.todo)),
         session' = Apply(session, Head(writer.todo))
  PROVE  Lands(Head(writer.todo).type, <<Head(writer.todo).d, Head(writer.todo).n>>)
  <1>0. PICK e : e = Head(writer.todo) OBVIOUS
  <1>1. e \in Event /\ Fits(session, e) BY <1>0, HeadFits
  <1>2. session \in SessionType /\ SessionOK(session) BY DEF Inv, Types
  <1>3. Admissible(session, e) /\ session' = Apply(session, e) BY <1>0
  <1> HIDE DEF Admissible, Apply, Fits, SessionType, SessionOK
  <1>4. /\ e.type = "settled" => IsSettled(session', <<e.d, e.n>>)
        /\ e.type = "launch_requested" => IsBound(session', <<e.d, e.n>>) /\ ~IsBound(session, <<e.d, e.n>>)
        /\ e.type = "started" => IsStarted(session', <<e.d, e.n>>) /\ e.d \notin session'.cancels
    <2> HIDE DEF IsSettled, IsBound, IsStarted
    <2> QED BY <1>1, <1>2, <1>3, EventEffect
  <1>5. e.type = "reserved" => HasAttempt(session', <<e.d, e.n>>)
    BY <1>1, <1>2, <1>3, ReservedHas DEF HasAttempt
  <1>6. e.type = "slot_claimed" => IsClaimed(session', <<e.d, e.n>>)
    <2> HIDE DEF IsClaimed
    <2> QED BY <1>1, <1>2, <1>3, SlotClaims
  <1> HIDE DEF IsSettled, IsBound, IsStarted, HasAttempt, IsClaimed
  <1>7. Lands(e.type, <<e.d, e.n>>) BY <1>4, <1>5, <1>6 DEF Lands
  <1> QED BY <1>0, <1>7

\* While somebody holds the writer nobody else does.
LEMMA OthersDoNotHold ==
  ASSUME Inv, writer.by # 0
  PROVE  /\ \A h \in Commands, e \in Delegations : h # writer.by \/ e # writer.of =>
              thr[h][e].pc \notin {"holding", "sending"}
         /\ \A h \in Commands : h # writer.by \/ writer.of # 0 => cmd[h].pc # "holding"
  <1>1. ASSUME NEW h \in Commands, NEW e \in Delegations, h # writer.by \/ e # writer.of
        PROVE  thr[h][e].pc \notin {"holding", "sending"}
    <2>1. LaunchOK(h, e) BY DEF Inv
    <2> QED BY <1>1, <2>1 DEF LaunchOK
  <1>2. ASSUME NEW h \in Commands, h # writer.by \/ writer.of # 0 PROVE cmd[h].pc # "holding"
    <2>1. CommandOK(h) BY DEF Inv
    <2> QED BY <1>2, <2>1 DEF CommandOK
  <1> QED BY <1>1, <1>2

LEMMA FreeIsOK ==
  ASSUME writer' = Free PROVE WriterOK' BY DEF WriterOK, Free, Commands

\* The launch that held the writer goes on without it.
LEMMA LaunchLets ==
  ASSUME Inv, Goes, NoEffectIsProven', NEW g \in Commands, NEW d \in Delegations,
         writer.by = g, writer.of = d, writer.todo # <<>>, writer' = Free,
         NEW to \in LaunchSteps \ {"idle", "holding", "sending", "handshake", "start", "wait"},
         Goto(g, d, to), UNCHANGED <<lease, op, child, gone, crashes>>,
         NEW n, n = thr[g][d].n,
         to \in Near => IsBound(session', <<d, n>>) /\ (Danger(g, d) \/ ~IsBound(session, <<d, n>>)),
         to = "rejected" \/ IsClaimed(session', <<d, n>>),
         to \in AfterLaunch => HasAttempt(session', <<d, n>>),
         to \in {"reconcile", "settle"} => IsSettled(session', <<d, n>>)
  PROVE  Inv'
  <1>0. writer.by # 0 /\ writer.of # 0 BY DEF Commands, Delegations
  <1>1. LaunchHolds(g, d) BY DEF Inv, WriterOK
  <1>2. cmd[g].pc = "run" /\ thr[g][d].pc = "holding" BY <1>1 DEF LaunchHolds
  <1>3. LaunchOK(g, d) /\ Types BY DEF Inv
  <1>4. UNCHANGED cmd /\ \E t \in LaunchType : Moves(g, d, t) /\ t.pc = to /\ t.n = n
    BY GotoLaunch
  <1>5. PICK t \in LaunchType : Moves(g, d, t) /\ t.pc = to /\ t.n = n BY <1>4
  <1>6. /\ thr' \in [Commands -> [Delegations -> LaunchType]]
        /\ thr'[g][d] = t
        /\ \A h \in Commands, e \in Delegations : h # g \/ e # d => thr'[h][e] = thr[h][e]
    BY <1>3, <1>5, ThrUpdate
  <1>7. Free \in WriterType BY FreeWriter
  <1>8. Types' BY <1>3, <1>4, <1>6, <1>7 DEF Types, Goes
  <1>9. ASSUME NEW h \in Commands, NEW e \in Delegations, h # g \/ e # d
        PROVE  LaunchOK(h, e)' /\ (Danger(h, e)' <=> Danger(h, e))
    <2>1. thr[h][e].pc \notin {"holding", "sending"} BY <1>0, <1>9, OthersDoNotHold
    <2>2. thr'[h][e] = thr[h][e] BY <1>6, <1>9
    <2> QED BY <1>4, <2>1, <2>2, LaunchFrame
  <1>10. n \in 1..2 /\ n <= session.envelopes[d] /\ d \in cmd[g].adm BY <1>2, <1>3 DEF LaunchOK
  <1>11. n <= session'.envelopes[d]
    <2>1. session.envelopes[d] <= session'.envelopes[d] BY <1>3, GoesKeeps
    <2>2. session.envelopes[d] \in 0..2 /\ session'.envelopes[d] \in 0..2
      BY <1>3, SessionFields DEF Types, Goes
    <2> QED BY <1>10, <2>1, <2>2
  <1>12. Danger(g, d)' <=> to \in Near BY <1>5, <1>6 DEF Danger, Near
  <1>13. <<d, thr'[g][d].n>> = <<d, n>> BY <1>5, <1>6
  <1>14. LaunchOK(g, d)'
    <2> HIDE DEF HasAttempt, IsBound, IsStarted, IsSettled, IsClaimed, Danger
    <2>1. to \notin {"idle", "holding", "sending"} /\ thr'[g][d].pc = to BY <1>5, <1>6
    <2> QED BY <1>2, <1>4, <1>10, <1>11, <1>12, <1>13, <2>1 DEF LaunchOK
  <1>15. ASSUME NEW h \in Commands, NEW e \in Delegations, Danger(h, e)'
         PROVE  /\ thr'[h][e].n = thr[h][e].n
                /\ Danger(h, e) \/ (h = g /\ e = d /\ ~IsBound(session, <<e, thr[h][e].n>>))
    <2>1. CASE h = g /\ e = d
      <3>1. to \in Near BY <1>12, <1>15, <2>1
      <3> HIDE DEF Danger, IsBound
      <3> QED BY <1>5, <1>6, <2>1, <3>1
    <2>2. CASE h # g \/ e # d
      <3> HIDE DEF LaunchOK, Danger, IsBound
      <3> QED BY <1>6, <1>9, <1>15, <2>2
    <2> QED BY <2>1, <2>2
  <1>16. ASSUME NEW h \in Commands PROVE CommandOK(h)'
    <2>1. cmd[h].pc # "holding" BY <1>0, OthersDoNotHold
    <2> QED BY <1>4, <2>1, CommandFrame
  <1>17. WriterOK' BY FreeIsOK
  <1> HIDE DEF LaunchOK, CommandOK, Danger, IsBound, WriterOK
  <1>18. \A h \in Commands, e \in Delegations : LaunchOK(h, e)' BY <1>9, <1>14
  <1> QED BY <1>8, <1>15, <1>16, <1>17, <1>18, AppendKeeps

\* The command that held the writer goes on without it.
LEMMA CommandLets ==
  ASSUME Inv, Goes, NoEffectIsProven', NEW g \in Commands,
         writer.by = g, writer.of = 0, writer.todo # <<>>, writer' = Free,
         NEW to, to = writer.then \/ to = "done", Goto(g, 0, to),
         UNCHANGED <<lease, op, child, gone, crashes>>,
         to = "run" => \A e \in cmd[g].adm : IsClaimed(session', <<e, thr[g][e].n>>),
         to = "reclaim" => IsSettled(session', <<cmd[g].sel, cmd[g].n>>)
  PROVE  Inv'
  <1>0. writer.by # 0 BY DEF Commands
  <1>1. CommandHolds(g) /\ CommandOK(g) /\ Types BY DEF Inv, WriterOK
  <1>2. cmd[g].pc = "holding" /\ to \in {"run", "release", "done", "read", "reclaim", "yield"}
    BY <1>1 DEF CommandHolds
  <1>3. Free \in WriterType BY FreeWriter
  <1>4. ASSUME NEW h \in Commands, NEW e \in Delegations
        PROVE  thr[h][e].pc \notin {"holding", "sending"}
    <2>1. e # writer.of BY DEF Delegations
    <2> QED BY <1>0, <2>1, OthersDoNotHold
  <1>5. /\ thr' \in [Commands -> [Delegations -> LaunchType]] /\ cmd' \in [Commands -> CommandType]
        /\ \A h \in Commands : h # g => thr'[h] = thr[h] /\ cmd'[h] = cmd[h]
        /\ cmd'[g].pc = to
        /\ to = "done" => \A e \in Delegations : thr'[g][e].pc = "idle"
        /\ to # "done" => /\ thr' = thr /\ cmd'[g].sel = cmd[g].sel /\ cmd'[g].n = cmd[g].n
                          /\ cmd'[g].adm = cmd[g].adm /\ cmd'[g].grp = cmd[g].grp
    <2>1. CASE to = "done"
      <3>1. Over(g) BY <2>1 DEF Goto
      <3>2. PICK c \in CommandType : Comes(g, c) /\ c.pc = "done" BY <3>1, OverFacts
      <3>3. Quits(g) BY <3>1, OverFacts
      <3>4. /\ cmd' \in [Commands -> CommandType] /\ cmd'[g] = c
            /\ \A h \in Commands : h # g => cmd'[h] = cmd[h]
        BY <3>2, ComesFacts
      <3>5. /\ thr' \in [Commands -> [Delegations -> LaunchType]]
            /\ \A e \in Delegations : thr'[g][e].pc = "idle"
            /\ \A h \in Commands : h # g => thr'[h] = thr[h]
        BY <3>3, QuitsLaunches
      <3> HIDE DEF CommandType, LaunchType
      <3> QED BY <2>1, <3>2, <3>4, <3>5
    <2>2. CASE to # "done"
      <3> DEFINE c == [cmd[g] EXCEPT !.pc = to]
      <3>1. cmd[g] \in CommandType BY CommandKnows
      <3>2. /\ c \in CommandType /\ c.pc = to /\ c.sel = cmd[g].sel /\ c.n = cmd[g].n
            /\ c.adm = cmd[g].adm /\ c.grp = cmd[g].grp
        <4>1. to \in CommandSteps BY <1>2 DEF CommandSteps
        <4> QED BY <3>1, <4>1 DEF CommandType
      <3>3. Comes(g, c) /\ thr' = thr BY <2>2 DEF Goto, Comes
      <3> HIDE DEF c
      <3>4. /\ cmd' \in [Commands -> CommandType] /\ cmd'[g] = c
            /\ \A h \in Commands : h # g => cmd'[h] = cmd[h]
        BY <3>2, <3>3, ComesFacts
      <3>5. thr \in [Commands -> [Delegations -> LaunchType]] BY <1>1 DEF Types
      <3> HIDE DEF CommandType, LaunchType
      <3> QED BY <2>2, <3>2, <3>3, <3>4, <3>5
    <2> QED BY <2>1, <2>2
  <1>6. Types' BY <1>1, <1>3, <1>5 DEF Types, Goes
  <1>7. ASSUME NEW h \in Commands, NEW e \in Delegations, h # g
        PROVE  LaunchOK(h, e)' /\ (Danger(h, e)' <=> Danger(h, e))
    <2>1. thr[h][e].pc \notin {"holding", "sending"} BY <1>4
    <2>2. thr'[h][e] = thr[h][e] /\ cmd'[h] = cmd[h] BY <1>5, <1>7
    <2> QED BY <2>1, <2>2, LaunchFrame
  <1>8. ASSUME NEW e \in Delegations
        PROVE  /\ LaunchOK(g, e)'
               /\ Danger(g, e)' => Danger(g, e) /\ thr'[g][e].n = thr[g][e].n
    <2>1. CASE thr'[g][e].pc = "idle"
      <3> HIDE DEF LaunchOK, Danger
      <3> QED BY <2>1, IdleIsOK
    <2>2. CASE thr'[g][e].pc # "idle"
      <3>1. to # "done" /\ thr' = thr BY <1>5, <2>2
      <3>2. PICK n : n = thr[g][e].n OBVIOUS
      <3>3. LaunchOK(g, e) BY DEF Inv
      <3>4. n \in 1..2 /\ n <= session.envelopes[e] /\ e \in cmd[g].adm
        BY <2>2, <3>1, <3>2, <3>3 DEF LaunchOK
      <3>5. /\ HasAttempt(session, <<e, n>>) => HasAttempt(session', <<e, n>>)
            /\ IsBound(session, <<e, n>>) => IsBound(session', <<e, n>>)
            /\ IsSettled(session, <<e, n>>) => IsSettled(session', <<e, n>>)
            /\ session.envelopes[e] <= session'.envelopes[e]
        <4> HIDE DEF HasAttempt, IsBound, IsSettled
        <4> QED BY <1>1, GoesKeeps
      <3>6. session.envelopes[e] \in 0..2 /\ session'.envelopes[e] \in 0..2
        BY <1>1, SessionFields DEF Types, Goes
      <3>7. n <= session'.envelopes[e] BY <3>4, <3>5, <3>6
      <3>8. to \in {"run", "release"}
        <4>1. thr[g][e].pc # "idle" BY <2>2, <3>1
        <4> QED BY <1>1, <1>2, <3>1, <4>1 DEF CommandHolds
      <3>9. thr[g][e].pc \notin {"holding", "sending"} BY <1>4
      <3>10. Danger(g, e)' <=> Danger(g, e) BY <3>1, <3>9 DEF Danger
      <3>11. to = "run" => IsClaimed(session', <<e, n>>)
        <4> HIDE DEF IsClaimed
        <4> QED BY <3>2, <3>4
      <3>12. LaunchOK(g, e)'
        <4>1. thr'[g][e] = thr[g][e] BY <3>1
        <4>2. <<e, thr'[g][e].n>> = <<e, n>> BY <3>1, <3>2
        <4> HIDE DEF HasAttempt, IsBound, IsStarted, IsSettled, IsClaimed, Danger
        <4> QED BY <1>5, <3>1, <3>2, <3>3, <3>4, <3>5, <3>7, <3>8, <3>9, <3>10, <3>11, <4>1, <4>2
            DEF LaunchOK
      <3> HIDE DEF LaunchOK, Danger
      <3> QED BY <3>1, <3>10, <3>12
    <2> QED BY <2>1, <2>2
  <1>9. ASSUME NEW h \in Commands PROVE CommandOK(h)'
    <2>1. CASE h # g
      <3>1. cmd[h].pc # "holding" BY <1>0, <2>1, OthersDoNotHold
      <3>2. cmd'[h] = cmd[h] BY <1>5, <2>1
      <3> QED BY <3>1, <3>2, CommandFrame
    <2>2. CASE h = g /\ to = "done" BY <1>5, <2>2 DEF CommandOK
    <2>3. CASE h = g /\ to # "done"
      <3>1. cmd[g].sel \in Delegations BY <1>1, <1>2 DEF CommandOK
      <3>2. to = "reclaim" => cmd[g].n \in 1..2 /\ HasAttempt(session, <<cmd[g].sel, cmd[g].n>>)
        <4> HIDE DEF HasAttempt, IsSettled
        <4> QED BY <1>1, <1>2, <2>3 DEF CommandOK
      <3>3. to = "yield" => cmd[g].grp \in Commands
        <4> HIDE DEF HasAttempt, IsSettled
        <4> QED BY <1>1, <1>2, <2>3 DEF CommandOK
      <3>4. HasAttempt(session, <<cmd[g].sel, cmd[g].n>>) => HasAttempt(session', <<cmd[g].sel, cmd[g].n>>)
        BY <1>1, <3>1, GoesKeeps
      <3>5. <<cmd'[g].sel, cmd'[g].n>> = <<cmd[g].sel, cmd[g].n>> BY <1>5, <2>3
      <3> HIDE DEF HasAttempt, IsSettled
      <3> QED BY <1>2, <1>5, <2>3, <3>1, <3>2, <3>3, <3>4, <3>5 DEF CommandOK
    <2> QED BY <2>1, <2>2, <2>3
  <1>10. WriterOK' BY FreeIsOK
  <1>11. ASSUME NEW h \in Commands, NEW e \in Delegations, Danger(h, e)'
         PROVE  thr'[h][e].n = thr[h][e].n /\ Danger(h, e)
    <2> HIDE DEF LaunchOK, Danger
    <2> QED BY <1>5, <1>7, <1>8, <1>11
  <1> HIDE DEF LaunchOK, CommandOK, Danger, IsBound, WriterOK
  <1>12. \A h \in Commands, e \in Delegations : LaunchOK(h, e)' BY <1>7, <1>8
  <1> QED BY <1>6, <1>9, <1>10, <1>11, <1>12, AppendKeeps

\* What is still to come, when the first event has been appended.
LEMMA PendingOne ==
  ASSUME NEW q \in Seq(Event), Len(q) = 1, NEW type, NEW a, Pending(q, type, a)
  PROVE  Head(q).type = type /\ Head(q).d = a[1] /\ Head(q).n = a[2]
  <1>1. PICK i \in DOMAIN q : q[i].type = type /\ q[i].d = a[1] /\ q[i].n = a[2] BY DEF Pending
  <1> HIDE DEF Event
  <1>2. i = 1 /\ Head(q) = q[1] OBVIOUS
  <1> QED BY <1>1, <1>2

LEMMA Tails ==
  ASSUME NEW q \in Seq(Event), Len(q) > 1
  PROVE  /\ Tail(q) \in Seq(Event) /\ Tail(q) # <<>>
         /\ \A i \in DOMAIN Tail(q) : i + 1 \in DOMAIN q /\ Tail(q)[i] = q[i + 1]
  <1> HIDE DEF Event
  <1>1. Len(q) \in Nat /\ q # <<>> OBVIOUS
  <1>2. Tail(q) \in Seq(Event) /\ Len(Tail(q)) = Len(q) - 1 BY <1>1
  <1>3. Tail(q) # <<>> BY <1>1, Heads
  <1>4. ASSUME NEW i \in DOMAIN Tail(q) PROVE i + 1 \in DOMAIN q /\ Tail(q)[i] = q[i + 1]
    BY <1>1, <1>2
  <1> QED BY <1>2, <1>3, <1>4

LEMMA PendingTail ==
  ASSUME NEW q \in Seq(Event), Len(q) > 1, NEW type, NEW a, Pending(q, type, a)
  PROVE  \/ Head(q).type = type /\ Head(q).d = a[1] /\ Head(q).n = a[2]
         \/ Pending(Tail(q), type, a)
  <1>1. PICK i \in DOMAIN q : q[i].type = type /\ q[i].d = a[1] /\ q[i].n = a[2] BY DEF Pending
  <1> HIDE DEF Event
  <1>2. CASE i = 1
    <2>1. Head(q) = q[1] OBVIOUS
    <2> QED BY <1>1, <1>2, <2>1
  <1>3. CASE i # 1
    <2>1. i - 1 \in DOMAIN Tail(q) /\ Tail(q)[i - 1] = q[i] BY <1>3
    <2> QED BY <1>1, <2>1 DEF Pending
  <1> QED BY <1>2, <1>3

\* The hold of the writer goes on.
GoesOn(w) == /\ writer' = w /\ w.by = writer.by /\ w.of = writer.of
             /\ w.then = writer.then /\ w.refused = writer.refused

\* What the tail of the list is still good for.
LEMMA StillComes ==
  ASSUME Inv, Goes, writer.by # 0, Len(writer.todo) > 1, NEW q, q = Tail(writer.todo),
         Lands(Head(writer.todo).type, <<Head(writer.todo).d, Head(writer.todo).n>>),
         NEW d \in Delegations, NEW n \in 1..2
  PROVE  /\ \/ IsClaimed(session, <<d, n>>)
            \/ Pending(writer.todo, "slot_claimed", <<d, n>>)
            => IsClaimed(session', <<d, n>>) \/ Pending(q, "slot_claimed", <<d, n>>)
         /\ \/ IsSettled(session, <<d, n>>)
            \/ Pending(writer.todo, "settled", <<d, n>>)
            => IsSettled(session', <<d, n>>) \/ Pending(q, "settled", <<d, n>>)
  <1>1. writer.todo \in Seq(Event) BY DEF Inv, Types, WriterType
  <1>2. PICK e : e = Head(writer.todo) OBVIOUS
  <1>3. /\ IsClaimed(session, <<d, n>>) => IsClaimed(session', <<d, n>>)
        /\ IsSettled(session, <<d, n>>) => IsSettled(session', <<d, n>>)
    BY GoesKeeps DEF Inv
  <1> DEFINE Now1(type) == e.type = type /\ e.d = d /\ e.n = n
  <1>4. ASSUME NEW type, Pending(writer.todo, type, <<d, n>>)
        PROVE  Now1(type) \/ Pending(q, type, <<d, n>>)
    <2> HIDE DEF Event, Pending
    <2> QED BY <1>1, <1>2, <1>4, PendingTail
  <1>5. Now1("slot_claimed") => IsClaimed(session', <<d, n>>)
    <2> HIDE DEF IsClaimed
    <2> QED BY <1>2 DEF Lands
  <1>6. Now1("settled") => IsSettled(session', <<d, n>>)
    <2> HIDE DEF IsSettled
    <2> QED BY <1>2 DEF Lands
  <1> HIDE DEF Now1, IsClaimed, IsSettled, Pending
  <1> QED BY <1>3, <1>4, <1>5, <1>6

LEMMA AppendMore ==
  ASSUME Inv, Goes, NoEffectIsProven', writer.by # 0, Len(writer.todo) > 1,
         Lands(Head(writer.todo).type, <<Head(writer.todo).d, Head(writer.todo).n>>),
         writer' = [writer EXCEPT !.todo = Tail(@)],
         UNCHANGED <<lease, op, child, cmd, thr, gone, crashes>>
  PROVE  Inv'
  <1>1. PICK g \in Commands : g = writer.by BY WriterHolder
  <1>2. PICK q : q = Tail(writer.todo) OBVIOUS
  <1>3. writer.todo \in Seq(Event) /\ writer.todo # <<>> /\ writer \in WriterType
    BY DEF Inv, Types, WriterType
  <1>4. q \in Seq(Event) /\ q # <<>> /\ \A i \in DOMAIN q : i + 1 \in DOMAIN writer.todo /\ q[i] = writer.todo[i + 1]
    <2> HIDE DEF Event
    <2> QED BY <1>2, <1>3, Tails
  <1>5. PICK w \in WriterType : GoesOn(w) /\ w.todo = q
    <2> DEFINE w == [writer EXCEPT !.todo = Tail(@)]
    <2>1. w \in WriterType /\ w.todo = q
      <3> HIDE DEF Event, Steps
      <3> QED BY <1>2, <1>3, <1>4 DEF WriterType
    <2>2. GoesOn(w)
      <3> HIDE DEF Event, Steps
      <3> QED BY <1>3 DEF GoesOn, WriterType
    <2> QED BY <2>1, <2>2
  <1>6. /\ writer' = w /\ w.by = g /\ w.of = writer.of /\ w.then = writer.then
        /\ w.refused = writer.refused
    BY <1>1, <1>5 DEF GoesOn
  <1> HIDE DEF Event, WriterType
  <1>7. Types' BY <1>5, <1>6 DEF Inv, Types, Goes
  <1>8. ASSUME NEW h \in Commands, NEW e \in Delegations
        PROVE  LaunchOK(h, e)' /\ (Danger(h, e)' <=> Danger(h, e))
    <2>1. CASE thr[h][e].pc # "holding"
      <3>1. LaunchOK(h, e) BY DEF Inv
      <3>2. thr[h][e].pc # "sending" BY <1>3, <3>1 DEF LaunchOK
      <3> QED BY <2>1, <3>2, LaunchFrame
    <2>2. CASE thr[h][e].pc = "holding"
      <3>1. LaunchOK(h, e) BY DEF Inv
      <3>2. PICK n : n = thr[h][e].n OBVIOUS
      <3>3. Danger(h, e)' <=> Danger(h, e) BY <1>6 DEF Danger
      <3>4. n \in 1..2 BY <2>2, <3>1, <3>2 DEF LaunchOK
      <3>5. /\ HasAttempt(session, <<e, n>>) => HasAttempt(session', <<e, n>>)
            /\ IsBound(session, <<e, n>>) => IsBound(session', <<e, n>>)
            /\ IsClaimed(session, <<e, n>>) => IsClaimed(session', <<e, n>>)
            /\ session.envelopes[e] <= session'.envelopes[e]
        BY <3>4, GoesKeeps DEF Inv
      <3>6. session.envelopes[e] \in 0..2 /\ session'.envelopes[e] \in 0..2
        BY SessionFields DEF Inv, Types, Goes
      <3>7. <<e, thr'[h][e].n>> = <<e, n>> BY <3>2
      <3> HIDE DEF HasAttempt, IsBound, IsStarted, IsSettled, IsClaimed, Danger
      <3>8. LaunchOK(h, e)'
        BY <1>4, <1>5, <1>6, <2>2, <3>1, <3>2, <3>3, <3>4, <3>5, <3>6, <3>7 DEF LaunchOK
      <3> QED BY <3>3, <3>8
    <2> QED BY <2>1, <2>2
  <1>9. ASSUME NEW h \in Commands PROVE CommandOK(h)'
    <2>1. CASE cmd[h].pc # "holding" BY <2>1, CommandFrame
    <2>2. CASE cmd[h].pc = "holding"
      <3>1. CommandOK(h) /\ cmd[h].sel \in Delegations BY <2>2 DEF Inv, CommandOK
      <3>2. HasAttempt(session, <<cmd[h].sel, cmd[h].n>>) => HasAttempt(session', <<cmd[h].sel, cmd[h].n>>)
        BY <3>1, GoesKeeps DEF Inv
      <3>3. writer.by = h /\ writer.of = 0 BY <2>2, <3>1 DEF CommandOK
      <3>4. writer'.by = h /\ writer'.of = 0 /\ writer'.todo # <<>> /\ writer'.then = writer.then
        BY <1>1, <1>4, <1>5, <1>6, <3>3
      <3>5. cmd'[h] = cmd[h] OBVIOUS
      <3> HIDE DEF HasAttempt, IsSettled
      <3>6. writer.then \in {"recover", "reclaim"} =>
              cmd[h].n \in 1..2 /\ HasAttempt(session, <<cmd[h].sel, cmd[h].n>>)
        BY <2>2, <3>1 DEF CommandOK
      <3>7. writer.then \in {"seize", "adopt", "yield"} => cmd[h].grp \in Commands
        BY <2>2, <3>1 DEF CommandOK
      <3> QED BY <2>2, <3>1, <3>2, <3>4, <3>5, <3>6, <3>7 DEF CommandOK
    <2> QED BY <2>1, <2>2
  <1>10. ProvenStays BY DEF ProvenStays, Proven
  <1>11. \A i \in DOMAIN q : EventOK(w, session', op', q[i])
    <2> SUFFICES ASSUME NEW i \in DOMAIN q PROVE EventOK(w, session', op', q[i]) OBVIOUS
    <2>1. i + 1 \in DOMAIN writer.todo /\ q[i] = writer.todo[i + 1] BY <1>4
    <2>2. q[i] \in Event BY <1>4
    <2>3. EventOK(writer, session, op, q[i])
      <3>1. WriterOK BY DEF Inv
      <3> HIDE DEF EventOK
      <3> QED BY <2>1, <3>1 DEF WriterOK
    <2>4. EventOK(w, session, op, q[i]) BY <1>6, <2>3 DEF EventOK
    <2> QED BY <1>10, <2>2, <2>4, EventFrame
  <1>12. ASSUME writer.of = 0 PROVE CommandHolds(g)'
    <2>1. CommandHolds(g)
      <3> HIDE DEF CommandHolds, LaunchHolds
      <3> QED BY <1>1, <1>12, WriterHolder
    <2>2. cmd[g].sel \in Delegations /\ cmd[g].adm \subseteq Delegations
      <3>1. CommandOK(g) /\ cmd[g] \in CommandType BY CommandKnows DEF Inv
      <3> QED BY <2>1, <3>1 DEF CommandOK, CommandHolds, CommandType
    <2>3. ASSUME writer.then = "run", NEW e \in cmd[g].adm
          PROVE  /\ thr[g][e].n \in 1..2
                 /\ IsClaimed(session', <<e, thr[g][e].n>>) \/ Pending(q, "slot_claimed", <<e, thr[g][e].n>>)
      <3>1. PICK n : n = thr[g][e].n OBVIOUS
      <3>2. /\ n \in 1..2
            /\ IsClaimed(session, <<e, n>>) \/ Pending(writer.todo, "slot_claimed", <<e, n>>)
        <4> HIDE DEF IsClaimed, Pending
        <4> QED BY <2>1, <2>3, <3>1 DEF CommandHolds
      <3>3. e \in Delegations BY <2>2
      <3> HIDE DEF IsClaimed, Pending, Lands
      <3> QED BY <1>2, <3>1, <3>2, <3>3, StillComes
    <2>4. ASSUME writer.then = "reclaim"
          PROVE  \/ IsSettled(session', <<cmd[g].sel, cmd[g].n>>)
                 \/ Pending(q, "settled", <<cmd[g].sel, cmd[g].n>>)
      <3>1. PICK d, n : d \in Delegations /\ d = cmd[g].sel /\ n = cmd[g].n BY <2>2
      <3>2. n \in 1..2
        <4>1. CommandOK(g) /\ cmd[g].pc = "holding" BY <2>1 DEF Inv, CommandHolds
        <4> QED BY <2>4, <3>1, <4>1 DEF CommandOK
      <3>3. IsSettled(session, <<d, n>>) \/ Pending(writer.todo, "settled", <<d, n>>)
        <4> HIDE DEF IsSettled, Pending, IsClaimed
        <4> QED BY <2>1, <2>4, <3>1 DEF CommandHolds
      <3> HIDE DEF IsSettled, Pending, Lands
      <3> QED BY <1>2, <3>1, <3>2, <3>3, StillComes
    <2> HIDE DEF IsSettled, Pending, IsClaimed
    <2> QED BY <1>5, <1>6, <2>1, <2>3, <2>4 DEF CommandHolds
  <1>13. ASSUME NEW d \in Delegations, writer.of = d PROVE LaunchHolds(g, d)'
    <2>0. d # 0 BY DEF Delegations
    <2>1. LaunchHolds(g, d)
      <3> HIDE DEF CommandHolds, LaunchHolds
      <3> QED BY <1>1, <1>13, <2>0, WriterHolder
    <2>2. PICK n : n = thr[g][d].n OBVIOUS
    <2>3. LaunchOK(g, d) /\ thr[g][d].pc = "holding" BY <1>3, <2>1 DEF Inv, LaunchHolds
    <2>4. n \in 1..2 BY <2>2, <2>3 DEF LaunchOK
    <2>5. writer.then = "launch" => IsClaimed(session', <<d, n>>) \/ Pending(q, "slot_claimed", <<d, n>>)
      <3>1. writer.then = "launch" => IsClaimed(session, <<d, n>>) \/ Pending(writer.todo, "slot_claimed", <<d, n>>)
        <4> HIDE DEF IsSettled, Pending, IsClaimed, HasAttempt
        <4> QED BY <2>1, <2>2 DEF LaunchHolds
      <3> HIDE DEF IsClaimed, Pending, Lands
      <3> QED BY <1>2, <2>4, <3>1, StillComes
    <2>6. writer.then \in {"reconcile", "settle"} =>
            IsSettled(session', <<d, n>>) \/ Pending(q, "settled", <<d, n>>)
      <3>1. writer.then \in {"reconcile", "settle"} =>
              IsSettled(session, <<d, n>>) \/ Pending(writer.todo, "settled", <<d, n>>)
        <4> HIDE DEF IsSettled, Pending, IsClaimed, HasAttempt
        <4> QED BY <2>1, <2>2 DEF LaunchHolds
      <3> HIDE DEF IsSettled, Pending, Lands
      <3> QED BY <1>2, <2>4, <3>1, StillComes
    <2>7. writer.then # "sending"
      <3> SUFFICES ASSUME writer.then = "sending" PROVE FALSE OBVIOUS
      <3>1. PICK x : writer.todo = <<x>>
        <4> HIDE DEF IsSettled, Pending, IsClaimed, HasAttempt
        <4> QED BY <1>3, <2>1 DEF LaunchHolds
      <3>2. Len(writer.todo) = 1 BY <3>1
      <3> QED BY <3>2
    <2>8. writer.then = "spawn" =>
            HasAttempt(session', <<d, n>>) /\ q = <<OfAttempt("launch_requested", <<d, n>>)>>
      <3> SUFFICES ASSUME writer.then = "spawn"
                   PROVE  HasAttempt(session', <<d, n>>) /\ q = <<OfAttempt("launch_requested", <<d, n>>)>>
        OBVIOUS
      <3> DEFINE x == OfAttempt("reserved", <<d, n>>)
                 y == OfAttempt("launch_requested", <<d, n>>)
      <3>1. writer.todo = <<x, y>> \/ writer.todo = <<y>>
        <4> HIDE DEF IsSettled, Pending, IsClaimed, HasAttempt
        <4> QED BY <2>1, <2>2 DEF LaunchHolds
      <3>2. x.type = "reserved" /\ x.d = d /\ x.n = n BY DEF OfAttempt
      <3> HIDE DEF x, y
      <3>3. PICK p : p = writer.todo /\ Len(p) > 1 /\ q = Tail(p) BY <1>2
      <3>a. p = <<x, y>> \/ p = <<y>> BY <3>1, <3>3
      <3>b. p = <<x, y>> BY <3>3, <3>a
      <3>c. Head(p) = x /\ Tail(p) = <<y>> BY <3>b
      <3>4. Head(writer.todo) = x /\ q = <<y>> BY <3>3, <3>c
      <3>5. HasAttempt(session', <<d, n>>)
        <4> HIDE DEF HasAttempt
        <4> QED BY <3>2, <3>4 DEF Lands
      <3> QED BY <3>4, <3>5 DEF y
    <2>9. <<d, thr'[g][d].n>> = <<d, n>> BY <2>2
    <2> HIDE DEF IsSettled, Pending, IsClaimed, HasAttempt
    <2> QED BY <1>3, <1>4, <1>5, <1>6, <2>1, <2>2, <2>5, <2>6, <2>7, <2>8, <2>9 DEF LaunchHolds
  <1>14. WriterOK'
    <2>1. g # 0 BY DEF Commands
    <2>2. ASSUME NEW h \in Commands, w.by = h, w.of = 0 PROVE CommandHolds(h)'
      <3> HIDE DEF CommandHolds
      <3> QED BY <1>6, <1>12, <2>2
    <2>3. ASSUME NEW h \in Commands, NEW e \in Delegations, w.by = h, w.of = e PROVE LaunchHolds(h, e)'
      <3> HIDE DEF LaunchHolds
      <3> QED BY <1>6, <1>13, <2>3
    <2> HIDE DEF CommandHolds, LaunchHolds, EventOK
    <2> QED BY <1>5, <1>6, <1>11, <2>1, <2>2, <2>3 DEF WriterOK
  <1> HIDE DEF LaunchOK, CommandOK, Danger, IsBound, WriterOK
  <1>15. \A h \in Commands, e \in Delegations : LaunchOK(h, e)' BY <1>8
  <1>16. ASSUME NEW h \in Commands, NEW e \in Delegations, Danger(h, e)'
         PROVE  thr'[h][e].n = thr[h][e].n /\ Danger(h, e)
    BY <1>8, <1>16
  <1> QED BY <1>7, <1>9, <1>14, <1>15, <1>16, AppendKeeps

\* Only the start barrier keeps the writer.
LEMMA AppendStart ==
  ASSUME Inv, Goes, NoEffectIsProven', writer.by # 0, Len(writer.todo) = 1, writer.then = "sending",
         Lands(Head(writer.todo).type, <<Head(writer.todo).d, Head(writer.todo).n>>),
         writer' = [writer EXCEPT !.todo = <<>>], Goto(writer.by, writer.of, "sending"),
         UNCHANGED <<lease, op, child, gone, crashes>>
  PROVE  Inv'
  <1>0. writer.of # 0
    <2> SUFFICES ASSUME writer.of = 0 PROVE FALSE OBVIOUS
    <2>1. CommandHolds(writer.by)
      <3> HIDE DEF CommandHolds, LaunchHolds
      <3> QED BY WriterHolder
    <2> QED BY <2>1 DEF CommandHolds
  <1>1. PICK g \in Commands, d \in Delegations : g = writer.by /\ d = writer.of /\ LaunchHolds(g, d)
    <2> HIDE DEF CommandHolds, LaunchHolds
    <2> QED BY <1>0, WriterHolder
  <1>2. writer.todo \in Seq(Event) /\ writer.todo # <<>> /\ writer \in WriterType
    BY DEF Inv, Types, WriterType
  <1>3. cmd[g].pc = "run" /\ thr[g][d].pc = "holding" BY <1>1, <1>2 DEF LaunchHolds
  <1>4. LaunchOK(g, d) /\ Types BY DEF Inv
  <1>5. PICK n : n = thr[g][d].n OBVIOUS
  <1>6. UNCHANGED cmd /\ \E t \in LaunchType : Moves(g, d, t) /\ t.pc = "sending" /\ t.n = n
    <2>1. "sending" \in LaunchSteps BY DEF LaunchSteps
    <2>2. Goto(g, d, "sending") BY <1>1
    <2> HIDE DEF Goto
    <2> QED BY <1>5, <2>1, <2>2, GotoLaunch
  <1>7. PICK t \in LaunchType : Moves(g, d, t) /\ t.pc = "sending" /\ t.n = n BY <1>6
  <1>8. /\ thr' \in [Commands -> [Delegations -> LaunchType]]
        /\ thr'[g][d] = t
        /\ \A h \in Commands, e \in Delegations : h # g \/ e # d => thr'[h][e] = thr[h][e]
    BY <1>4, <1>7, ThrUpdate
  <1>9. PICK w \in WriterType : GoesOn(w) /\ w.todo = <<>>
    <2> DEFINE w == [writer EXCEPT !.todo = <<>>]
    <2>1. <<>> \in Seq(Event) OBVIOUS
    <2>2. w \in WriterType /\ w.todo = <<>>
      <3> HIDE DEF Event, Steps
      <3> QED BY <1>2, <2>1 DEF WriterType
    <2>3. GoesOn(w)
      <3> HIDE DEF Event, Steps
      <3> QED BY <1>2 DEF GoesOn, WriterType
    <2> QED BY <2>2, <2>3
  <1>10. /\ writer' = w /\ w.by = g /\ w.of = d /\ w.then = "sending" /\ w.refused = writer.refused
    BY <1>1, <1>9 DEF GoesOn
  <1> HIDE DEF Event, WriterType
  <1>11. Types' BY <1>4, <1>6, <1>8, <1>9, <1>10 DEF Types, Goes
  <1>12. IsStarted(session', <<d, n>>) /\ d \notin session'.cancels
    <2> DEFINE x == OfAttempt("started", <<d, n>>)
    <2>1. writer.todo = <<x>>
      <3> HIDE DEF IsSettled, Pending, IsClaimed, HasAttempt
      <3> QED BY <1>1, <1>2, <1>5 DEF LaunchHolds
    <2>2. x.type = "started" /\ x.d = d /\ x.n = n BY DEF OfAttempt
    <2> HIDE DEF x
    <2>3. Head(writer.todo) = x BY <2>1
    <2> HIDE DEF IsStarted
    <2> QED BY <2>2, <2>3 DEF Lands
  <1>13. ASSUME NEW h \in Commands, NEW e \in Delegations, h # g \/ e # d
         PROVE  LaunchOK(h, e)' /\ (Danger(h, e)' <=> Danger(h, e))
    <2>1. thr[h][e].pc \notin {"holding", "sending"} BY <1>1, <1>13, OthersDoNotHold
    <2>2. thr'[h][e] = thr[h][e] BY <1>8, <1>13
    <2> QED BY <1>6, <2>1, <2>2, LaunchFrame
  <1>14. n \in 1..2 /\ n <= session.envelopes[d] /\ d \in cmd[g].adm BY <1>3, <1>4, <1>5 DEF LaunchOK
  <1>15. /\ n <= session'.envelopes[d]
         /\ IsBound(session, <<d, n>>) => IsBound(session', <<d, n>>)
         /\ IsClaimed(session, <<d, n>>) => IsClaimed(session', <<d, n>>)
    <2>1. /\ session.envelopes[d] <= session'.envelopes[d]
          /\ IsBound(session, <<d, n>>) => IsBound(session', <<d, n>>)
          /\ IsClaimed(session, <<d, n>>) => IsClaimed(session', <<d, n>>)
      BY <1>4, <1>14, GoesKeeps
    <2>2. session.envelopes[d] \in 0..2 /\ session'.envelopes[d] \in 0..2
      BY <1>4, SessionFields DEF Types, Goes
    <2> HIDE DEF IsBound, IsClaimed
    <2> QED BY <1>14, <2>1, <2>2
  <1>16. Danger(g, d) BY <1>3 DEF Danger
  <1>17. IsBound(session, <<d, n>>) /\ IsClaimed(session, <<d, n>>)
    <2> HIDE DEF IsBound, IsClaimed, Danger, HasAttempt, IsStarted, IsSettled
    <2> QED BY <1>3, <1>4, <1>5, <1>16 DEF LaunchOK
  <1>18. <<d, thr'[g][d].n>> = <<d, n>> /\ thr'[g][d].pc = "sending" /\ thr'[g][d].n = n BY <1>7, <1>8
  <1>19. LaunchOK(g, d)'
    <2> HIDE DEF HasAttempt, IsBound, IsStarted, IsSettled, IsClaimed, Danger
    <2> QED BY <1>3, <1>6, <1>9, <1>10, <1>12, <1>14, <1>15, <1>17, <1>18 DEF LaunchOK, AfterLaunch
  <1>20. ASSUME NEW h \in Commands, NEW e \in Delegations, Danger(h, e)'
         PROVE  thr'[h][e].n = thr[h][e].n /\ Danger(h, e)
    <2>1. CASE h = g /\ e = d BY <1>5, <1>16, <1>18, <2>1
    <2>2. CASE h # g \/ e # d
      <3> HIDE DEF LaunchOK, Danger
      <3> QED BY <1>8, <1>13, <1>20, <2>2
    <2> QED BY <2>1, <2>2
  <1>21. ASSUME NEW h \in Commands PROVE CommandOK(h)'
    <2>1. cmd[h].pc # "holding" BY <1>0, OthersDoNotHold
    <2> QED BY <1>6, <2>1, CommandFrame
  <1>22. WriterOK'
    <2>1. g # 0 /\ d # 0 BY DEF Commands, Delegations
    <2>2. LaunchHolds(g, d)'
      <3>1. writer.refused \in {"fail", "rejected"} BY <1>1 DEF LaunchHolds
      <3>2. "sending" \in LaunchSteps \ {"holding", "idle"} BY DEF LaunchSteps
      <3> HIDE DEF IsSettled, Pending, IsClaimed, HasAttempt, LaunchSteps
      <3> QED BY <1>3, <1>6, <1>9, <1>10, <1>18, <3>1, <3>2 DEF LaunchHolds
    <2>3. ASSUME NEW h \in Commands, NEW e \in Delegations, w.by = h, w.of = e PROVE LaunchHolds(h, e)'
      <3> HIDE DEF LaunchHolds
      <3> QED BY <1>10, <2>2, <2>3
    <2>4. DOMAIN w.todo = {} BY <1>9
    <2> HIDE DEF CommandHolds, LaunchHolds, EventOK
    <2> QED BY <1>9, <1>10, <2>1, <2>3, <2>4 DEF WriterOK
  <1> HIDE DEF LaunchOK, CommandOK, Danger, IsBound, WriterOK
  <1>23. \A h \in Commands, e \in Delegations : LaunchOK(h, e)' BY <1>13, <1>19
  <1> QED BY <1>11, <1>20, <1>21, <1>22, <1>23, AppendKeeps

\* The last event of a command's hold.
LEMMA AppendLastOfCommand ==
  ASSUME Inv, Goes, NoEffectIsProven', writer.by # 0, writer.of = 0, Len(writer.todo) = 1,
         Lands(Head(writer.todo).type, <<Head(writer.todo).d, Head(writer.todo).n>>),
         writer' = Free, Goto(writer.by, 0, writer.then),
         UNCHANGED <<lease, op, child, gone, crashes>>
  PROVE  Inv'
  <1>1. PICK g \in Commands : g = writer.by /\ CommandHolds(g)
    <2> HIDE DEF CommandHolds, LaunchHolds
    <2> QED BY WriterHolder
  <1>2. writer.todo \in Seq(Event) /\ writer.todo # <<>> BY DEF Inv, Types, WriterType
  <1>3. PICK e : e = Head(writer.todo) OBVIOUS
  <1>4. PICK to : to = writer.then OBVIOUS
  <1>5. ASSUME to = "run", NEW x \in cmd[g].adm PROVE IsClaimed(session', <<x, thr[g][x].n>>)
    <2>1. PICK n : n = thr[g][x].n OBVIOUS
    <2>2. n \in 1..2 /\ (IsClaimed(session, <<x, n>>) \/ Pending(writer.todo, "slot_claimed", <<x, n>>))
      <3> HIDE DEF IsClaimed, Pending, IsSettled
      <3> QED BY <1>1, <1>4, <1>5, <2>1 DEF CommandHolds
    <2>3. x \in Delegations
      <3>1. cmd[g] \in CommandType BY CommandKnows
      <3> QED BY <3>1 DEF CommandType
    <2>4. IsClaimed(session, <<x, n>>) => IsClaimed(session', <<x, n>>) BY <2>2, <2>3, GoesKeeps DEF Inv
    <2>5. Pending(writer.todo, "slot_claimed", <<x, n>>) => IsClaimed(session', <<x, n>>)
      <3>1. Pending(writer.todo, "slot_claimed", <<x, n>>) => e.type = "slot_claimed" /\ e.d = x /\ e.n = n
        <4> HIDE DEF Pending, Event
        <4> QED BY <1>2, <1>3, PendingOne
      <3> HIDE DEF Pending, IsClaimed
      <3> QED BY <1>3, <3>1 DEF Lands
    <2> HIDE DEF IsClaimed, Pending
    <2> QED BY <2>1, <2>2, <2>4, <2>5
  <1>6. ASSUME to = "reclaim" PROVE IsSettled(session', <<cmd[g].sel, cmd[g].n>>)
    <2>1. PICK x, n : x = cmd[g].sel /\ n = cmd[g].n OBVIOUS
    <2>2. IsSettled(session, <<x, n>>) \/ Pending(writer.todo, "settled", <<x, n>>)
      <3> HIDE DEF IsClaimed, Pending, IsSettled
      <3> QED BY <1>1, <1>4, <1>6, <2>1 DEF CommandHolds
    <2>3. x \in Delegations
      <3>1. CommandOK(g) /\ cmd[g].pc = "holding" BY <1>1 DEF Inv, CommandHolds
      <3> QED BY <2>1, <3>1 DEF CommandOK
    <2>4. IsSettled(session, <<x, n>>) => IsSettled(session', <<x, n>>) BY <2>3, GoesKeeps DEF Inv
    <2>5. Pending(writer.todo, "settled", <<x, n>>) => IsSettled(session', <<x, n>>)
      <3>1. Pending(writer.todo, "settled", <<x, n>>) => e.type = "settled" /\ e.d = x /\ e.n = n
        <4> HIDE DEF Pending, Event
        <4> QED BY <1>2, <1>3, PendingOne
      <3> HIDE DEF Pending, IsSettled
      <3> QED BY <1>3, <3>1 DEF Lands
    <2> HIDE DEF IsSettled, Pending
    <2> QED BY <2>1, <2>2, <2>4, <2>5
  <1>7. Goto(g, 0, to) BY <1>1, <1>4
  <1> HIDE DEF IsClaimed, IsSettled, Goto, Lands
  <1> QED BY <1>1, <1>2, <1>4, <1>5, <1>6, <1>7, CommandLets

\* The last event of a launch's hold.
LEMMA AppendLastOfLaunch ==
  ASSUME Inv, Goes, NoEffectIsProven', writer.by # 0, writer.of # 0, Len(writer.todo) = 1,
         writer.then # "sending",
         Lands(Head(writer.todo).type, <<Head(writer.todo).d, Head(writer.todo).n>>),
         writer' = Free, Goto(writer.by, writer.of, writer.then),
         UNCHANGED <<lease, op, child, gone, crashes>>
  PROVE  Inv'
  <1>1. PICK g \in Commands, d \in Delegations : g = writer.by /\ d = writer.of /\ LaunchHolds(g, d)
    <2> HIDE DEF CommandHolds, LaunchHolds
    <2> QED BY WriterHolder
  <1>2. writer.todo \in Seq(Event) /\ writer.todo # <<>> BY DEF Inv, Types, WriterType
  <1>3. PICK e : e = Head(writer.todo) OBVIOUS
  <1>4. PICK to : to = writer.then OBVIOUS
  <1>5. PICK n : n = thr[g][d].n OBVIOUS
  <1>6. LaunchOK(g, d) /\ cmd[g].pc = "run" /\ thr[g][d].pc = "holding"
    BY <1>1, <1>2 DEF Inv, LaunchHolds
  <1>7. n \in 1..2 BY <1>5, <1>6 DEF LaunchOK
  <1>8. /\ HasAttempt(session, <<d, n>>) => HasAttempt(session', <<d, n>>)
        /\ IsSettled(session, <<d, n>>) => IsSettled(session', <<d, n>>)
        /\ IsClaimed(session, <<d, n>>) => IsClaimed(session', <<d, n>>)
    BY <1>7, GoesKeeps DEF Inv
  <1>9. ASSUME NEW type, Pending(writer.todo, type, <<d, n>>)
        PROVE  Lands(type, <<d, n>>)
    <2>1. e.type = type /\ e.d = d /\ e.n = n
      <3> HIDE DEF Pending, Event
      <3> QED BY <1>2, <1>3, <1>9, PendingOne
    <2> HIDE DEF Lands
    <2> QED BY <1>3, <2>1
  <1>10. Pending(writer.todo, "slot_claimed", <<d, n>>) => IsClaimed(session', <<d, n>>)
    BY <1>9 DEF Lands
  <1>11. Pending(writer.todo, "settled", <<d, n>>) => IsSettled(session', <<d, n>>)
    BY <1>9 DEF Lands
  <1>12. IsClaimed(session', <<d, n>>)
    <2>1. IsClaimed(session, <<d, n>>) \/ Pending(writer.todo, "slot_claimed", <<d, n>>)
      <3> HIDE DEF IsClaimed, Pending, IsSettled, HasAttempt, IsBound, IsStarted, Danger
      <3> QED BY <1>1, <1>5, <1>6 DEF LaunchHolds, LaunchOK
    <2> HIDE DEF IsClaimed, Pending
    <2> QED BY <1>8, <1>10, <2>1
  <1>13. to \in {"reconcile", "settle"} => IsSettled(session', <<d, n>>)
    <2>1. to \in {"reconcile", "settle"} => IsSettled(session, <<d, n>>) \/ Pending(writer.todo, "settled", <<d, n>>)
      <3> HIDE DEF IsClaimed, Pending, IsSettled, HasAttempt
      <3> QED BY <1>1, <1>4, <1>5 DEF LaunchHolds
    <2> HIDE DEF IsSettled, Pending
    <2> QED BY <1>8, <1>11, <2>1
  <1>14. to \in AfterLaunch => HasAttempt(session', <<d, n>>)
    <2>1. to \in AfterLaunch => HasAttempt(session, <<d, n>>)
      <3> HIDE DEF IsClaimed, IsSettled, HasAttempt, IsBound, IsStarted, Danger
      <3> QED BY <1>4, <1>5, <1>6 DEF LaunchOK
    <2> HIDE DEF HasAttempt
    <2> QED BY <1>8, <2>1
  <1>15. to = "spawn" => IsBound(session', <<d, n>>) /\ ~IsBound(session, <<d, n>>)
    <2> DEFINE x == OfAttempt("reserved", <<d, n>>)
               y == OfAttempt("launch_requested", <<d, n>>)
    <2>1. to = "spawn" => writer.todo = <<x, y>> \/ writer.todo = <<y>>
      <3> HIDE DEF IsClaimed, IsSettled, HasAttempt, Pending
      <3> QED BY <1>1, <1>4, <1>5 DEF LaunchHolds
    <2>2. y.type = "launch_requested" /\ y.d = d /\ y.n = n BY DEF OfAttempt
    <2> HIDE DEF x, y
    <2>3. PICK p : p = writer.todo /\ Len(p) = 1 OBVIOUS
    <2>4. to = "spawn" => p = <<x, y>> \/ p = <<y>> BY <2>1, <2>3
    <2>5. p # <<x, y>> BY <2>3
    <2>6. to = "spawn" => p = <<y>> BY <2>4, <2>5
    <2>7. to = "spawn" => e = y BY <1>3, <2>3, <2>6
    <2> HIDE DEF IsBound
    <2> QED BY <1>3, <2>2, <2>7 DEF Lands
  <1>16. to \in LaunchSteps \ {"idle", "holding", "sending", "handshake", "start", "wait", "fail"}
    <2> HIDE DEF IsClaimed, IsSettled, HasAttempt, Pending, LaunchSteps
    <2> QED BY <1>1, <1>4 DEF LaunchHolds
  <1>17. to \in Near => to = "spawn" BY <1>16 DEF Near
  <1>18. Goto(g, d, to) BY <1>1, <1>4
  <1> HIDE DEF IsClaimed, IsSettled, HasAttempt, IsBound, Goto, Lands, LaunchSteps, Near, AfterLaunch, Danger
  <1> QED BY <1>1, <1>2, <1>5, <1>12, <1>13, <1>14, <1>15, <1>16, <1>17, <1>18, LaunchLets

\* The projector refuses the event.
LEMMA AppendRefused ==
  ASSUME Inv, writer.by # 0, writer.todo # <<>>, writer' = Free,
         Goto(writer.by, writer.of, writer.refused), UNCHANGED <<session, lease, op, child, gone, crashes>>
  PROVE  Inv'
  <1>1. Goes BY StillGoes
  <1>2. NoEffectIsProven' BY DEF Inv, NoEffectIsProven, Proven
  <1>3. CASE writer.of = 0
    <2>1. PICK g \in Commands : g = writer.by /\ CommandHolds(g)
      <3> HIDE DEF CommandHolds, LaunchHolds
      <3> QED BY <1>3, WriterHolder
    <2>2. writer.refused = "done" BY <2>1 DEF CommandHolds
    <2>3. Goto(g, 0, "done") BY <1>3, <2>1, <2>2
    <2> HIDE DEF Goto, IsClaimed, IsSettled
    <2> QED BY <1>1, <1>2, <1>3, <2>1, <2>3, CommandLets
  <1>4. CASE writer.of # 0
    <2>1. PICK g \in Commands, d \in Delegations : g = writer.by /\ d = writer.of /\ LaunchHolds(g, d)
      <3> HIDE DEF CommandHolds, LaunchHolds
      <3> QED BY <1>4, WriterHolder
    <2>2. PICK n, to : n = thr[g][d].n /\ to = writer.refused OBVIOUS
    <2>3. /\ to \in {"fail", "rejected"} /\ (to = "fail" => writer.then = "sending")
          /\ cmd[g].pc = "run" /\ thr[g][d].pc = "holding"
      BY <2>1, <2>2 DEF LaunchHolds
    <2>4. LaunchOK(g, d) BY DEF Inv
    <2>5. to = "fail" => Danger(g, d) /\ IsBound(session, <<d, n>>)
      <3>1. to = "fail" => Danger(g, d) BY <2>3 DEF Danger
      <3> HIDE DEF IsClaimed, IsSettled, HasAttempt, IsBound, IsStarted, Danger
      <3> QED BY <2>2, <2>4, <3>1 DEF LaunchOK
    <2>6. Goto(g, d, to) BY <2>1, <2>2
    <2>7. to \in LaunchSteps \ {"idle", "holding", "sending", "handshake", "start", "wait"}
      BY <2>3 DEF LaunchSteps
    <2>8. to \notin AfterLaunch BY <2>3 DEF AfterLaunch
    <2>9. to = "rejected" \/ IsClaimed(session, <<d, n>>)
      <3> HIDE DEF IsClaimed, IsSettled, HasAttempt, IsBound, IsStarted, Danger
      <3> QED BY <2>2, <2>3, <2>4 DEF LaunchOK
    <2>10. to \in Near => to = "fail" BY <2>3 DEF Near
    <2>11. to \notin {"reconcile", "settle"} BY <2>3
    <2> HIDE DEF IsClaimed, IsSettled, HasAttempt, IsBound, Goto, LaunchSteps, Near, AfterLaunch, Danger
    <2> QED BY <1>1, <1>2, <2>1, <2>2, <2>5, <2>6, <2>7, <2>8, <2>9, <2>10, <2>11, LaunchLets
  <1> QED BY <1>3, <1>4

LEMMA StepAppendEvent ==
  ASSUME Inv, AppendEvent
  PROVE  Inv'
  <1>1. /\ writer.by # 0 /\ writer.todo # <<>>
        /\ UNCHANGED <<lease, op, child, gone, crashes>>
    BY DEF AppendEvent
  <1>2. writer.todo \in Seq(Event) BY DEF Inv, Types, WriterType
  <1>3. Len(writer.todo) \in Nat /\ Len(writer.todo) >= 1 BY <1>1, <1>2, Heads
  <1>a. Len(writer.todo) = 1 \/ Len(writer.todo) > 1
    <2>1. \A k \in Nat : k >= 1 => k = 1 \/ k > 1 OBVIOUS
    <2> QED BY <1>3, <2>1
  <1>4. CASE ~Admissible(session, Head(writer.todo))
    <2>1. writer' = Free /\ Goto(writer.by, writer.of, writer.refused) /\ UNCHANGED session
      <3> HIDE DEF Admissible, Goto
      <3> QED BY <1>4 DEF AppendEvent
    <2> HIDE DEF Goto
    <2> QED BY <1>1, <2>1, AppendRefused
  <1>5. CASE Admissible(session, Head(writer.todo))
    <2>1. /\ session' = Apply(session, Head(writer.todo))
          /\ IF Len(writer.todo) > 1
             THEN writer' = [writer EXCEPT !.todo = Tail(@)] /\ UNCHANGED <<cmd, thr>>
             ELSE /\ writer' = IF writer.then = "sending" THEN [writer EXCEPT !.todo = <<>>] ELSE Free
                  /\ Goto(writer.by, writer.of, writer.then)
      <3> HIDE DEF Admissible, Goto, Apply
      <3> QED BY <1>5 DEF AppendEvent, KeepsWriter
    <2>2. Goes /\ NoEffectIsProven'
      <3> HIDE DEF Admissible, Apply, Goes, NoEffectIsProven
      <3> QED BY <1>1, <1>5, <2>1, AppendGoes
    <2>3. Lands(Head(writer.todo).type, <<Head(writer.todo).d, Head(writer.todo).n>>)
      <3> HIDE DEF Admissible, Apply, Lands
      <3> QED BY <1>1, <1>5, <2>1, AppendLands
    <2> HIDE DEF Admissible, Apply, Lands, Goes, NoEffectIsProven, Goto
    <2>4. CASE Len(writer.todo) > 1 BY <1>1, <2>1, <2>2, <2>3, <2>4, AppendMore
    <2>5. CASE ~(Len(writer.todo) > 1)
      <3>1. Len(writer.todo) = 1 BY <1>a, <2>5
      <3>2. Goto(writer.by, writer.of, writer.then) BY <2>1, <2>5
      <3>3. CASE writer.then = "sending"
        <4>1. writer' = [writer EXCEPT !.todo = <<>>] BY <2>1, <2>5, <3>3
        <4>2. Goto(writer.by, writer.of, "sending") BY <3>2, <3>3
        <4> QED BY <1>1, <2>2, <2>3, <3>1, <3>3, <4>1, <4>2, AppendStart
      <3>4. CASE writer.then # "sending"
        <4>1. writer' = Free BY <2>1, <2>5, <3>4
        <4>2. CASE writer.of = 0
          <5>1. Goto(writer.by, 0, writer.then) BY <3>2, <4>2
          <5> QED BY <1>1, <2>2, <2>3, <3>1, <4>1, <4>2, <5>1, AppendLastOfCommand
        <4>3. CASE writer.of # 0
          BY <1>1, <2>2, <2>3, <3>1, <3>2, <3>4, <4>1, <4>3, AppendLastOfLaunch
        <4> QED BY <4>2, <4>3
      <3> QED BY <3>3, <3>4
    <2> QED BY <2>4, <2>5
  <1> QED BY <1>4, <1>5

-----------------------------------------------------------------------------
(* The user's commands. *)

LEMMA UserStep ==
  ASSUME Inv, NEW e \in Event, e.type \in {"decided", "queued", "prepared", "cancel"}, UserEvent(e)
  PROVE  Inv'
  <1>1. /\ writer.by = 0 /\ Admissible(session, e) /\ session' = Apply(session, e)
        /\ UNCHANGED <<writer, lease, op, child, cmd, thr, gone, crashes>>
    BY DEF UserEvent, WriterFree
  <1>2. session \in SessionType /\ SessionOK(session) /\ Types BY DEF Inv, Types
  <1>3. Fits(session, e) BY DEF Fits
  <1> HIDE DEF Admissible, Apply
  <1>4. Follows(session, session')
    <2> HIDE DEF Fits, Follows, SessionType, SessionOK
    <2> QED BY <1>1, <1>2, <1>3, ApplyFollows
  <1>5. Goes BY <1>4 DEF Goes, Follows
  <1>6. NoEffectIsProven'
    <2> SUFFICES ASSUME NEW d \in Delegations, NEW i \in DOMAIN session'.attempts[d],
                        NoEffect(session'.attempts[d][i])
                 PROVE  Proven(op, <<d, session'.attempts[d][i].actor>>)
      BY <1>1 DEF NoEffectIsProven, Proven
    <2>1. \/ /\ i \in DOMAIN session.attempts[d] /\ NoEffect(session.attempts[d][i])
             /\ session'.attempts[d][i].actor = session.attempts[d][i].actor
          \/ Unended(session, d, i, e)
      <3> HIDE DEF Fits, NoEffect, Unended, SessionType
      <3> QED BY <1>1, <1>2, <1>3, NoEffectEvent
    <2>2. ~Unended(session, d, i, e) BY DEF Unended
    <2> QED BY <2>1, <2>2 DEF Inv, NoEffectIsProven
  <1>7. Types' BY <1>1, <1>2, <1>5 DEF Types, Goes
  <1>8. ASSUME NEW h \in Commands, NEW d \in Delegations
        PROVE  LaunchOK(h, d)' /\ (Danger(h, d)' <=> Danger(h, d))
    <2>1. LaunchOK(h, d) /\ h # 0 BY DEF Inv, Commands
    <2>2. thr[h][d].pc \notin {"holding", "sending"} BY <1>1, <2>1 DEF LaunchOK
    <2> QED BY <1>1, <1>5, <2>2, LaunchFrame
  <1>9. ASSUME NEW h \in Commands PROVE CommandOK(h)' BY <1>1, <1>5, CommandFrame
  <1>10. WriterOK'
    <2>1. ProvenStays BY <1>1 DEF ProvenStays, Proven
    <2> QED BY <1>1, <1>5, <2>1, WriterFrame
  <1> HIDE DEF LaunchOK, CommandOK, Danger, IsBound, WriterOK
  <1>11. \A h \in Commands, d \in Delegations : LaunchOK(h, d)' BY <1>8
  <1>12. ASSUME NEW h \in Commands, NEW d \in Delegations, Danger(h, d)'
         PROVE  thr'[h][d].n = thr[h][d].n /\ Danger(h, d)
    BY <1>1, <1>8, <1>12
  <1> QED BY <1>1, <1>5, <1>6, <1>7, <1>9, <1>10, <1>11, <1>12, AppendKeeps

LEMMA StepUser ==
  ASSUME Inv, NEW d \in Delegations, Decide(d) \/ Enqueue(d) \/ PrepareEnvelope(d) \/ Cancel(d)
  PROVE  Inv'
  <1>1. CASE Decide(d)
    <2>1. PICK k \in {"approved", "rejected"} : UserEvent([type |-> "decided", d |-> d, kind |-> k])
      BY <1>1 DEF Decide
    <2> DEFINE e == [type |-> "decided", d |-> d, kind |-> k]
    <2>2. e \in Event /\ e.type = "decided" BY DEF Event, DecideEvent
    <2>3. UserEvent(e) BY <2>1
    <2> HIDE DEF e, UserEvent, Event
    <2> QED BY <2>2, <2>3, UserStep
  <1>2. CASE Enqueue(d) \/ PrepareEnvelope(d) \/ Cancel(d)
    <2>1. PICK type \in {"queued", "prepared", "cancel"} : UserEvent(Of(type, d))
      <3> HIDE DEF UserEvent
      <3> QED BY <1>2 DEF Enqueue, PrepareEnvelope, Cancel
    <2> DEFINE e == Of(type, d)
    <2>2. e \in Event /\ e.type = type BY DEF Of, Event, OfEvent
    <2>3. UserEvent(e) BY <2>1
    <2> HIDE DEF e, UserEvent, Event
    <2> QED BY <2>2, <2>3, UserStep
  <1> QED BY <1>1, <1>2

-----------------------------------------------------------------------------
(* The theorems. *)

LEMMA InitInv == Init => Inv
  <1> SUFFICES ASSUME Init PROVE Inv OBVIOUS
  <1>1. session \in SessionType
    <2>1. \A d \in Delegations : (IF d \in Drafted THEN "draft" ELSE "queued") \in Statuses BY DEF Statuses
    <2>2. session.status \in [Delegations -> Statuses] BY <2>1 DEF Init
    <2>3. session.envelopes \in [Delegations -> 0..2] BY DEF Init
    <2>4. session.attempts \in [Delegations -> Seq(AttemptRecord)]
      <3>1. <<>> \in Seq(AttemptRecord) OBVIOUS
      <3> HIDE DEF AttemptRecord
      <3> QED BY <3>1 DEF Init
    <2>5. /\ session.receipt \in [Delegations -> {"none"} \cup Known] /\ session.cancels \subseteq Delegations
          /\ session.slots \subseteq [actor : Actors, group : Commands, slot : 1..2]
          /\ session.claims \subseteq [actor : Actors, group : Commands]
      BY DEF Init
    <2>6. /\ session.claimed \in [Delegations -> [1..2 -> 0..MaxCommands]]
          /\ session.nonce \in [Commands -> 0..MaxCommands]
      BY DelegationAssumption DEF Init
    <2>7. session.barriers \in [Commands ->
            [status : {"none", "requested", "suspended", "completed", "cancelled", "blocked"},
             required : SUBSET Delegations]]
      BY DEF Init
    <2>8. session = [ status |-> session.status, envelopes |-> session.envelopes,
                      attempts |-> session.attempts, receipt |-> session.receipt,
                      cancels |-> session.cancels, slots |-> session.slots, claims |-> session.claims,
                      claimed |-> session.claimed, barriers |-> session.barriers,
                      nonce |-> session.nonce ]
      BY DEF Init
    <2> HIDE DEF Init
    <2> QED BY <2>2, <2>3, <2>4, <2>5, <2>6, <2>7, <2>8 DEF SessionType
  <1>2. /\ \A d \in Delegations : session.attempts[d] = <<>> /\ session.envelopes[d] \in {0, 1}
        /\ \A d \in Delegations : session.status[d] \in {"draft", "queued"}
        /\ session.cancels = {} /\ session.slots = {}
    BY DEF Init
  <1>3. \A d \in Delegations : DOMAIN session.attempts[d] = {} /\ Len(session.attempts[d]) = 0 BY <1>2
  <1>4. SessionOK(session)
    <2>1. ASSUME NEW d \in Delegations PROVE DelegationOK(session, d)
      BY <1>2, <1>3, DelegationAssumption DEF DelegationOK
    <2> QED BY <1>2, <2>1 DEF SessionOK
  <1>5. Types
    <2>1. Free \in WriterType BY FreeWriter
    <2>2. Idle \in LaunchType BY IdleType
    <2>3. Unused \in CommandType BY DelegationAssumption DEF Unused, CommandType, CommandSteps
    <2>4. lease \in LeaseType BY DelegationAssumption DEF Init, LeaseType
    <2>5. op \in [Actors -> OpType] BY DEF Init, OpType, OpStates
    <2>6. child \in [Actors -> ChildType] BY DEF Init, ChildType, ChildStates
    <2>7. gone \subseteq Commands /\ crashes \in 0..MaxCrashes BY DelegationAssumption DEF Init
    <2>8. cmd \in [Commands -> CommandType]
      <3> HIDE DEF CommandType
      <3> QED BY <2>3 DEF Init
    <2>9. thr \in [Commands -> [Delegations -> LaunchType]]
      <3> HIDE DEF LaunchType
      <3> QED BY <2>2 DEF Init
    <2>10. writer \in WriterType BY <2>1 DEF Init
    <2> HIDE DEF CommandType, LaunchType, WriterType, OpType, ChildType, Init
    <2> QED BY <1>1, <2>4, <2>5, <2>6, <2>7, <2>8, <2>9, <2>10 DEF Types, LeaseType
  <1>6. /\ writer = Free
        /\ \A a \in Actors : op[a].state = "none" /\ op[a].failure = "none" /\ child[a].state = "none"
        /\ \A g \in Commands : cmd[g].pc = "unused"
        /\ \A g \in Commands, d \in Delegations : thr[g][d].pc = "idle"
    BY DEF Init, Unused, Idle
  <1> HIDE DEF Init
  <1>7. ASSUME NEW g \in Commands, NEW d \in Delegations PROVE LaunchOK(g, d) /\ ~Danger(g, d)
    BY <1>6 DEF LaunchOK, Danger, AfterLaunch
  <1>8. ASSUME NEW g \in Commands PROVE CommandOK(g) BY <1>6 DEF CommandOK
  <1>9. WriterOK BY <1>6 DEF WriterOK, Free, Commands
  <1>10. ProvenIsOver /\ UnboundIsNew /\ OperationOK /\ ActedIsStarted
    BY <1>6 DEF ProvenIsOver, UnboundIsNew, OperationOK, ActedIsStarted, Proven
  <1>11. OneDanger
    <2> HIDE DEF Danger
    <2> QED BY <1>7 DEF OneDanger
  <1>12. NoEffectIsProven BY <1>3 DEF NoEffectIsProven
  <1> HIDE DEF LaunchOK, CommandOK, WriterOK
  <1> QED BY <1>4, <1>5, <1>7, <1>8, <1>9, <1>10, <1>11, <1>12 DEF Inv

LEMMA StutterInv == Inv /\ UNCHANGED vars => Inv'
  <1> SUFFICES ASSUME Inv, UNCHANGED vars PROVE Inv' OBVIOUS
  <1>1. UNCHANGED <<session, writer, lease, op, child, cmd, thr, gone, crashes>> BY DEF vars
  <1>2. Types' BY <1>1 DEF Inv, Types
  <1>3. NothingProven BY <1>1, Unproven
  <1>4. Goes BY <1>1, StillGoes
  <1>5. ASSUME NEW h \in Commands PROVE CommandOK(h)' BY <1>1, <1>4, CommandFrame
  <1>6. WriterOK'
    <2>1. ProvenStays BY <1>1 DEF ProvenStays, Proven
    <2> QED BY <1>1, <1>4, <2>1, WriterFrame
  <1>7. ASSUME NEW h \in Commands, NEW e \in Delegations PROVE Same(h, e) BY <1>1 DEF Same
  <1> HIDE DEF CommandOK, WriterOK, Same, LaunchOK, Danger, NothingProven
  <1> QED BY <1>1, <1>2, <1>3, <1>5, <1>6, <1>7, QuietStep

LEMMA NextInv == Inv /\ [Next]_vars => Inv'
  <1> SUFFICES ASSUME Inv, [Next]_vars PROVE Inv' OBVIOUS
  <1> HIDE DEF Inv
  <1>1. CASE UNCHANGED vars BY <1>1, StutterInv
  <1>2. CASE AppendEvent BY <1>2, StepAppendEvent
  <1>3. ASSUME NEW d \in Delegations, Decide(d) \/ Enqueue(d) \/ PrepareEnvelope(d) \/ Cancel(d) PROVE Inv'
    BY <1>3, StepUser
  <1>4. ASSUME NEW g \in Commands, Begin(g) \/ Command(g) \/ Abort(g) \/ Crash(g) \/ Exit(g) PROVE Inv'
    <2>1. CASE Begin(g) BY <2>1, StepBegin
    <2>2. CASE Abort(g) BY <2>2, StepAbort
    <2>3. CASE Crash(g) \/ Exit(g) BY <2>3, StepDies
    <2>4. CASE Command(g)
      BY <2>4, StepRead, StepFence, StepAcquire, StepAdmitGroup, StepAppendPreEffectTerminal, StepFinish,
         StepReleaseLease, StepInspect, StepPrepareAgain, StepRecoverLater, StepReclaim, StepUnlease,
         StepAgain, StepTakeover, StepSeize, StepAdopt DEF Command
    <2> QED BY <1>4, <2>1, <2>2, <2>3, <2>4
  <1>5. ASSUME NEW g \in Commands, NEW d \in Delegations, Launch(g, d) \/ PollCancel(g, d) PROVE Inv'
    <2>1. CASE PollCancel(g, d) BY <2>1, StepPollCancel
    <2>2. CASE Launch(g, d)
      BY <2>2, StepLaunchRequest, StepSpawn, StepHandshake, StepStart, StepSendStart, StepFail, StepBlocked,
         StepRecover, StepReconcile, StepRelease, StepPrepare, StepReadmit, StepWait, StepImport, StepReceipt
         DEF Launch
    <2> QED BY <1>5, <2>1, <2>2
  <1>6. ASSUME NEW a \in Actors, ChildStart(a) \/ ChildEnd(a) \/ ChildDies(a) PROVE Inv'
    BY <1>6, StepChild
  <1> QED BY <1>1, <1>2, <1>3, <1>4, <1>5, <1>6 DEF Next

(* The inductive invariant: how the projected session, the operation store,  *)
(* the children and the writer's pending events stay in step through every   *)
(* step of delegation-service.ts, runtime/child-launcher.ts and the crashes. *)
THEOREM InductiveInvariant == Spec => []Inv
  BY InitInv, NextInv, PTL DEF Spec

(* The records keep their shapes (DelegationProjectionV1, the operation and *)
(* lease records), for every number of delegations, commands and crashes.   *)
THEOREM RecordShapes == Spec => []TypeOK
  <1>1. Inv => TypeOK
    <2> SUFFICES ASSUME Inv PROVE TypeOK OBVIOUS
    <2>1. Types /\ SessionOK(session) BY DEF Inv
    <2>2. ASSUME NEW d \in Delegations, NEW i \in DOMAIN session.attempts[d]
          PROVE  i <= MaxAttempts /\ session.attempts[d][i] \in AttemptRecord
      <3>1. session \in SessionType BY <2>1 DEF Types
      <3>2. /\ session.attempts[d][i] \in AttemptRecord /\ Len(session.attempts[d]) \in Nat
            /\ DOMAIN session.attempts[d] = 1 .. Len(session.attempts[d])
        BY <3>1, SessionFields
      <3>3. Len(session.attempts[d]) <= MaxAttempts BY <2>1 DEF SessionOK, DelegationOK
      <3> QED BY <3>2, <3>3, DelegationAssumption
    <2>3. /\ session.status \in [Delegations -> Statuses] /\ session.envelopes \in [Delegations -> 0..2]
          /\ session.receipt \in [Delegations -> {"none"} \cup Known]
          /\ session.cancels \subseteq Delegations
          /\ session.slots \subseteq [actor : Actors, group : Commands, slot : 1..2]
          /\ session.claims \subseteq [actor : Actors, group : Commands]
          /\ session.nonce \in [Commands -> 0..MaxCommands]
      BY <2>1 DEF Types, SessionType
    <2>4. ASSUME NEW b \in Commands
          PROVE  /\ session.barriers[b].status \in {"none", "requested", "suspended", "completed", "cancelled", "blocked"}
                 /\ session.barriers[b].required \subseteq Delegations
      BY <2>1 DEF Types, SessionType
    <2>5. writer.by \in 0..MaxCommands /\ writer.of \in 0..NDelegations BY <2>1 DEF Types, WriterType
    <2>6. \A g \in Commands : cmd[g].pc \in CommandSteps /\ cmd[g].adm \subseteq Delegations
      BY <2>1 DEF Types, CommandType
    <2>7. \A g \in Commands : \A d \in Delegations : thr[g][d].pc \in LaunchSteps
      BY <2>1 DEF Types, LaunchType
    <2>8. /\ lease \in [state : {"none", "active", "released"}, group : 0..MaxCommands,
                        owner : 0..MaxCommands, nonce : 0..MaxCommands]
          /\ op \in [Actors -> OpType] /\ child \in [Actors -> ChildType]
          /\ gone \subseteq Commands /\ crashes \in 0..MaxCrashes
      BY <2>1 DEF Types
    <2> HIDE DEF Statuses, CommandSteps, LaunchSteps
    <2> QED BY <2>2, <2>3, <2>4, <2>5, <2>6, <2>7, <2>8 DEF TypeOK, AttemptRecord, OpType, ChildType
  <1> QED BY <1>1, InductiveInvariant, PTL

(* Whatever crashes, cancellations and retries there are, at most one        *)
(* attempt of a delegation ever acts (runtime/child-launcher.ts gives the    *)
(* start frame only to the attempt whose start the projector has accepted).  *)
THEOREM EffectsOnceSafety == Spec => []EffectsOnce
  <1>1. Inv => EffectsOnce
    <2> SUFFICES ASSUME Inv, NEW d \in Delegations, NEW n \in 1..2, NEW m \in 1..2,
                        Ran(<<d, n>>), Ran(<<d, m>>)
                 PROVE  n = m
      BY DEF EffectsOnce
    <2>1. <<d, n>> \in Actors /\ <<d, m>> \in Actors BY DEF Actors
    <2>2. IsStarted(session, <<d, n>>) /\ IsStarted(session, <<d, m>>)
      BY <2>1 DEF Inv, ActedIsStarted, Ran
    <2>3. session \in SessionType /\ DelegationOK(session, d) BY DEF Inv, Types, SessionOK
    <2>4. Len(session.attempts[d]) <= 2 BY <2>3, AttemptsBound DEF Inv
    <2>5. ASSUME NEW k \in 1..2, IsStarted(session, <<d, k>>)
          PROVE  \E i \in DOMAIN session.attempts[d] :
                   session.attempts[d][i].actor = k /\ session.attempts[d][i].started
      <3>1. Has(session, d, k) /\ Attempt(session, d, k).started BY <2>5 DEF IsStarted, HasAttempt
      <3>2. /\ At(session, d, k) \in DOMAIN session.attempts[d]
            /\ session.attempts[d][At(session, d, k)].actor = k
        BY <2>3, <2>4, <3>1, AtFacts
      <3> QED BY <3>1, <3>2 DEF Attempt
    <2>6. PICK i \in DOMAIN session.attempts[d] :
            session.attempts[d][i].actor = n /\ session.attempts[d][i].started
      BY <2>2, <2>5
    <2>7. PICK j \in DOMAIN session.attempts[d] :
            session.attempts[d][j].actor = m /\ session.attempts[d][j].started
      BY <2>2, <2>5
    <2>8. i = j BY <2>3, <2>6, <2>7 DEF DelegationOK
    <2> QED BY <2>6, <2>7, <2>8
  <1> QED BY <1>1, InductiveInvariant, PTL

(* What the session calls an end without effect concerns a child that never  *)
(* started and is gone (delegation-pre-effect-recovery.ts).                  *)
THEOREM PreEffectSafety == Spec => []PreEffectIsProven
  <1>1. Inv => PreEffectIsProven
    <2> SUFFICES ASSUME Inv, NEW d \in Delegations, NEW i \in DOMAIN session.attempts[d],
                        NoEffect(session.attempts[d][i])
                 PROVE  child[<<d, session.attempts[d][i].actor>>].state \in {"none", "dead"}
      BY DEF PreEffectIsProven, NoEffect
    <2>1. Proven(op, <<d, session.attempts[d][i].actor>>) BY DEF Inv, NoEffectIsProven
    <2>2. session.attempts[d][i].actor \in 1..2 BY SessionFields DEF Inv, Types, AttemptRecord
    <2>3. <<d, session.attempts[d][i].actor>> \in Actors BY <2>2 DEF Actors
    <2> QED BY <2>1, <2>3 DEF Inv, ProvenIsOver
  <1> QED BY <1>1, InductiveInvariant, PTL

(* An operation is reconciled only when the session has absorbed it          *)
(* (delegation-operation-store.ts, child-launcher.ts).                       *)
THEOREM ReconciledSafety == Spec => []ReconciledIsAbsorbed
  <1>1. Inv => ReconciledIsAbsorbed
    <2> SUFFICES ASSUME Inv, NEW a \in Actors, op[a].state = "reconciled"
                 PROVE  /\ Has(session, a[1], a[2])
                        /\ Attempt(session, a[1], a[2]).terminal # "none"
                        /\ Attempt(session, a[1], a[2]).settled
      BY DEF ReconciledIsAbsorbed
    <2>1. PICK d \in Delegations, n \in 1..2 : a = <<d, n>> /\ a[1] = d /\ a[2] = n BY DEF Actors
    <2>2. IsSettled(session, a) BY DEF Inv, OperationOK
    <2>3. Has(session, d, n) /\ Attempt(session, d, n).settled BY <2>1, <2>2 DEF IsSettled, HasAttempt
    <2>4. session \in SessionType /\ DelegationOK(session, d) BY DEF Inv, Types, SessionOK
    <2>5. Len(session.attempts[d]) <= 2 BY <2>4, AttemptsBound DEF Inv
    <2>6. At(session, d, n) \in DOMAIN session.attempts[d] BY <2>3, <2>4, <2>5, AtFacts
    <2>7. Attempt(session, d, n).terminal # "none" BY <2>3, <2>4, <2>6 DEF DelegationOK, Attempt
    <2> QED BY <2>1, <2>3, <2>7
  <1> QED BY <1>1, InductiveInvariant, PTL

\* No process is told to start.
NoneTold == \A a \in Actors : child'[a].state = "told" => child[a].state = "told"

LEMMA ChildChange ==
  ASSUME Inv, NEW a \in Actors, NEW r, r.state # "told", child' = [child EXCEPT ![a] = r]
  PROVE  NoneTold
  <1>1. child \in [Actors -> ChildType] BY DEF Inv, Types
  <1> HIDE DEF ChildType
  <1> QED BY <1>1 DEF NoneTold

LEMMA ChildStateChange ==
  ASSUME Inv, NEW a \in Actors, NEW v, v # "told", child' = [child EXCEPT ![a].state = v]
  PROVE  NoneTold
  <1> DEFINE r == [child[a] EXCEPT !.state = v]
  <1>1. child[a] \in ChildType BY DEF Inv, Types
  <1>2. r.state = v BY <1>1 DEF ChildType
  <1>3. child' = [child EXCEPT ![a] = r] OBVIOUS
  <1> HIDE DEF r
  <1> QED BY <1>2, <1>3, ChildChange

LEMMA ChildEnded ==
  ASSUME Inv, NEW a \in Actors, child' = [child EXCEPT ![a] = Ended(@)]
  PROVE  NoneTold
  <1> DEFINE r == Ended(child[a])
  <1>1. child[a] \in ChildType BY DEF Inv, Types
  <1>2. r.state # "told" BY <1>1 DEF ChildType, Ended
  <1>3. child' = [child EXCEPT ![a] = r] OBVIOUS
  <1> HIDE DEF r
  <1> QED BY <1>2, <1>3, ChildChange

LEMMA LaunchTells ==
  ASSUME Inv, NEW g \in Commands, NEW d \in Delegations, Launch(g, d) \/ PollCancel(g, d), ~SendStart(g, d)
  PROVE  NoneTold
  <1>1. CASE UNCHANGED child BY <1>1 DEF NoneTold
  <1>2. CASE Spawn(g, d) \/ Handshake(g, d) \/ Fail(g, d) \/ Wait(g, d) \/ PollCancel(g, d)
    <2>1. thr[g][d].pc # "idle"
      BY <1>2 DEF Spawn, Handshake, Fail, Wait, PollCancel, Launching, PreStart
    <2>2. PICK a \in Actors : a = ActorIn(g, d) BY <2>1, LaunchKnows DEF ActorIn
    <2>3. \/ child' = child
          \/ child' = [child EXCEPT ![a] = Ended(@)]
          \/ \E v \in {"up", "shaken"} : child' = [child EXCEPT ![a].state = v]
      <3> HIDE DEF ActorIn, Ended
      <3>1. CASE Spawn(g, d) BY <2>2, <3>1 DEF Spawn
      <3>2. CASE Handshake(g, d) BY <2>2, <3>2 DEF Handshake
      <3>3. CASE Fail(g, d) BY <2>2, <3>3 DEF Fail
      <3>4. CASE Wait(g, d) BY <2>2, <3>4 DEF Wait
      <3>5. CASE PollCancel(g, d) BY <2>2, <3>5 DEF PollCancel
      <3> QED BY <1>2, <3>1, <3>2, <3>3, <3>4, <3>5
    <2>4. CASE child' = child BY <1>1, <2>4
    <2>5. CASE child' = [child EXCEPT ![a] = Ended(@)] BY <2>5, ChildEnded
    <2>6. ASSUME NEW v \in {"up", "shaken"}, child' = [child EXCEPT ![a].state = v] PROVE NoneTold
      <3>1. v # "told" OBVIOUS
      <3> QED BY <2>6, <3>1, ChildStateChange
    <2> QED BY <2>3, <2>4, <2>5, <2>6
  <1>3. CASE \/ LaunchRequest(g, d) \/ Start(g, d) \/ RecordBlocked(g, d) \/ Recover(g, d) \/ Reconcile(g, d)
             \/ Release(g, d) \/ Prepare(g, d) \/ Readmit(g, d)
             \/ Lost(g, d) \/ Import(g, d) \/ Receipt(g, d) \/ Settle(g, d)
    <2>1. UNCHANGED child
      BY <1>3 DEF LaunchRequest, Start, RecordBlocked, Recover, Reconcile, Release, Prepare, Readmit, Lost,
         Import, Receipt, Settle
    <2> QED BY <1>1, <2>1
  <1> QED BY <1>2, <1>3 DEF Launch

LEMMA CommandTells ==
  ASSUME Inv, NEW g \in Commands, Begin(g) \/ Command(g) \/ Abort(g) \/ Crash(g) \/ Exit(g)
  PROVE  NoneTold
  <1>1. CASE Abort(g)
    <2>1. \A a \in Actors : child'[a] \in {child[a], Ended(child[a])} BY <1>1 DEF Abort
    <2>2. ASSUME NEW a \in Actors PROVE Ended(child[a]).state # "told"
      <3>1. child[a] \in ChildType BY DEF Inv, Types
      <3> QED BY <3>1 DEF ChildType, Ended
    <2> HIDE DEF Ended
    <2> QED BY <2>1, <2>2 DEF NoneTold
  <1>2. CASE Begin(g) \/ Crash(g) \/ Exit(g)
    <2>1. UNCHANGED child BY <1>2 DEF Begin, Crash, Exit
    <2> QED BY <2>1 DEF NoneTold
  <1>3. CASE Command(g)
    <2>1. UNCHANGED child
      BY <1>3 DEF Command, Read, Fence, Acquire, AdmitGroup, AppendPreEffectTerminal, Finish, ReleaseLease,
         Inspect, PrepareAgain, RecoverLater, Reclaim, Unlease, Again, Takeover, Seize, Adopt, Yield
    <2> QED BY <2>1 DEF NoneTold
  <1> QED BY <1>1, <1>2, <1>3

LEMMA ChildTells ==
  ASSUME Inv, NEW a \in Actors, ChildStart(a) \/ ChildEnd(a) \/ ChildDies(a)
  PROVE  NoneTold
  <1>1. CASE ChildStart(a)
    <2>1. PICK v \in {"running", "dead"} : child' = [child EXCEPT ![a].state = v] BY <1>1 DEF ChildStart
    <2>2. v # "told" OBVIOUS
    <2> QED BY <2>1, <2>2, ChildStateChange
  <1>2. CASE ChildDies(a) BY <1>2, ChildEnded DEF ChildDies
  <1>3. CASE ChildEnd(a)
    <2>1. \/ child' = [child EXCEPT ![a].state = "killed"]
          \/ \E result \in Outcomes : child' = [child EXCEPT ![a] = [state |-> "finished", result |-> result]]
      BY <1>3 DEF ChildEnd
    <2>2. CASE child' = [child EXCEPT ![a].state = "killed"]
      <3>1. "killed" # "told" OBVIOUS
      <3> QED BY <2>2, <3>1, ChildStateChange
    <2>3. ASSUME NEW result \in Outcomes, child' = [child EXCEPT ![a] = [state |-> "finished", result |-> result]]
          PROVE  NoneTold
      <3> DEFINE r == [state |-> "finished", result |-> result]
      <3>1. r.state # "told" OBVIOUS
      <3> HIDE DEF r
      <3> QED BY <2>3, <3>1, ChildChange DEF r
    <2> QED BY <2>1, <2>2, <2>3
  <1> QED BY <1>1, <1>2, <1>3

(* A child is given its start frame only while no cancellation of its        *)
(* delegation is durable: child-launcher.ts keeps the session's writer from  *)
(* the append of child.started through the send.                             *)
THEOREM StartCancelExclusion == Spec => StartExcludesCancel
  <1> DEFINE P == \A a \in Actors : child[a].state # "told" /\ child'[a].state = "told"
                    => a[1] \notin session.cancels
  <1>1. ASSUME Inv, [Next]_vars PROVE P
    <2>1. NoneTold => P BY DEF NoneTold
    <2> HIDE DEF P
    <2>2. CASE UNCHANGED vars
      <3>1. UNCHANGED child BY <2>2 DEF vars
      <3> QED BY <2>1, <3>1 DEF NoneTold
    <2>3. CASE AppendEvent
      <3>1. UNCHANGED child BY <2>3 DEF AppendEvent
      <3> QED BY <2>1, <3>1 DEF NoneTold
    <2>4. ASSUME NEW d \in Delegations, Decide(d) \/ Enqueue(d) \/ PrepareEnvelope(d) \/ Cancel(d) PROVE P
      <3>1. UNCHANGED child BY <2>4 DEF Decide, Enqueue, PrepareEnvelope, Cancel, UserEvent
      <3> QED BY <2>1, <3>1 DEF NoneTold
    <2>5. ASSUME NEW g \in Commands, Begin(g) \/ Command(g) \/ Abort(g) \/ Crash(g) \/ Exit(g) PROVE P
      BY <1>1, <2>1, <2>5, CommandTells
    <2>6. ASSUME NEW g \in Commands, NEW d \in Delegations, SendStart(g, d) PROVE P
      <3>1. LaunchOK(g, d) /\ thr[g][d].pc = "sending" BY <1>1, <2>6 DEF Inv, SendStart, Launching
      <3>2. d \notin session.cancels BY <3>1 DEF LaunchOK
      <3>3. PICK a \in Actors : a = ActorIn(g, d) /\ a[1] = d BY <1>1, <3>1, LaunchKnows DEF ActorIn
      <3>4. child' = child \/ child' = [child EXCEPT ![a].state = IF @ = "shaken" THEN "told" ELSE @]
        <4> HIDE DEF ActorIn
        <4> QED BY <2>6, <3>3 DEF SendStart
      <3>5. child \in [Actors -> ChildType] BY <1>1 DEF Inv, Types
      <3>6. \A b \in Actors : b # a => child'[b] = child[b]
        <4> HIDE DEF ChildType
        <4> QED BY <3>4, <3>5
      <3> QED BY <3>2, <3>3, <3>6 DEF P
    <2>7. ASSUME NEW g \in Commands, NEW d \in Delegations, Launch(g, d) \/ PollCancel(g, d) PROVE P
      BY <1>1, <2>1, <2>6, <2>7, LaunchTells
    <2>8. ASSUME NEW a \in Actors, ChildStart(a) \/ ChildEnd(a) \/ ChildDies(a) PROVE P
      BY <1>1, <2>1, <2>8, ChildTells
    <2> QED BY <1>1, <2>2, <2>3, <2>4, <2>5, <2>7, <2>8 DEF Next
  <1>2. Inv /\ [Next]_vars => P BY <1>1
  <1>3. Inv /\ [Next]_vars => [P]_vars BY <1>2
  <1> QED BY <1>3, InductiveInvariant, PTL DEF Spec, StartExcludesCancel

=============================================================================
