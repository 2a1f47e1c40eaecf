---------------------- MODULE ControlOperationsProofs ----------------------
(***************************************************************************)
(* At most one dispatch, true refusals and true results for any number of  *)
(* commits.  The inductive invariant says where a call may be when it has  *)
(* an operation (Places), that claim epochs are never reused (Epochs),     *)
(* that a driver whose claim is the last one finds the state it expects    *)
(* (Owned), that a refusal is decided on the last revision (Snapshot), and *)
(* ties dispatches and facts to the states (Undispatched, Effects).        *)
(***************************************************************************)
EXTENDS ControlOperations, TLAPS

PreCreate == {"idle", "find", "indexFirst", "check", "lockPrepared", "breakPrepared",
              "acceptPrepared", "lockKey", "breakKey", "acceptKey", "create"}
NeedsOp == Driving \cup {"acquire", "release", "completed", "indexFirst",
                         "indexPrepared", "indexKey"}

\* What a call holds on to exists, and a call creates once.
Places ==
  /\ \A c \in Calls : pc[c] # "idle" => want[c] \in Actions
  /\ \A c \in Calls : pc[c] \in PreCreate => state[c] = "absent"
  /\ \A c \in Calls : op[c] # None => state[op[c]] # "absent"
  /\ \A a \in Actions : prepared[a] # None => state[prepared[a]] # "absent"
  /\ \A k \in Keys : idempotency[k] # None => state[idempotency[k]] # "absent"
  /\ \A c \in Calls : pc[c] \in NeedsOp => op[c] # None
  /\ \A c \in Calls : (pc[c] \in {"unlock", "unlockPrepared"} /\ err[c] = "none") => op[c] # None

\* Only drivers have a claim; its epoch is in the history and is theirs.
Epochs ==
  /\ \A c \in Calls : my[c] # 0 <=> pc[c] \in Driving \cup {"release"}
  /\ \A c \in Calls : my[c] # 0 => my[c] <= top[op[c]]
  /\ \A o \in Calls : claim[o] <= top[o]
  /\ \A o \in Calls : state[o] = "absent" => claim[o] = 0
  /\ \A c, d \in Calls : (my[c] # 0 /\ my[c] = my[d] /\ op[c] = op[d]) => c = d

\* The states in which a driver that owns its operation can be at a label.
Expected(l) ==
  CASE l = "validate" -> {"accepted"}
    [] l = "reserve" -> {"authority_validated"}
    [] l = "start" -> {"authority_validated", "reserved"}
    [] l \in {"dispatch", "executing", "failed", "reconcile", "link"} ->
         {"domain_append_started"}
    [] l = "block" -> {"domain_append_started", "domain_records_linked"}
    [] l \in {"rebuild", "build"} -> {"domain_records_linked"}
    [] l = "finish" -> {"result_built"}
    [] OTHER -> States

Owned == \A c \in Calls : Owns(c) => state[op[c]] \in Expected(pc[c])

\* A record that is still the last one is as it was read.
Snapshot ==
  \A c \in Calls : (same[c] /\ op[c] # None) => seen[c] = <<state[op[c]], claim[op[c]]>>

\* Before domain_append_started, and after a refusal, nobody is or was at
\* the domain owner; one call at most is about to dispatch.
Undispatched ==
  /\ \A o \in Calls : state[o] \in PreDispatch \cup Refused \cup {"absent"} =>
       /\ dispatches[o] = 0 /\ ~facts[o]
       /\ \A c \in Calls : pc[c] \in {"dispatch", "executing"} => op[c] # o
  /\ \A c \in Calls : pc[c] = "dispatch" => dispatches[op[c]] = 0
  /\ \A c, d \in Calls :
       (pc[c] = "dispatch" /\ pc[d] = "dispatch" /\ op[c] = op[d]) => c = d
  /\ DispatchAtMostOnce

\* Whoever is about to link or build has seen the facts.
Effects ==
  /\ \A c \in Calls : pc[c] \in {"link", "build"} => facts[op[c]]
  /\ \A c \in Calls : (pc[c] = "release" /\ err[c] = "none") => state[op[c]] = "completed"
  /\ ResultHasFacts

IInv == /\ TypeOK
        /\ Places
        /\ Epochs
        /\ Owned
        /\ Snapshot
        /\ Undispatched
        /\ Effects

LEMMA InitInv == ASSUME Init PROVE IInv
  BY ControlAssumption
  DEF Init, IInv, TypeOK, OpIds, Errors, Places, Epochs, Owned, Owns, Snapshot,
      Undispatched, DispatchAtMostOnce, Effects, ResultHasFacts,
      Labels, Driving, Over, PreCreate, NeedsOp, States, PreDispatch, Terminal, Refused

\* A step of c outside drive, or one that ends the call: it may read another
\* operation and write an index, but not the journal.
LEMMA LocalStepTo ==
  ASSUME IInv, NEW c \in Calls, NEW l \in Labels, NEW x \in OpIds, NEW e \in Errors,
         NEW v \in (States \cup {"absent"}) \X Nat, NEW b \in BOOLEAN,
         pc[c] # "idle", l # "idle", l \notin Driving \cup {"release"},
         l \in PreCreate => pc[c] \in PreCreate,
         x # None => state[x] # "absent",
         l \in NeedsOp => x # None,
         (l \in {"unlock", "unlockPrepared"} /\ e = "none") => x # None,
         l = "completed" => state[x] = "completed",
         (b /\ x # None) => v = <<state[x], claim[x]>>,
         pc' = [pc EXCEPT ![c] = l], op' = [op EXCEPT ![c] = x],
         err' = [err EXCEPT ![c] = e], seen' = [seen EXCEPT ![c] = v],
         same' = [same EXCEPT ![c] = b], my' = [my EXCEPT ![c] = 0],
         UNCHANGED <<state, claim, fresh, top, head, facts, dispatches, want>>,
         prepared' \in [Actions -> OpIds], idempotency' \in [Keys -> OpIds],
         lock' \in [Actions \cup Keys -> OpIds \cup {Departed}],
         \A a \in Actions : prepared'[a] # None => state[prepared'[a]] # "absent",
         \A k \in Keys : idempotency'[k] # None => state[idempotency'[k]] # "absent"
  PROVE  IInv'
<1>. USE DEF IInv
<1>1. TypeOK'
  BY DEF TypeOK
<1>2. Places'
  BY DEF TypeOK, OpIds, Places
<1>3. Epochs'
  BY DEF TypeOK, OpIds, Places, Epochs, NeedsOp
<1>4. Owned'
  BY DEF TypeOK, Epochs, Owned, Owns
<1>5. Snapshot'
  BY DEF TypeOK, OpIds, Snapshot
<1>6. Undispatched'
  BY DEF TypeOK, Undispatched, DispatchAtMostOnce, Driving
<1>7. Effects'
  BY DEF TypeOK, Effects, ResultHasFacts, Driving
<1>. QED BY <1>1, <1>2, <1>3, <1>4, <1>5, <1>6, <1>7

\* The same, with the new values of c as they are after the step.
LocalValues(c) ==
  /\ pc'[c] \in Labels /\ op'[c] \in OpIds /\ err'[c] \in Errors /\ same'[c] \in BOOLEAN
  /\ seen'[c] \in (States \cup {"absent"}) \X Nat
  /\ pc[c] # "idle" /\ pc'[c] # "idle" /\ pc'[c] \notin Driving \cup {"release"}
  /\ pc'[c] \in PreCreate => pc[c] \in PreCreate
  /\ op'[c] # None => state[op'[c]] # "absent"
  /\ pc'[c] \in NeedsOp => op'[c] # None
  /\ (pc'[c] \in {"unlock", "unlockPrepared"} /\ err'[c] = "none") => op'[c] # None
  /\ pc'[c] = "completed" => state[op'[c]] = "completed"
  /\ (same'[c] /\ op'[c] # None) => seen'[c] = <<state[op'[c]], claim[op'[c]]>>
LocalFrame(c) ==
  /\ pc' = [pc EXCEPT ![c] = pc'[c]] /\ op' = [op EXCEPT ![c] = op'[c]]
  /\ err' = [err EXCEPT ![c] = err'[c]] /\ seen' = [seen EXCEPT ![c] = seen'[c]]
  /\ same' = [same EXCEPT ![c] = same'[c]] /\ my' = [my EXCEPT ![c] = 0]
  /\ UNCHANGED <<state, claim, fresh, top, head, facts, dispatches, want>>
  /\ lock' \in [Actions \cup Keys -> OpIds \cup {Departed}]
  /\ prepared' \in [Actions -> OpIds] /\ idempotency' \in [Keys -> OpIds]
  /\ \A a \in Actions : prepared'[a] # None => state[prepared'[a]] # "absent"
  /\ \A k \in Keys : idempotency'[k] # None => state[idempotency'[k]] # "absent"

LEMMA LocalStep ==
  ASSUME IInv, NEW c \in Calls, LocalValues(c), LocalFrame(c) PROVE IInv'
<1>. USE DEF LocalValues, LocalFrame
<1>1. PICK l \in Labels : l = pc'[c]
  OBVIOUS
<1>2. PICK x \in OpIds : x = op'[c]
  OBVIOUS
<1>3. PICK e \in Errors : e = err'[c]
  OBVIOUS
<1>4. PICK v \in (States \cup {"absent"}) \X Nat : v = seen'[c]
  OBVIOUS
<1>5. PICK b \in BOOLEAN : b = same'[c]
  OBVIOUS
<1>6. /\ pc' = [pc EXCEPT ![c] = l] /\ op' = [op EXCEPT ![c] = x]
      /\ err' = [err EXCEPT ![c] = e] /\ seen' = [seen EXCEPT ![c] = v]
      /\ same' = [same EXCEPT ![c] = b]
  BY <1>1, <1>2, <1>3, <1>4, <1>5
<1>7. /\ l # "idle" /\ l \notin Driving \cup {"release"}
      /\ l \in PreCreate => pc[c] \in PreCreate
      /\ x # None => state[x] # "absent"
      /\ l \in NeedsOp => x # None
      /\ (l \in {"unlock", "unlockPrepared"} /\ e = "none") => x # None
      /\ l = "completed" => state[x] = "completed"
      /\ (b /\ x # None) => v = <<state[x], claim[x]>>
  BY <1>1, <1>2, <1>3, <1>4, <1>5
<1>. QED BY <1>6, <1>7, LocalStepTo

\* A step of a driver between two journal writes.
LEMMA DriveStep ==
  ASSUME IInv, NEW c \in Calls, NEW l \in Driving \cup {"release"}, NEW e \in Errors,
         pc[c] \in Driving, l \notin {"dispatch", "executing"},
         Owns(c) => state[op[c]] \in Expected(l),
         l \in {"link", "build"} => facts'[op[c]],
         l = "release" => e # "none",
         \/ facts' = facts
         \/ facts' = [facts EXCEPT ![op[c]] = TRUE] /\ pc[c] = "executing",
         pc' = [pc EXCEPT ![c] = l], err' = [err EXCEPT ![c] = e],
         UNCHANGED <<state, claim, fresh, top, prepared, idempotency, lock, head,
                     dispatches, want, op, seen, same, my>>
  PROVE  IInv'
<1>. USE DEF IInv
<1>0. op[c] \in Calls /\ l \in Labels /\ l \notin PreCreate /\ pc[c] \notin PreCreate /\ l # "idle"
      /\ pc[c] # "idle"
  BY DEF TypeOK, OpIds, Places, NeedsOp, Driving, PreCreate, Labels
<1>1. TypeOK'
  BY <1>0 DEF TypeOK
<1>2. Places'
  BY <1>0 DEF TypeOK, OpIds, Places, NeedsOp, Driving
<1>3. Epochs'
  BY <1>0 DEF TypeOK, OpIds, Epochs
<1>4. Owned'
  BY <1>0 DEF TypeOK, Owned, Owns
<1>5. Snapshot'
  BY DEF Snapshot
<1>6. Undispatched'
  BY <1>0 DEF TypeOK, Undispatched, DispatchAtMostOnce
<1>7. Effects'
  <2>1. \A o \in Calls : facts[o] => facts'[o]
    BY <1>0 DEF TypeOK
  <2>2. \A d \in Calls : pc[d] \in {"link", "build"} => op[d] \in Calls
    BY DEF TypeOK, OpIds, Places, NeedsOp, Driving
  <2>. QED BY <1>0, <2>1, <2>2 DEF TypeOK, Effects, ResultHasFacts, Driving
<1>. QED BY <1>1, <1>2, <1>3, <1>4, <1>5, <1>6, <1>7

\* A step of c that writes a revision of its operation: state s, claim k.
LEMMA WriteStep ==
  ASSUME IInv, NEW c \in Calls, NEW l \in Labels, NEW s \in States, NEW k \in Nat,
         NEW m \in Nat, NEW e \in Errors, NEW v \in (States \cup {"absent"}) \X Nat,
         op[c] \in Calls, pc[c] # "idle", l \notin PreCreate, l \notin {"executing", "unlock", "unlockPrepared"},
         Append(op[c], s, k),
         m # 0 <=> l \in Driving \cup {"release"},
         m = 0 \/ m = my[c] \/ (m = top[op[c]] + 1 /\ k = m),
         k = 0 \/ k = top[op[c]] + 1 \/ (k = my[c] /\ m = my[c]),
         (m # 0 /\ k = m) => s \in Expected(l),
         s \in PreDispatch \cup Refused => state[op[c]] \in PreDispatch \cup Refused,
         l = "dispatch" => state[op[c]] \in PreDispatch /\ s = "domain_append_started",
         s \in {"domain_records_linked", "result_built", "completed"} => facts[op[c]],
         l \in {"link", "build"} => facts[op[c]],
         (l = "release" /\ e = "none") \/ l = "completed" => s = "completed",
         state[op[c]] = "completed" => s = "completed",
         pc' = [pc EXCEPT ![c] = l], my' = [my EXCEPT ![c] = m],
         err' = [err EXCEPT ![c] = e], seen' = [seen EXCEPT ![c] = v],
         UNCHANGED <<prepared, idempotency, lock, head, facts, dispatches, want, op>>
  PROVE  IInv'
<1>. USE DEF IInv, Append
<1>0. "absent" \notin States /\ op[c] # None /\ l # "idle" /\ state[op[c]] # "absent"
  BY ControlAssumption DEF States, PreDispatch, Terminal, Refused, TypeOK, Places, PreCreate
<1>1. TypeOK'
  BY <1>0 DEF TypeOK
<1>2. Places'
  BY <1>0 DEF TypeOK, OpIds, Places
<1>3. Epochs'
  <2>1. \A d \in Calls : my'[d] # 0 <=> pc'[d] \in Driving \cup {"release"}
    BY DEF TypeOK, Epochs
  <2>2. \A d \in Calls : my'[d] # 0 => my'[d] <= top'[op'[d]]
    <3>. SUFFICES ASSUME NEW d \in Calls, my'[d] # 0 PROVE my'[d] <= top'[op'[d]]
      OBVIOUS
    <3>1. CASE d = c
      BY <3>1 DEF TypeOK, Epochs
    <3>2. CASE d # c
      <4>1. my[d] # 0 /\ op[d] \in Calls
        BY <3>2 DEF TypeOK, OpIds, Epochs, Places, NeedsOp
      <4>. QED BY <3>2, <4>1 DEF TypeOK, Epochs
    <3>. QED BY <3>1, <3>2
  <2>3. \A o \in Calls : claim'[o] <= top'[o]
    BY DEF TypeOK, Epochs
  <2>4. \A o \in Calls : state'[o] = "absent" => claim'[o] = 0
    BY <1>0 DEF TypeOK, Epochs
  <2>5. \A d1, d2 \in Calls : (my'[d1] # 0 /\ my'[d1] = my'[d2] /\ op'[d1] = op'[d2]) => d1 = d2
    BY DEF TypeOK, Epochs
  <2>. QED BY <2>1, <2>2, <2>3, <2>4, <2>5 DEF Epochs
<1>4. Owned'
  <2>. SUFFICES ASSUME NEW d \in Calls, Owns(d)' PROVE state'[op'[d]] \in Expected(pc'[d])
    BY DEF Owned
  <2>1. CASE d = c
    BY <2>1 DEF TypeOK, Owns
  <2>2. CASE d # c /\ op[d] = op[c]
    BY <2>2 DEF TypeOK, Owns, Epochs
  <2>3. CASE d # c /\ op[d] # op[c]
    <3>1. op[d] \in Calls /\ my[d] # 0
      BY <2>3 DEF TypeOK, OpIds, Owns, Epochs, Places, NeedsOp
    <3>. QED BY <2>3, <3>1 DEF TypeOK, Owns, Owned
  <2>. QED BY <2>1, <2>2, <2>3
<1>5. Snapshot'
  BY DEF TypeOK, OpIds, Snapshot
<1>6. Undispatched'
  <2>1. ASSUME NEW o \in Calls, state'[o] \in PreDispatch \cup Refused \cup {"absent"}
        PROVE  /\ dispatches'[o] = 0 /\ ~facts'[o]
               /\ \A d \in Calls : pc'[d] \in {"dispatch", "executing"} => op'[d] # o
    <3>1. CASE o = op[c]
      <4>1. state[o] \in PreDispatch \cup Refused /\ s \in PreDispatch \cup Refused
        BY <1>0, <2>1, <3>1 DEF TypeOK
      <4>2. l # "dispatch"
        BY <4>1, <3>1 DEF PreDispatch, Refused
      <4>. QED BY <3>1, <4>1, <4>2 DEF TypeOK, Undispatched
    <3>2. CASE o # op[c]
      BY <2>1, <3>2 DEF TypeOK, Undispatched
    <3>. QED BY <3>1, <3>2
  <2>2. \A d \in Calls : pc'[d] = "dispatch" => dispatches'[op'[d]] = 0
    BY DEF TypeOK, Undispatched
  <2>3. \A d1, d2 \in Calls :
          (pc'[d1] = "dispatch" /\ pc'[d2] = "dispatch" /\ op'[d1] = op'[d2]) => d1 = d2
    BY DEF TypeOK, Undispatched
  <2>. QED BY <2>1, <2>2, <2>3 DEF Undispatched, DispatchAtMostOnce
<1>7. Effects'
  <2>1. \A d \in Calls : pc[d] \in {"completed", "release"} => op[d] \in Calls
    BY DEF TypeOK, OpIds, Places, NeedsOp
  <2>. QED BY <1>0, <2>1 DEF TypeOK, Effects, ResultHasFacts
<1>. QED BY <1>1, <1>2, <1>3, <1>4, <1>5, <1>6, <1>7

LEMMA CheckInv == ASSUME IInv, NEW c \in Calls, Check(c) PROVE IInv'
<1>. USE DEF IInv
<1>1. my[c] = 0 /\ pc[c] \in PreCreate /\ pc[c] # "idle"
  BY DEF Check, TypeOK, Epochs, Driving, PreCreate
<1>2. /\ pc'[c] \in {"lockPrepared", "acquire", "catch"}
      /\ pc'[c] = "acquire" => op[c] # None
      /\ err'[c] \in Errors /\ op'[c] = op[c] /\ seen'[c] = seen[c] /\ same'[c] = same[c]
  BY DEF Check, Goto, Throw, Report, NoReport, TypeOK, Errors
<1>3. LocalFrame(c)
  BY <1>1 DEF Check, Goto, Throw, Report, NoReport, TypeOK, Places, LocalFrame,
              journal, indexes, world
<1>4. LocalValues(c)
  BY <1>1, <1>2 DEF LocalValues, TypeOK, Places, Snapshot, Labels, Driving, NeedsOp, PreCreate
<1>. QED
  BY <1>3, <1>4, LocalStep

\* The search by index or by scan, before any claim.
LEMMA FindStepInv ==
  ASSUME IInv, NEW c \in Calls, my[c] = 0, pc[c] \in PreCreate, pc[c] # "idle",
         NEW i \in OpIds, i # None => state[i] # "absent",
         NEW ws, \A o \in ws : o \in Calls /\ state[o] # "absent",
         NEW hit \in Labels, NEW none \in Labels, NEW scanned \in Labels, NEW corrupt \in Labels,
         {hit, none, scanned, corrupt} \cap (Driving \cup {"release", "completed", "idle"}) = {},
         none \notin NeedsOp \cup {"unlock", "unlockPrepared"}, corrupt \notin NeedsOp,
         FindStep(c, i, ws, hit, none, scanned, corrupt),
         UNCHANGED <<state, claim, fresh, top, prepared, idempotency, lock, head, facts,
                     dispatches, want, my>>
  PROVE  IInv'
<1>. USE DEF IInv
<1>2. CASE i # None /\ Read(c, i) /\ Goto(c, hit) /\ NoReport
  <2>1. /\ op'[c] = i /\ seen'[c] = <<state[i], claim[i]>> /\ same'[c] = TRUE
        /\ pc'[c] = hit /\ err'[c] = err[c] /\ i \in Calls
    BY <1>2 DEF Read, Goto, NoReport, TypeOK, OpIds
  <2>2. LocalFrame(c)
    BY <1>2 DEF Read, Goto, NoReport, TypeOK, Places, LocalFrame
  <2>3. seen'[c] \in (States \cup {"absent"}) \X Nat /\ hit \notin Driving \cup {"release", "completed", "idle"}
    BY <2>1 DEF TypeOK
  <2>4. LocalValues(c)
    BY <1>2, <2>1, <2>3 DEF LocalValues, TypeOK
  <2>. QED BY <2>2, <2>4, LocalStep
<1>3. CASE i = None /\ ws = {} /\ Goto(c, none) /\ UNCHANGED <<op, seen, same, err>>
  <2>1. /\ op'[c] = op[c] /\ seen'[c] = seen[c] /\ same'[c] = same[c]
        /\ pc'[c] = none /\ err'[c] = err[c]
    BY <1>3 DEF Goto, TypeOK
  <2>2. LocalFrame(c)
    BY <1>3 DEF Goto, TypeOK, Places, LocalFrame
  <2>3. LocalValues(c)
    BY <1>3, <2>1 DEF LocalValues, TypeOK, Places, Snapshot
  <2>. QED BY <2>2, <2>3, LocalStep
<1>4. ASSUME NEW o \in ws, Read(c, o), Goto(c, scanned), NoReport PROVE IInv'
  <2>1. /\ op'[c] = o /\ seen'[c] = <<state[o], claim[o]>> /\ same'[c] = TRUE
        /\ pc'[c] = scanned /\ err'[c] = err[c] /\ o \in Calls /\ o # None
    BY <1>4, ControlAssumption DEF Read, Goto, NoReport, TypeOK
  <2>2. LocalFrame(c)
    BY <1>4 DEF Read, Goto, NoReport, TypeOK, Places, LocalFrame
  <2>3. /\ seen'[c] \in (States \cup {"absent"}) \X Nat
        /\ scanned \notin Driving \cup {"release", "completed", "idle"}
    BY <2>1 DEF TypeOK
  <2>4. LocalValues(c)
    BY <1>4, <2>1, <2>3 DEF LocalValues, TypeOK, OpIds
  <2>. QED BY <2>2, <2>4, LocalStep
<1>5. CASE /\ Goto(c, corrupt) /\ Report(c, "internal") /\ UNCHANGED <<op, seen, same>>
  <2>1. /\ op'[c] = op[c] /\ seen'[c] = seen[c] /\ same'[c] = same[c]
        /\ pc'[c] = corrupt /\ err'[c] = "internal" /\ "internal" \in Errors
    BY <1>5 DEF Goto, Report, TypeOK, Errors
  <2>2. LocalFrame(c)
    BY <1>5 DEF Goto, Report, TypeOK, Places, LocalFrame
  <2>3. LocalValues(c)
    BY <1>5, <2>1 DEF LocalValues, TypeOK, Places, Snapshot
  <2>. QED BY <2>2, <2>3, LocalStep
<1>. QED BY <1>2, <1>3, <1>4, <1>5 DEF FindStep

LEMMA FindInv == ASSUME IInv, NEW c \in Calls, Find(c) PROVE IInv'
<1>. USE DEF IInv
<1>1. /\ my[c] = 0 /\ pc[c] \in PreCreate /\ pc[c] # "idle" /\ want[c] \in Actions
      /\ prepared[want[c]] \in OpIds
      /\ prepared[want[c]] # None => state[prepared[want[c]]] # "absent"
  BY DEF Find, TypeOK, Epochs, Driving, PreCreate, Places
<1>2. /\ {"check", "indexFirst", "catch"} \subseteq Labels
      /\ {"check", "indexFirst", "catch"} \cap (Driving \cup {"release", "completed", "idle"}) = {}
      /\ {"check", "catch"} \cap (NeedsOp \cup {"unlock", "unlockPrepared"}) = {}
  BY DEF Labels, Driving, NeedsOp
<1>3. \A o \in Winners(want[c]) : o \in Calls /\ state[o] # "absent"
  BY DEF Winners
<1>. QED BY <1>1, <1>2, <1>3, FindStepInv DEF Find, journal, indexes, world

LEMMA AcceptPreparedInv == ASSUME IInv, NEW c \in Calls, AcceptPrepared(c) PROVE IInv'
<1>. USE DEF IInv
<1>1. /\ my[c] = 0 /\ pc[c] \in PreCreate /\ pc[c] # "idle" /\ want[c] \in Actions
      /\ prepared[want[c]] \in OpIds
      /\ prepared[want[c]] # None => state[prepared[want[c]]] # "absent"
  BY DEF AcceptPrepared, TypeOK, Epochs, Driving, PreCreate, Places
<1>2. /\ {"unlockPrepared", "lockKey", "indexPrepared"} \subseteq Labels
      /\ {"unlockPrepared", "lockKey", "indexPrepared"} \cap
           (Driving \cup {"release", "completed", "idle"}) = {}
      /\ "lockKey" \notin NeedsOp \cup {"unlock", "unlockPrepared"} /\ "unlockPrepared" \notin NeedsOp
  BY DEF Labels, Driving, NeedsOp
<1>3. \A o \in Winners(want[c]) : o \in Calls /\ state[o] # "absent"
  BY DEF Winners
<1>. QED BY <1>1, <1>2, <1>3, FindStepInv DEF AcceptPrepared, journal, indexes, world

LEMMA AcceptKeyInv == ASSUME IInv, NEW c \in Calls, AcceptKey(c) PROVE IInv'
<1>. USE DEF IInv
<1>1. /\ my[c] = 0 /\ pc[c] \in PreCreate /\ pc[c] # "idle" /\ KeyOf[c] \in Keys
      /\ idempotency[KeyOf[c]] \in OpIds
      /\ idempotency[KeyOf[c]] # None => state[idempotency[KeyOf[c]]] # "absent"
  BY ControlAssumption DEF AcceptKey, TypeOK, Epochs, Driving, PreCreate, Places
<1>2. /\ {"unlock", "create", "indexKey"} \subseteq Labels
      /\ {"unlock", "create", "indexKey"} \cap (Driving \cup {"release", "completed", "idle"}) = {}
      /\ "create" \notin NeedsOp \cup {"unlock", "unlockPrepared"} /\ "unlock" \notin NeedsOp
  BY DEF Labels, Driving, NeedsOp
<1>3. \A o \in KeyWinners(KeyOf[c]) : o \in Calls /\ state[o] # "absent"
  BY DEF KeyWinners
<1>. QED BY <1>1, <1>2, <1>3, FindStepInv DEF AcceptKey, journal, indexes, world

LEMMA IndexFirstInv == ASSUME IInv, NEW c \in Calls, IndexFirst(c) PROVE IInv'
<1>. USE DEF IInv
<1>1. /\ my[c] = 0 /\ pc[c] = "indexFirst" /\ want[c] \in Actions
      /\ op[c] \in Calls /\ state[op[c]] # "absent"
  BY DEF IndexFirst, TypeOK, OpIds, Epochs, Driving, Places, NeedsOp
<1>2. /\ pc'[c] \in {"check", "catch"} /\ op'[c] \in {op[c], None}
      /\ err'[c] \in Errors /\ seen'[c] = seen[c] /\ same'[c] = same[c]
  BY DEF IndexFirst, WriteIndex, Goto, Throw, Report, TypeOK, Errors
<1>3. LocalFrame(c)
  <2>1. /\ prepared' \in [Actions -> OpIds]
        /\ \A a \in Actions : prepared'[a] # None => state[prepared'[a]] # "absent"
    BY <1>1 DEF IndexFirst, WriteIndex, TypeOK, OpIds, Places
  <2>. QED BY <1>1, <2>1 DEF IndexFirst, Goto, Throw, Report, TypeOK, Places, LocalFrame,
                             journal, world
<1>4. LocalValues(c)
  BY <1>1, <1>2 DEF LocalValues, TypeOK, OpIds, Snapshot, Labels, Driving, NeedsOp, PreCreate
<1>. QED BY <1>3, <1>4, LocalStep

LEMMA AcceptLockInv == ASSUME IInv, NEW c \in Calls, AcceptLock(c) PROVE IInv'
<1>. USE DEF IInv
<1>1. /\ my[c] = 0 /\ pc[c] \in PreCreate /\ pc[c] # "idle" /\ want[c] \in Actions
      /\ KeyOf[c] \in Keys
  BY ControlAssumption DEF AcceptLock, LockStep, TypeOK, Epochs, Driving, Places, PreCreate
<1>2. /\ pc'[c] \in {"lockPrepared", "breakPrepared", "acceptPrepared", "lockKey", "breakKey",
                     "acceptKey", "catch", "unlockPrepared"}
      /\ err'[c] \in Errors
      /\ pc'[c] = "unlockPrepared" => err'[c] = "busy"
      /\ op'[c] = op[c] /\ seen'[c] = seen[c] /\ same'[c] = same[c]
  BY DEF AcceptLock, LockStep, Goto, Report, NoReport, TypeOK, Errors
<1>3. LocalFrame(c)
  BY <1>1 DEF AcceptLock, LockStep, Goto, Report, NoReport, TypeOK, OpIds, Places, LocalFrame,
              journal, indexes, world
<1>4. LocalValues(c)
  <2>1. /\ pc'[c] \in Labels /\ pc'[c] # "idle" /\ pc'[c] \notin Driving \cup {"release", "completed"}
        /\ pc'[c] \notin NeedsOp /\ pc'[c] # "unlock"
    BY <1>2 DEF Labels, Driving, NeedsOp
  <2>2. /\ op[c] \in OpIds
        /\ op[c] # None => state[op[c]] # "absent"
        /\ seen[c] \in (States \cup {"absent"}) \X Nat /\ same[c] \in BOOLEAN
        /\ (same[c] /\ op[c] # None) => seen[c] = <<state[op[c]], claim[op[c]]>>
    BY DEF TypeOK, Places, Snapshot
  <2>. QED BY <1>1, <1>2, <2>1, <2>2 DEF LocalValues
<1>. QED BY <1>3, <1>4, LocalStep

LEMMA IndexPreparedInv == ASSUME IInv, NEW c \in Calls, IndexPrepared(c) PROVE IInv'
<1>. USE DEF IInv
<1>1. /\ my[c] = 0 /\ pc[c] = "indexPrepared" /\ want[c] \in Actions
      /\ op[c] \in Calls /\ state[op[c]] # "absent"
  BY DEF IndexPrepared, TypeOK, OpIds, Epochs, Driving, Places, NeedsOp
<1>2. /\ pc'[c] \in {"indexKey", "unlock", "unlockPrepared"} /\ err'[c] \in Errors
      /\ op'[c] = op[c] /\ seen'[c] = seen[c] /\ same'[c] = same[c]
  BY DEF IndexPrepared, WriteIndex, Goto, NoReport, Report, TypeOK, Errors
<1>3. LocalFrame(c)
  <2>1. /\ prepared' \in [Actions -> OpIds]
        /\ \A a \in Actions : prepared'[a] # None => state[prepared'[a]] # "absent"
    BY <1>1, ZenonT(60) DEF IndexPrepared, WriteIndex, TypeOK, OpIds, Places
  <2>. QED BY <1>1, <2>1 DEF IndexPrepared, Goto, NoReport, Report, TypeOK, Places,
                             LocalFrame, journal, world
<1>4. op[c] # None
  BY <1>1, ControlAssumption
<1>5. LocalValues(c)
  BY <1>1, <1>2, <1>4 DEF LocalValues, TypeOK, OpIds, Snapshot, Labels, Driving, NeedsOp, PreCreate
<1>. QED BY <1>3, <1>5, LocalStep

LEMMA IndexKeyInv == ASSUME IInv, NEW c \in Calls, IndexKey(c) PROVE IInv'
<1>. USE DEF IInv
<1>1. /\ my[c] = 0 /\ pc[c] = "indexKey" /\ KeyOf[c] \in Keys
      /\ op[c] \in Calls /\ state[op[c]] # "absent"
  BY ControlAssumption, ZenonT(60) DEF IndexKey, TypeOK, OpIds, Epochs, Driving, Places, NeedsOp
<1>2. /\ pc'[c] = "unlock" /\ err'[c] \in Errors
      /\ op'[c] = op[c] /\ seen'[c] = seen[c] /\ same'[c] = same[c]
  BY DEF IndexKey, WriteIndex, Goto, Report, TypeOK, Errors
<1>3. LocalFrame(c)
  <2>1. /\ idempotency' \in [Keys -> OpIds]
        /\ \A k \in Keys : idempotency'[k] # None => state[idempotency'[k]] # "absent"
    BY <1>1 DEF IndexKey, WriteIndex, TypeOK, OpIds, Places
  <2>. QED BY <1>1, <2>1 DEF IndexKey, Goto, Report, TypeOK, Places, LocalFrame, journal, world
<1>4. op[c] # None
  BY <1>1, ControlAssumption
<1>5. LocalValues(c)
  BY <1>1, <1>2, <1>4 DEF LocalValues, TypeOK, OpIds, Snapshot, Labels, Driving, NeedsOp, PreCreate
<1>. QED BY <1>3, <1>5, LocalStep

LEMMA UnlockInv == ASSUME IInv, NEW c \in Calls, Unlock(c) PROVE IInv'
<1>. USE DEF IInv
<1>1. /\ my[c] = 0 /\ pc[c] \in {"unlock", "unlockPrepared"}
      /\ op[c] # None => op[c] \in Calls /\ state[op[c]] # "absent"
      /\ err[c] = "none" => op[c] # None
  BY DEF Unlock, TypeOK, OpIds, Epochs, Driving, Places
<1>2. /\ pc'[c] \in {"acquire", "catch"} /\ op'[c] \in {op[c], None} /\ err'[c] \in Errors
      /\ pc'[c] = "acquire" => err[c] = "none" /\ op'[c] = op[c]
      /\ seen'[c] = seen[c] /\ same'[c] = same[c]
  BY DEF Unlock, Goto, Throw, Report, TypeOK, Errors
<1>3. LocalFrame(c)
  <2>1. lock' \in [Actions \cup Keys -> OpIds \cup {Departed}]
    BY DEF Unlock, TypeOK, OpIds
  <2>. QED BY <1>1, <2>1 DEF Unlock, Goto, Throw, Report, TypeOK, Places, LocalFrame,
                             journal, indexes, world
<1>4. LocalValues(c)
  BY <1>1, <1>2 DEF LocalValues, TypeOK, OpIds, Snapshot, Labels, Driving, NeedsOp, PreCreate
<1>. QED BY <1>3, <1>4, LocalStep

\* A call ends without a write.
LEMMA LeaveInv ==
  ASSUME IInv, NEW c \in Calls, NEW l \in Over, pc[c] # "idle", Leave(c, l), NoWrite(c),
         l = "completed" => op[c] # None /\ state[op[c]] = "completed",
         UNCHANGED <<prepared, idempotency, lock, head, facts, dispatches, want, op>>
  PROVE  IInv'
<1>. USE DEF IInv
<1>1. /\ pc'[c] = l /\ err'[c] = "none" /\ seen'[c] = <<"absent", 0>> /\ same'[c] = FALSE
      /\ op'[c] = op[c]
  BY DEF Leave, Goto, Report, NoWrite, TypeOK
<1>2. LocalFrame(c)
  BY DEF Leave, Goto, Report, NoWrite, TypeOK, Places, LocalFrame, journal
<1>3. LocalValues(c)
  <2>1. /\ l \in Labels /\ l # "idle" /\ l \notin Driving \cup {"release", "unlock", "unlockPrepared"}
        /\ l \notin PreCreate
        /\ l \in NeedsOp => l = "completed"
        /\ "none" \in Errors
    BY DEF Over, Labels, Driving, NeedsOp, PreCreate, Errors
  <2>2. /\ op[c] \in OpIds
        /\ op[c] # None => state[op[c]] # "absent"
    BY DEF TypeOK, Places
  <2>3. <<"absent", 0>> \in (States \cup {"absent"}) \X Nat
    OBVIOUS
  <2>. QED BY <1>1, <2>1, <2>2, <2>3 DEF LocalValues
<1>. QED BY <1>2, <1>3, LocalStep

LEMMA CrashInv == ASSUME IInv, NEW c \in Calls, Crash(c) PROVE IInv'
  BY LeaveInv DEF Crash, Over, indexes, world

\* WriteStep and DriveStep with the new values as they are after the step.
WriteValues(c) ==
  LET o == op[c] IN
  /\ pc'[c] \in Labels /\ state'[o] \in States /\ claim'[o] \in Nat /\ my'[c] \in Nat
  /\ err'[c] \in Errors /\ seen'[c] \in (States \cup {"absent"}) \X Nat
  /\ pc[c] # "idle" /\ pc'[c] \notin PreCreate
  /\ pc'[c] \notin {"executing", "unlock", "unlockPrepared"}
  /\ my'[c] # 0 <=> pc'[c] \in Driving \cup {"release"}
  /\ my'[c] = 0 \/ my'[c] = my[c] \/ (my'[c] = top[o] + 1 /\ claim'[o] = my'[c])
  /\ claim'[o] = 0 \/ claim'[o] = top[o] + 1 \/ (claim'[o] = my[c] /\ my'[c] = my[c])
  /\ (my'[c] # 0 /\ claim'[o] = my'[c]) => state'[o] \in Expected(pc'[c])
  /\ state'[o] \in PreDispatch \cup Refused => state[o] \in PreDispatch \cup Refused
  /\ pc'[c] = "dispatch" => state[o] \in PreDispatch /\ state'[o] = "domain_append_started"
  /\ state'[o] \in {"domain_records_linked", "result_built", "completed"} => facts[o]
  /\ pc'[c] \in {"link", "build"} => facts[o]
  /\ ((pc'[c] = "release" /\ err'[c] = "none") \/ pc'[c] = "completed") => state'[o] = "completed"
  /\ state[o] = "completed" => state'[o] = "completed"
WriteFrame(c) ==
  /\ op[c] \in Calls /\ Append(op[c], state'[op[c]], claim'[op[c]])
  /\ pc' = [pc EXCEPT ![c] = pc'[c]] /\ my' = [my EXCEPT ![c] = my'[c]]
  /\ err' = [err EXCEPT ![c] = err'[c]] /\ seen' = [seen EXCEPT ![c] = seen'[c]]
  /\ UNCHANGED <<prepared, idempotency, lock, head, facts, dispatches, want, op>>

LEMMA WriteStepOf ==
  ASSUME IInv, NEW c \in Calls, WriteValues(c), WriteFrame(c) PROVE IInv'
<1>. USE DEF WriteValues, WriteFrame
<1>1. PICK l \in Labels : l = pc'[c]
  OBVIOUS
<1>2. PICK s \in States : s = state'[op[c]]
  OBVIOUS
<1>3. PICK k \in Nat : k = claim'[op[c]]
  OBVIOUS
<1>4. PICK m \in Nat : m = my'[c]
  OBVIOUS
<1>5. PICK e \in Errors : e = err'[c]
  OBVIOUS
<1>6. PICK v \in (States \cup {"absent"}) \X Nat : v = seen'[c]
  OBVIOUS
<1>7. /\ pc' = [pc EXCEPT ![c] = l] /\ my' = [my EXCEPT ![c] = m]
      /\ err' = [err EXCEPT ![c] = e] /\ seen' = [seen EXCEPT ![c] = v]
      /\ Append(op[c], s, k)
  BY <1>1, <1>2, <1>3, <1>4, <1>5, <1>6
<1>8. /\ l \notin PreCreate /\ l \notin {"executing", "unlock", "unlockPrepared"}
      /\ m # 0 <=> l \in Driving \cup {"release"}
      /\ m = 0 \/ m = my[c] \/ (m = top[op[c]] + 1 /\ k = m)
      /\ k = 0 \/ k = top[op[c]] + 1 \/ (k = my[c] /\ m = my[c])
      /\ (m # 0 /\ k = m) => s \in Expected(l)
      /\ s \in PreDispatch \cup Refused => state[op[c]] \in PreDispatch \cup Refused
      /\ l = "dispatch" => state[op[c]] \in PreDispatch /\ s = "domain_append_started"
      /\ s \in {"domain_records_linked", "result_built", "completed"} => facts[op[c]]
      /\ l \in {"link", "build"} => facts[op[c]]
      /\ (l = "release" /\ e = "none") \/ l = "completed" => s = "completed"
      /\ state[op[c]] = "completed" => s = "completed"
  BY <1>1, <1>2, <1>3, <1>4, <1>5, <1>6
<1>9. pc[c] # "idle" /\ op[c] \in Calls
      /\ UNCHANGED <<prepared, idempotency, lock, head, facts, dispatches, want, op>>
  OBVIOUS
<1>. HIDE DEF WriteValues, WriteFrame
<1>. QED BY <1>7, <1>8, <1>9, WriteStep

\* The exception path of drive.
LEMMA AbandonInv ==
  ASSUME IInv, NEW c \in Calls, pc[c] \in Driving, Abandon(c),
         UNCHANGED <<state, claim, fresh, top, prepared, idempotency, lock, head, facts,
                     dispatches, want, op, seen, same, my>>
  PROVE  IInv'
<1>1. Owns(c) => state[op[c]] \in Expected("release")
  BY DEF IInv, TypeOK, OpIds, Places, NeedsOp, Owns, Expected
<1>2. "busy" \in Errors /\ "busy" # "none" /\ "release" \in Driving \cup {"release"}
      /\ "release" \notin {"dispatch", "executing", "link", "build"}
  BY DEF Errors
<1>3. pc' = [pc EXCEPT ![c] = "release"] /\ err' = [err EXCEPT ![c] = "busy"] /\ facts' = facts
  BY DEF Abandon, Goto, Report
<1>. QED BY <1>1, <1>2, <1>3, DriveStep

\* A driver that owns its operation writes a revision of it: state s, claim
\* k, and goes to l with the error e.
OwnedRevision(c, s, k, l, e) ==
  /\ pc[c] \in Driving /\ Owns(c)
  /\ s \in States /\ k \in {0, my[c]} /\ l \in Driving \cup {"release"} /\ e \in Errors
  /\ Append(op[c], s, k) /\ l # "executing"
  /\ k # 0 => s \in Expected(l)
  /\ s \in PreDispatch \cup Refused => state[op[c]] \in PreDispatch
  /\ l = "dispatch" => state[op[c]] \in PreDispatch /\ s = "domain_append_started"
  /\ s \in {"domain_records_linked", "result_built", "completed"} => facts[op[c]]
  /\ l \in {"link", "build"} => facts[op[c]]
  /\ (l = "release" /\ e = "none") => s = "completed"
  /\ state[op[c]] # "completed"
  /\ pc' = [pc EXCEPT ![c] = l] /\ err' = [err EXCEPT ![c] = e]
  /\ UNCHANGED <<prepared, idempotency, lock, head, facts, dispatches, want, op, seen, my>>

LEMMA OwnedWrite ==
  ASSUME IInv, NEW c \in Calls, NEW s, NEW k, NEW l, NEW e, OwnedRevision(c, s, k, l, e)
  PROVE  IInv'
<1>. USE DEF IInv, OwnedRevision
<1>1. /\ op[c] \in Calls /\ pc[c] # "idle" /\ my[c] \in Nat /\ my[c] # 0 /\ k \in Nat
      /\ seen[c] \in (States \cup {"absent"}) \X Nat
  BY DEF TypeOK, OpIds, Places, NeedsOp, Owns, Driving
<1>2. /\ l \in Labels /\ l \notin PreCreate /\ l \notin {"unlock", "unlockPrepared"}
      /\ l # "completed"
  BY DEF Labels, Driving, PreCreate
<1>3. /\ pc'[c] = l /\ err'[c] = e /\ my'[c] = my[c] /\ seen'[c] = seen[c]
      /\ state'[op[c]] = s /\ claim'[op[c]] = k
  BY <1>1 DEF TypeOK, Append
<1>4. WriteFrame(c)
  BY <1>1, <1>3 DEF WriteFrame, TypeOK
<1>5. WriteValues(c)
  BY <1>1, <1>2, <1>3 DEF WriteValues
<1>. QED BY <1>4, <1>5, WriteStepOf

\* updateClaimed inside drive, for a transition that fits where drive is.
Fitting(c, s, next) ==
  /\ pc[c] \in Driving /\ s \in States \ Refused
  /\ next \in (Driving \cup {"release"}) \ {"executing"}
  /\ s \notin Terminal => s \in Expected(next)
  /\ (Owns(c) /\ s \in PreDispatch) => state[op[c]] \in PreDispatch
  /\ (Owns(c) /\ next = "dispatch") =>
       state[op[c]] \in PreDispatch /\ s = "domain_append_started"
  /\ (Owns(c) /\ s \in {"domain_records_linked", "result_built", "completed"}) => facts[op[c]]
  /\ (Owns(c) /\ next \in {"link", "build"}) => facts[op[c]]
  /\ next = "release" => s = "completed"

LEMMA UpdateInv ==
  ASSUME IInv, NEW c \in Calls, NEW s, NEW next, Fitting(c, s, next), UpdateClaimed(c, s, next)
  PROVE  IInv'
<1>. DEFINE k == IF s \in Terminal THEN 0 ELSE my[c]
<1>1. /\ err[c] \in Errors /\ "busy" \in Errors
      /\ UNCHANGED <<prepared, idempotency, lock, head, facts, dispatches, want, op, seen, my>>
  BY DEF IInv, TypeOK, Errors, UpdateClaimed, indexes, world
<1>2. CASE Owns(c) /\ s \in Forward(state[op[c]]) /\ Append(op[c], s, k)
           /\ Goto(c, next) /\ NoReport
  <2>1. state[op[c]] # "completed"
    BY <1>2 DEF Forward
  <2>2. err' = [err EXCEPT ![c] = err[c]] /\ pc' = [pc EXCEPT ![c] = next]
    BY <1>2 DEF IInv, TypeOK, Goto, NoReport
  <2>3. OwnedRevision(c, s, k, next, err[c])
    BY <1>1, <1>2, <2>1, <2>2 DEF OwnedRevision, Fitting
  <2>. QED BY <2>3, OwnedWrite
<1>3. CASE Owns(c) /\ s \in Forward(state[op[c]]) /\ Append(op[c], s, k) /\ Abandon(c)
  <2>1. state[op[c]] # "completed"
    BY <1>3 DEF Forward
  <2>2. err' = [err EXCEPT ![c] = "busy"] /\ pc' = [pc EXCEPT ![c] = "release"]
    BY <1>3 DEF Abandon, Goto, Report
  <2>3. s \in States => s \in Expected("release")
    BY DEF Expected
  <2>4. OwnedRevision(c, s, k, "release", "busy")
    BY <1>1, <1>3, <2>1, <2>2, <2>3 DEF OwnedRevision, Fitting
  <2>. QED BY <2>4, OwnedWrite
<1>4. CASE Abandon(c) /\ UNCHANGED <<journal, same>>
  BY <1>4, AbandonInv DEF Fitting, UpdateClaimed, indexes, world, journal
<1>. QED BY <1>2, <1>3, <1>4 DEF UpdateClaimed

LEMMA ValidateInv == ASSUME IInv, NEW c \in Calls, Validate(c) PROVE IInv'
<1>. DEFINE next == DriveFrom("authority_validated", want[c])
<1>1. /\ pc[c] = "validate" /\ pc[c] \in Driving /\ UpdateClaimed(c, "authority_validated", next)
      /\ next \in {"start", "reserve"}
  BY DEF Validate, Driving, DriveFrom
<1>2. /\ next \in Driving \cup {"release"} /\ "authority_validated" \in Expected(next)
      /\ "authority_validated" \in States \ Terminal
      /\ next \notin {"executing", "dispatch", "link", "build", "release"}
  BY <1>1 DEF Driving, Expected, States, PreDispatch, Terminal, Refused
<1>3. Owns(c) => state[op[c]] \in PreDispatch
  BY <1>1 DEF IInv, Owned, Expected, PreDispatch
<1>4. Fitting(c, "authority_validated", next)
  BY <1>1, <1>2, <1>3 DEF Fitting, Terminal
<1>. QED BY <1>1, <1>4, UpdateInv

LEMMA ReserveInv == ASSUME IInv, NEW c \in Calls, Reserve(c) PROVE IInv'
<1>1. pc[c] = "reserve" /\ pc[c] \in Driving /\ UpdateClaimed(c, "reserved", "start")
  BY DEF Reserve, Driving
<1>2. "start" \in Driving /\ "reserved" \in Expected("start") /\ "reserved" \in States \ Terminal
  BY DEF Driving, Expected, States, PreDispatch, Terminal, Refused
<1>3. Owns(c) => state[op[c]] \in PreDispatch
  BY <1>1 DEF IInv, Owned, Expected, PreDispatch
<1>4. Fitting(c, "reserved", "start")
  BY <1>1, <1>2, <1>3 DEF Fitting, Terminal
<1>. QED BY <1>1, <1>4, UpdateInv

LEMMA StartInv == ASSUME IInv, NEW c \in Calls, Start(c) PROVE IInv'
<1>1. pc[c] = "start" /\ pc[c] \in Driving
      /\ UpdateClaimed(c, "domain_append_started", "dispatch")
  BY DEF Start, Driving
<1>2. /\ "dispatch" \in Driving /\ "domain_append_started" \in Expected("dispatch")
      /\ "domain_append_started" \in States \ Terminal
  BY DEF Driving, Expected, States, PreDispatch, Terminal, Refused
<1>3. Owns(c) => state[op[c]] \in PreDispatch
  BY <1>1 DEF IInv, Owned, Expected, PreDispatch
<1>4. Fitting(c, "domain_append_started", "dispatch")
  BY <1>1, <1>2, <1>3 DEF Fitting, Terminal
<1>. QED BY <1>1, <1>4, UpdateInv

LEMMA LinkInv == ASSUME IInv, NEW c \in Calls, Link(c) PROVE IInv'
<1>1. pc[c] = "link" /\ pc[c] \in Driving /\ UpdateClaimed(c, "domain_records_linked", "build")
  BY DEF Link, Driving
<1>2. /\ "build" \in Driving /\ "domain_records_linked" \in Expected("build")
      /\ "domain_records_linked" \in States \ (Terminal \cup PreDispatch)
  BY DEF Driving, Expected, States, PreDispatch, Terminal, Refused
<1>3. facts[op[c]]
  BY <1>1 DEF IInv, Effects
<1>4. Fitting(c, "domain_records_linked", "build")
  BY <1>1, <1>2, <1>3 DEF Fitting, Terminal
<1>. QED BY <1>1, <1>4, UpdateInv

LEMMA BuildInv == ASSUME IInv, NEW c \in Calls, Build(c) PROVE IInv'
<1>1. pc[c] = "build" /\ pc[c] \in Driving /\ UpdateClaimed(c, "result_built", "finish")
  BY DEF Build, Driving
<1>2. /\ "finish" \in Driving /\ "result_built" \in Expected("finish")
      /\ "result_built" \in States \ (Terminal \cup PreDispatch)
  BY DEF Driving, Expected, States, PreDispatch, Terminal, Refused
<1>3. facts[op[c]]
  BY <1>1 DEF IInv, Effects
<1>4. Fitting(c, "result_built", "finish")
  BY <1>1, <1>2, <1>3 DEF Fitting, Terminal
<1>. QED BY <1>1, <1>4, UpdateInv

LEMMA FinishInv == ASSUME IInv, NEW c \in Calls, Finish(c) PROVE IInv'
<1>1. pc[c] = "finish" /\ pc[c] \in Driving /\ UpdateClaimed(c, "completed", "release")
  BY DEF Finish, Driving
<1>2. "completed" \in Terminal \ Refused /\ "completed" \in States \ PreDispatch
  BY DEF States, PreDispatch, Terminal, Refused
<1>3. Owns(c) => facts[op[c]]
  <2>1. ASSUME Owns(c) PROVE state[op[c]] = "result_built" /\ op[c] \in Calls
    BY <1>1, <2>1 DEF IInv, Owned, Expected, TypeOK, OpIds, Places, NeedsOp
  <2>. QED BY <2>1 DEF IInv, Effects, ResultHasFacts
<1>4. Fitting(c, "completed", "release")
  BY <1>1, <1>2, <1>3 DEF Fitting
<1>. QED BY <1>1, <1>4, UpdateInv

LEMMA BlockInv == ASSUME IInv, NEW c \in Calls, Block(c) PROVE IInv'
<1>1. /\ pc[c] \in Driving /\ Abandon(c) /\ "busy" \in Errors
      /\ UNCHANGED <<prepared, idempotency, lock, head, facts, dispatches, want, op, seen, my>>
  BY DEF Block, Driving, indexes, world, Errors
<1>2. CASE /\ Owns(c) /\ "blocked_unknown_effect" \in Forward(state[op[c]])
           /\ Append(op[c], "blocked_unknown_effect", 0)
  <2>1. /\ state[op[c]] # "completed"
        /\ "blocked_unknown_effect" \in States \ (PreDispatch \cup Refused)
    BY <1>2 DEF Forward, States, Terminal, Refused, PreDispatch
  <2>2. err' = [err EXCEPT ![c] = "busy"] /\ pc' = [pc EXCEPT ![c] = "release"]
    BY <1>1 DEF Abandon, Goto, Report
  <2>3. OwnedRevision(c, "blocked_unknown_effect", 0, "release", "busy")
    BY <1>1, <1>2, <2>1, <2>2 DEF OwnedRevision
  <2>. QED BY <2>3, OwnedWrite
<1>3. CASE UNCHANGED <<journal, same>>
  BY <1>1, <1>3, AbandonInv DEF journal
<1>. QED BY <1>2, <1>3 DEF Block

LEMMA ReconcileInv == ASSUME IInv, NEW c \in Calls, Reconcile(c) PROVE IInv'
<1>1. /\ pc[c] \in {"reconcile", "rebuild"} /\ pc[c] \in Driving
      /\ UNCHANGED <<state, claim, fresh, top, prepared, idempotency, lock, head, facts,
                     dispatches, want, op, seen, same, my>>
  BY DEF Reconcile, Driving, journal, indexes, world
<1>2. Owns(c) => state[op[c]] \in Expected(pc[c])
  BY DEF IInv, Owned
<1>3. err[c] \in Errors /\ err = [err EXCEPT ![c] = err[c]]
  BY DEF IInv, TypeOK
<1>4. CASE facts[op[c]] /\ NoReport /\ Goto(c, IF pc[c] = "reconcile" THEN "link" ELSE "build")
  <2>1. PICK l \in Driving : l = IF pc[c] = "reconcile" THEN "link" ELSE "build"
    BY DEF Driving
  <2>2. /\ Owns(c) => state[op[c]] \in Expected(l)
        /\ l \notin {"dispatch", "executing", "release"}
    BY <1>1, <1>2, <2>1 DEF Expected
  <2>3. pc' = [pc EXCEPT ![c] = l] /\ err' = [err EXCEPT ![c] = err[c]]
    BY <1>3, <1>4, <2>1 DEF Goto, NoReport
  <2>. QED BY <1>1, <1>3, <1>4, <2>2, <2>3, DriveStep
<1>5. CASE Goto(c, "block") /\ NoReport
  <2>1. "block" \in Driving /\ (Owns(c) => state[op[c]] \in Expected("block"))
    BY <1>1, <1>2 DEF Expected, Driving
  <2>2. pc' = [pc EXCEPT ![c] = "block"] /\ err' = [err EXCEPT ![c] = err[c]]
    BY <1>3, <1>5 DEF Goto, NoReport
  <2>. QED BY <1>1, <1>3, <2>1, <2>2, DriveStep
<1>6. CASE Abandon(c)
  BY <1>1, <1>6, AbandonInv
<1>. QED BY <1>4, <1>5, <1>6 DEF Reconcile

LEMMA ReconcileFailedInv == ASSUME IInv, NEW c \in Calls, ReconcileFailed(c) PROVE IInv'
<1>1. /\ pc[c] = "failed" /\ pc[c] \in Driving /\ {"link", "block"} \subseteq Driving
      /\ UNCHANGED <<state, claim, fresh, top, prepared, idempotency, lock, head, facts,
                     dispatches, want, op, seen, same, my, err>>
  BY DEF ReconcileFailed, Driving, journal, indexes, world, locals
<1>2. Owns(c) => state[op[c]] \in Expected("link") /\ state[op[c]] \in Expected("block")
  BY <1>1 DEF IInv, Owned, Expected
<1>3. err[c] \in Errors /\ err' = [err EXCEPT ![c] = err[c]]
  BY <1>1 DEF IInv, TypeOK
<1>4. CASE facts[op[c]] /\ Goto(c, "link")
  BY <1>1, <1>2, <1>3, <1>4, DriveStep DEF Goto
<1>5. CASE Goto(c, "block")
  BY <1>1, <1>2, <1>3, <1>5, DriveStep DEF Goto
<1>. QED BY <1>4, <1>5 DEF ReconcileFailed

LEMMA ExecuteInv == ASSUME IInv, NEW c \in Calls, Execute(c) PROVE IInv'
<1>1. /\ pc[c] = "executing" /\ pc[c] \in Driving /\ {"link", "failed"} \subseteq Driving
      /\ UNCHANGED <<state, claim, fresh, top, prepared, idempotency, lock, head,
                     dispatches, want, op, seen, same, my, err>>
  BY DEF Execute, Driving, journal, indexes, locals
<1>2. Owns(c) => state[op[c]] \in Expected("link") /\ state[op[c]] \in Expected("failed")
  BY <1>1 DEF IInv, Owned, Expected
<1>3. err[c] \in Errors /\ err' = [err EXCEPT ![c] = err[c]]
  BY <1>1 DEF IInv, TypeOK
<1>4. CASE facts' = [facts EXCEPT ![op[c]] = TRUE] /\ Goto(c, "link")
  <2>1. facts'[op[c]]
    BY <1>4, <1>1 DEF IInv, TypeOK, OpIds, Places, NeedsOp
  <2>. QED BY <1>1, <1>2, <1>3, <1>4, <2>1, DriveStep DEF Goto
<1>5. CASE facts' = [facts EXCEPT ![op[c]] = TRUE] /\ Goto(c, "failed")
  BY <1>1, <1>2, <1>3, <1>5, DriveStep DEF Goto
<1>6. CASE facts' = facts /\ Goto(c, "failed")
  BY <1>1, <1>2, <1>3, <1>6, DriveStep DEF Goto
<1>. QED BY <1>4, <1>5, <1>6 DEF Execute

LEMMA DispatchInv == ASSUME IInv, NEW c \in Calls, Dispatch(c) PROVE IInv'
<1>. USE DEF IInv
<1>a. op[c] \in Calls /\ pc[c] = "dispatch" /\ dispatches[op[c]] = 0
  BY DEF Dispatch, TypeOK, OpIds, Places, NeedsOp, Driving, Undispatched
<1>b. dispatches' = [dispatches EXCEPT ![op[c]] = 1]
  BY <1>a DEF Dispatch, TypeOK
<1>0. /\ op[c] \in Calls /\ pc[c] = "dispatch" /\ dispatches[op[c]] = 0
      /\ pc' = [pc EXCEPT ![c] = "executing"]
      /\ dispatches' = [dispatches EXCEPT ![op[c]] = 1]
      /\ UNCHANGED <<state, claim, fresh, top, prepared, idempotency, lock, head, facts,
                     want, op, seen, same, my, err>>
  BY <1>a, <1>b DEF Dispatch, Goto, journal, indexes, locals
<1>1. TypeOK'
  <2>1. "executing" \in Labels
    BY DEF Labels, Driving
  <2>. QED BY <1>0, <2>1 DEF TypeOK
<1>2. Places'
  <2>1. "executing" \notin PreCreate /\ pc[c] \in NeedsOp
    BY <1>0 DEF PreCreate, NeedsOp, Driving
  <2>. QED BY <1>0, <2>1 DEF TypeOK, Places
<1>3. Epochs'
  BY <1>0 DEF TypeOK, Epochs, Driving
<1>4. Owned'
  BY <1>0 DEF TypeOK, Owned, Owns, Expected
<1>5. Snapshot'
  BY <1>0 DEF Snapshot
<1>6. Undispatched'
  BY <1>0 DEF TypeOK, OpIds, Undispatched, DispatchAtMostOnce
<1>7. Effects'
  BY <1>0 DEF TypeOK, Effects, ResultHasFacts
<1>. QED BY <1>1, <1>2, <1>3, <1>4, <1>5, <1>6, <1>7

LEMMA CreateInv == ASSUME IInv, NEW c \in Calls, Create(c) PROVE IInv'
<1>1. TypeOK'
  BY ControlAssumption DEF IInv,
     Create, journal, indexes, world, locals, Goto, Report, NoReport, Throw,
     Abandon, Leave, NoWrite, TypeOK, OpIds, Errors, Labels, Driving, Over,
     PreCreate, NeedsOp, States, PreDispatch, Terminal, Refused
<1>2. Places'
  BY ControlAssumption DEF IInv,
     Create, journal, indexes, world, locals, Goto, Report, NoReport, Throw,
     Abandon, Leave, NoWrite, TypeOK, OpIds, Places, Labels, Driving, Over,
     PreCreate, NeedsOp, States, PreDispatch, Terminal, Refused
<1>3. Epochs'
  BY ControlAssumption DEF IInv,
     Create, journal, indexes, world, locals, Goto, Report, NoReport, Throw,
     Abandon, Leave, NoWrite, TypeOK, OpIds, Places, Epochs, Labels, Driving,
     Over, PreCreate, NeedsOp, States, PreDispatch, Terminal, Refused
<1>4. Owned'
  BY ControlAssumption DEF IInv,
     Create, journal, indexes, world, locals, Goto, Report, NoReport, Throw,
     Abandon, Leave, NoWrite, TypeOK, OpIds, Places, Epochs, Owned, Owns,
     Expected, Forward, Labels, Driving, Over, PreCreate, NeedsOp, States,
     PreDispatch, Terminal, Refused
<1>5. Snapshot'
  BY ControlAssumption DEF IInv,
     Create, journal, indexes, world, locals, Goto, Report, NoReport, Throw,
     Abandon, Leave, NoWrite, TypeOK, OpIds, Places, Epochs, Snapshot,
     Labels, Driving, Over, PreCreate, NeedsOp, States, PreDispatch,
     Terminal, Refused
<1>6. Undispatched'
  BY ControlAssumption DEF IInv,
     Create, journal, indexes, world, locals, Goto, Report, NoReport, Throw,
     Abandon, Leave, NoWrite, TypeOK, OpIds, Places, Epochs, Owned, Snapshot,
     Undispatched, DispatchAtMostOnce, Labels, Driving, Over, PreCreate,
     NeedsOp, States, PreDispatch, Terminal, Refused
<1>7. Effects'
  BY ControlAssumption DEF IInv,
     Create, journal, indexes, world, locals, Goto, Report, NoReport, Throw,
     Abandon, Leave, NoWrite, TypeOK, OpIds, Places, Epochs, Owned,
     Undispatched, Effects, ResultHasFacts, Labels, Driving, Over, PreCreate,
     NeedsOp, States, PreDispatch, Terminal, Refused
<1>8. QED BY <1>1, <1>2, <1>3, <1>4, <1>5, <1>6, <1>7 DEF IInv

LEMMA RenewDriverInv == ASSUME IInv, NEW c \in Calls, RenewDriver(c) PROVE IInv'
<1>1. TypeOK'
  BY ControlAssumption DEF IInv,
     RenewDriver, Owns, Append, journal, indexes, world, locals, Goto,
     Report, NoReport, Throw, Abandon, Leave, NoWrite, TypeOK, OpIds, Errors,
     Labels, Driving, Over, PreCreate, NeedsOp, States, PreDispatch,
     Terminal, Refused
<1>2. Places'
  BY ControlAssumption DEF IInv,
     RenewDriver, Owns, Append, journal, indexes, world, locals, Goto,
     Report, NoReport, Throw, Abandon, Leave, NoWrite, TypeOK, OpIds, Places,
     Labels, Driving, Over, PreCreate, NeedsOp, States, PreDispatch,
     Terminal, Refused
<1>3. Epochs'
  BY ControlAssumption DEF IInv,
     RenewDriver, Owns, Append, journal, indexes, world, locals, Goto,
     Report, NoReport, Throw, Abandon, Leave, NoWrite, TypeOK, OpIds, Places,
     Epochs, Labels, Driving, Over, PreCreate, NeedsOp, States, PreDispatch,
     Terminal, Refused
<1>4. Owned'
  BY ControlAssumption DEF IInv,
     RenewDriver, Owns, Append, journal, indexes, world, locals, Goto,
     Report, NoReport, Throw, Abandon, Leave, NoWrite, TypeOK, OpIds, Places,
     Epochs, Owned, Owns, Expected, Forward, Labels, Driving, Over,
     PreCreate, NeedsOp, States, PreDispatch, Terminal, Refused
<1>5. Snapshot'
  BY ControlAssumption DEF IInv,
     RenewDriver, Owns, Append, journal, indexes, world, locals, Goto,
     Report, NoReport, Throw, Abandon, Leave, NoWrite, TypeOK, OpIds, Places,
     Epochs, Snapshot, Labels, Driving, Over, PreCreate, NeedsOp, States,
     PreDispatch, Terminal, Refused
<1>6. Undispatched'
  BY ControlAssumption DEF IInv,
     RenewDriver, Owns, Append, journal, indexes, world, locals, Goto,
     Report, NoReport, Throw, Abandon, Leave, NoWrite, TypeOK, OpIds, Places,
     Epochs, Owned, Snapshot, Undispatched, DispatchAtMostOnce, Labels,
     Driving, Over, PreCreate, NeedsOp, States, PreDispatch, Terminal,
     Refused
<1>7. Effects'
  BY ControlAssumption DEF IInv,
     RenewDriver, Owns, Append, journal, indexes, world, locals, Goto,
     Report, NoReport, Throw, Abandon, Leave, NoWrite, TypeOK, OpIds, Places,
     Epochs, Owned, Undispatched, Effects, ResultHasFacts, Labels, Driving,
     Over, PreCreate, NeedsOp, States, PreDispatch, Terminal, Refused
<1>8. QED BY <1>1, <1>2, <1>3, <1>4, <1>5, <1>6, <1>7 DEF IInv

LEMMA ExpireInv == ASSUME IInv, NEW o \in Calls, Expire(o) PROVE IInv'
<1>1. TypeOK'
  BY ControlAssumption DEF IInv,
     Expire, LeaseHeld, journal, indexes, world, locals, Goto, Report,
     NoReport, Throw, Abandon, Leave, NoWrite, TypeOK, OpIds, Errors, Labels,
     Driving, Over, PreCreate, NeedsOp, States, PreDispatch, Terminal,
     Refused
<1>2. Places'
  BY ControlAssumption DEF IInv,
     Expire, LeaseHeld, journal, indexes, world, locals, Goto, Report,
     NoReport, Throw, Abandon, Leave, NoWrite, TypeOK, OpIds, Places, Labels,
     Driving, Over, PreCreate, NeedsOp, States, PreDispatch, Terminal,
     Refused
<1>3. Epochs'
  BY ControlAssumption DEF IInv,
     Expire, LeaseHeld, journal, indexes, world, locals, Goto, Report,
     NoReport, Throw, Abandon, Leave, NoWrite, TypeOK, OpIds, Places, Epochs,
     Labels, Driving, Over, PreCreate, NeedsOp, States, PreDispatch,
     Terminal, Refused
<1>4. Owned'
  BY ControlAssumption DEF IInv,
     Expire, LeaseHeld, journal, indexes, world, locals, Goto, Report,
     NoReport, Throw, Abandon, Leave, NoWrite, TypeOK, OpIds, Places, Epochs,
     Owned, Owns, Expected, Forward, Labels, Driving, Over, PreCreate,
     NeedsOp, States, PreDispatch, Terminal, Refused
<1>5. Snapshot'
  BY ControlAssumption DEF IInv,
     Expire, LeaseHeld, journal, indexes, world, locals, Goto, Report,
     NoReport, Throw, Abandon, Leave, NoWrite, TypeOK, OpIds, Places, Epochs,
     Snapshot, Labels, Driving, Over, PreCreate, NeedsOp, States,
     PreDispatch, Terminal, Refused
<1>6. Undispatched'
  BY ControlAssumption DEF IInv,
     Expire, LeaseHeld, journal, indexes, world, locals, Goto, Report,
     NoReport, Throw, Abandon, Leave, NoWrite, TypeOK, OpIds, Places, Epochs,
     Owned, Snapshot, Undispatched, DispatchAtMostOnce, Labels, Driving,
     Over, PreCreate, NeedsOp, States, PreDispatch, Terminal, Refused
<1>7. Effects'
  BY ControlAssumption DEF IInv,
     Expire, LeaseHeld, journal, indexes, world, locals, Goto, Report,
     NoReport, Throw, Abandon, Leave, NoWrite, TypeOK, OpIds, Places, Epochs,
     Owned, Undispatched, Effects, ResultHasFacts, Labels, Driving, Over,
     PreCreate, NeedsOp, States, PreDispatch, Terminal, Refused
<1>8. QED BY <1>1, <1>2, <1>3, <1>4, <1>5, <1>6, <1>7 DEF IInv

LEMMA HeadMovesInv == ASSUME IInv, NEW a \in Actions, HeadMoves(a) PROVE IInv'
<1>1. TypeOK'
  BY ControlAssumption DEF IInv,
     HeadMoves, journal, indexes, world, locals, Goto, Report, NoReport,
     Throw, Abandon, Leave, NoWrite, TypeOK, OpIds, Errors, Labels, Driving,
     Over, PreCreate, NeedsOp, States, PreDispatch, Terminal, Refused
<1>2. Places'
  BY ControlAssumption DEF IInv,
     HeadMoves, journal, indexes, world, locals, Goto, Report, NoReport,
     Throw, Abandon, Leave, NoWrite, TypeOK, OpIds, Places, Labels, Driving,
     Over, PreCreate, NeedsOp, States, PreDispatch, Terminal, Refused
<1>3. Epochs'
  BY ControlAssumption DEF IInv,
     HeadMoves, journal, indexes, world, locals, Goto, Report, NoReport,
     Throw, Abandon, Leave, NoWrite, TypeOK, OpIds, Places, Epochs, Labels,
     Driving, Over, PreCreate, NeedsOp, States, PreDispatch, Terminal,
     Refused
<1>4. Owned'
  BY ControlAssumption DEF IInv,
     HeadMoves, journal, indexes, world, locals, Goto, Report, NoReport,
     Throw, Abandon, Leave, NoWrite, TypeOK, OpIds, Places, Epochs, Owned,
     Owns, Expected, Forward, Labels, Driving, Over, PreCreate, NeedsOp,
     States, PreDispatch, Terminal, Refused
<1>5. Snapshot'
  BY ControlAssumption DEF IInv,
     HeadMoves, journal, indexes, world, locals, Goto, Report, NoReport,
     Throw, Abandon, Leave, NoWrite, TypeOK, OpIds, Places, Epochs, Snapshot,
     Labels, Driving, Over, PreCreate, NeedsOp, States, PreDispatch,
     Terminal, Refused
<1>6. Undispatched'
  BY ControlAssumption DEF IInv,
     HeadMoves, journal, indexes, world, locals, Goto, Report, NoReport,
     Throw, Abandon, Leave, NoWrite, TypeOK, OpIds, Places, Epochs, Owned,
     Snapshot, Undispatched, DispatchAtMostOnce, Labels, Driving, Over,
     PreCreate, NeedsOp, States, PreDispatch, Terminal, Refused
<1>7. Effects'
  BY ControlAssumption DEF IInv,
     HeadMoves, journal, indexes, world, locals, Goto, Report, NoReport,
     Throw, Abandon, Leave, NoWrite, TypeOK, OpIds, Places, Epochs, Owned,
     Undispatched, Effects, ResultHasFacts, Labels, Driving, Over, PreCreate,
     NeedsOp, States, PreDispatch, Terminal, Refused
<1>8. QED BY <1>1, <1>2, <1>3, <1>4, <1>5, <1>6, <1>7 DEF IInv

LEMMA BeginInv == ASSUME IInv, NEW c \in Calls, NEW a \in Actions, Begin(c, a) PROVE IInv'
<1>1. TypeOK'
  BY ControlAssumption DEF IInv,
     Begin, journal, indexes, world, locals, Goto, Report, NoReport, Throw,
     Abandon, Leave, NoWrite, TypeOK, OpIds, Errors, Labels, Driving, Over,
     PreCreate, NeedsOp, States, PreDispatch, Terminal, Refused
<1>2. Places'
  BY ControlAssumption DEF IInv,
     Begin, journal, indexes, world, locals, Goto, Report, NoReport, Throw,
     Abandon, Leave, NoWrite, TypeOK, OpIds, Places, Labels, Driving, Over,
     PreCreate, NeedsOp, States, PreDispatch, Terminal, Refused
<1>3. Epochs'
  BY ControlAssumption DEF IInv,
     Begin, journal, indexes, world, locals, Goto, Report, NoReport, Throw,
     Abandon, Leave, NoWrite, TypeOK, OpIds, Places, Epochs, Labels, Driving,
     Over, PreCreate, NeedsOp, States, PreDispatch, Terminal, Refused
<1>4. Owned'
  BY ControlAssumption DEF IInv,
     Begin, journal, indexes, world, locals, Goto, Report, NoReport, Throw,
     Abandon, Leave, NoWrite, TypeOK, OpIds, Places, Epochs, Owned, Owns,
     Expected, Forward, Labels, Driving, Over, PreCreate, NeedsOp, States,
     PreDispatch, Terminal, Refused
<1>5. Snapshot'
  BY ControlAssumption DEF IInv,
     Begin, journal, indexes, world, locals, Goto, Report, NoReport, Throw,
     Abandon, Leave, NoWrite, TypeOK, OpIds, Places, Epochs, Snapshot,
     Labels, Driving, Over, PreCreate, NeedsOp, States, PreDispatch,
     Terminal, Refused
<1>6. Undispatched'
  BY ControlAssumption DEF IInv,
     Begin, journal, indexes, world, locals, Goto, Report, NoReport, Throw,
     Abandon, Leave, NoWrite, TypeOK, OpIds, Places, Epochs, Owned, Snapshot,
     Undispatched, DispatchAtMostOnce, Labels, Driving, Over, PreCreate,
     NeedsOp, States, PreDispatch, Terminal, Refused
<1>7. Effects'
  BY ControlAssumption DEF IInv,
     Begin, journal, indexes, world, locals, Goto, Report, NoReport, Throw,
     Abandon, Leave, NoWrite, TypeOK, OpIds, Places, Epochs, Owned,
     Undispatched, Effects, ResultHasFacts, Labels, Driving, Over, PreCreate,
     NeedsOp, States, PreDispatch, Terminal, Refused
<1>8. QED BY <1>1, <1>2, <1>3, <1>4, <1>5, <1>6, <1>7 DEF IInv

\* acquireDriver: answers from the last revision, or a revision of its own.
LEMMA AcquireDriverInv == ASSUME IInv, NEW c \in Calls, AcquireDriver(c) PROVE IInv'
<1>. DEFINE o == op[c]
<1>1. /\ pc[c] = "acquire" /\ o \in Calls /\ my[c] = 0 /\ o # None /\ state[o] \in States
      /\ top[o] \in Nat
      /\ UNCHANGED <<prepared, idempotency, lock, head, facts, dispatches, want, op>>
  BY ControlAssumption, ZenonT(60)
  DEF IInv, AcquireDriver, TypeOK, OpIds, Places, NeedsOp, Epochs, Driving, indexes, world
<1>2. CASE /\ Leave(c, IF state[o] = "completed" THEN "completed" ELSE "refused")
           /\ NoWrite(c)
  <2>1. PICK l \in Over : l = IF state[o] = "completed" THEN "completed" ELSE "refused"
    BY DEF Over
  <2>. QED BY <1>1, <1>2, <2>1, LeaveInv
<1>3. CASE Leave(c, "refused") /\ NoWrite(c)
  <2>1. "refused" \in Over /\ "refused" # "completed"
    BY DEF Over
  <2>. QED BY <1>1, <1>3, <2>1, LeaveInv
<1>4. CASE /\ state[o] \notin Terminal
           /\ Append(o, "blocked_unknown_effect", 0) /\ Leave(c, "refused")
  <2>1. /\ pc'[c] = "refused" /\ err'[c] = "none" /\ my'[c] = 0 /\ seen'[c] = <<"absent", 0>>
        /\ state'[o] = "blocked_unknown_effect" /\ claim'[o] = 0
    BY <1>1, <1>4 DEF IInv, TypeOK, Leave, Goto, Report, Append
  <2>2. WriteFrame(c)
    BY <1>1, <1>4, <2>1 DEF WriteFrame, Leave, Goto, Report
  <2>3. /\ "refused" \in Labels \ PreCreate /\ "refused" \notin Driving
        /\ "none" \in Errors
        /\ "blocked_unknown_effect" \in States \ (PreDispatch \cup Refused)
        /\ "completed" \in Terminal
    BY DEF Labels, PreCreate, Driving, Over, Errors, States, Terminal, PreDispatch, Refused
  <2>4. WriteValues(c)
    BY <1>1, <1>4, <2>1, <2>3 DEF WriteValues
  <2>. QED BY <2>2, <2>4, WriteStepOf
<1>5. CASE /\ state[o] \notin Terminal /\ Append(o, state[o], top[o] + 1)
           /\ Goto(c, DriveFrom(state[o], want[c])) /\ NoReport
           /\ my' = [my EXCEPT ![c] = top[o] + 1]
           /\ seen' = [seen EXCEPT ![c] = <<state[o], top[o] + 1>>]
  <2>1. PICK l : l = DriveFrom(state[o], want[c])
    OBVIOUS
  <2>2. /\ l \in {"validate", "start", "reserve", "reconcile", "rebuild", "finish"}
        /\ state[o] \in Expected(l)
    BY <1>1, <1>5, <2>1 DEF DriveFrom, Expected, States, Terminal, Refused, PreDispatch
  <2>3. /\ l \in Driving /\ l \in Labels \ PreCreate
        /\ l \notin {"executing", "unlock", "unlockPrepared", "dispatch", "link", "build",
                     "release", "completed"}
    BY <2>2 DEF Driving, Labels, PreCreate
  <2>4. /\ pc'[c] = l /\ err'[c] = err[c] /\ my'[c] = top[o] + 1 /\ err' = err
        /\ seen'[c] = <<state[o], top[o] + 1>>
        /\ state'[o] = state[o] /\ claim'[o] = top[o] + 1 /\ err[c] \in Errors
    BY <1>1, <1>5, <2>1 DEF IInv, TypeOK, Goto, NoReport, Append
  <2>5. WriteFrame(c)
    BY <1>1, <1>5, <2>4 DEF WriteFrame, Goto, NoReport, IInv, TypeOK
  <2>6. state[o] \in {"domain_records_linked", "result_built", "completed"} => facts[o]
    BY <1>1 DEF IInv, Effects, ResultHasFacts
  <2>7. WriteValues(c)
    BY <1>1, <2>2, <2>3, <2>4, <2>6 DEF WriteValues
  <2>. QED BY <2>5, <2>7, WriteStepOf
<1>6. CASE /\ state[o] \notin Terminal /\ Append(o, state[o], top[o] + 1)
           /\ Throw(c, "internal") /\ UNCHANGED <<my, seen>>
  <2>1. /\ "catch" \in Labels \ PreCreate /\ "catch" \notin Driving /\ "internal" \in Errors
    BY DEF Labels, PreCreate, Driving, Errors
  <2>2. /\ pc'[c] = "catch" /\ err'[c] = "internal" /\ my'[c] = 0 /\ seen'[c] = seen[c]
        /\ state'[o] = state[o] /\ claim'[o] = top[o] + 1
        /\ seen[c] \in (States \cup {"absent"}) \X Nat
    BY <1>1, <1>6 DEF IInv, TypeOK, Throw, Goto, Report, Append
  <2>3. WriteFrame(c)
    BY <1>1, <1>6, <2>2 DEF WriteFrame, Throw, Goto, Report, IInv, TypeOK
  <2>4. state[o] \in {"domain_records_linked", "result_built", "completed"} => facts[o]
    BY <1>1 DEF IInv, Effects, ResultHasFacts
  <2>5. WriteValues(c)
    BY <1>1, <2>1, <2>2, <2>4 DEF WriteValues
  <2>. QED BY <2>3, <2>5, WriteStepOf
<1>7. ASSUME NEW e \in {"busy", "internal"}, Throw(c, e), UNCHANGED <<journal, same, my, seen>>
      PROVE  IInv'
  <2>1. /\ "catch" \in Labels \ PreCreate /\ "catch" \notin Driving /\ e \in Errors
        /\ "catch" \notin NeedsOp
    BY DEF Labels, PreCreate, Driving, Errors, NeedsOp
  <2>2. /\ pc'[c] = "catch" /\ err'[c] = e /\ op'[c] = o /\ seen'[c] = seen[c]
        /\ same'[c] = same[c]
    BY <1>1, <1>7 DEF IInv, TypeOK, Throw, Goto, Report
  <2>3. LocalFrame(c)
    BY <1>1, <1>7, <2>2 DEF LocalFrame, Throw, Goto, Report, journal, IInv, TypeOK, Places
  <2>4. /\ o \in OpIds /\ state[o] # "absent" /\ same[c] \in BOOLEAN
        /\ seen[c] \in (States \cup {"absent"}) \X Nat
        /\ same[c] => seen[c] = <<state[o], claim[o]>>
    BY <1>1 DEF IInv, TypeOK, OpIds, Places, Snapshot
  <2>5. LocalValues(c)
    BY <1>1, <2>1, <2>2, <2>4 DEF LocalValues
  <2>. QED BY <2>3, <2>5, LocalStep
<1>. QED BY <1>2, <1>3, <1>4, <1>5, <1>6, <1>7 DEF AcquireDriver

\* releaseDriver: the claim is given back, and an effect nobody can
\* reconcile becomes unknown.
LEMMA ReleaseDriverInv == ASSUME IInv, NEW c \in Calls, ReleaseDriver(c) PROVE IInv'
<1>. DEFINE o == op[c]
            l == IF err[c] = "none" THEN "completed" ELSE "refused"
<1>1. /\ pc[c] = "release" /\ o \in Calls /\ o # None /\ Leave(c, l) /\ state[o] \in States
      /\ err[c] = "none" => state[o] = "completed"
      /\ UNCHANGED <<prepared, idempotency, lock, head, facts, dispatches, want, op>>
  BY ControlAssumption
  DEF IInv, ReleaseDriver, TypeOK, OpIds, Places, NeedsOp, Effects, indexes, world
<1>2. /\ l \in Over /\ (l = "completed" => state[o] = "completed")
      /\ l \in Labels \ PreCreate /\ l \notin Driving /\ "none" \in Errors
      /\ l \notin {"executing", "unlock", "unlockPrepared", "dispatch", "link", "build", "release"}
  BY <1>1 DEF Over, Labels, PreCreate, Driving, Errors
<1>3. CASE NoWrite(c)
  <2>. HIDE DEF l
  <2>. QED BY <1>1, <1>2, <1>3, LeaveInv
<1>4. ASSUME NEW s \in {"blocked_unknown_effect", state[o]},
             s # state[o] => state[o] \in {"domain_append_started", "domain_records_linked"},
             Append(o, s, 0)
      PROVE  IInv'
  <2>1. /\ pc'[c] = l /\ err'[c] = "none" /\ my'[c] = 0 /\ seen'[c] = <<"absent", 0>>
        /\ state'[o] = s /\ claim'[o] = 0
    BY <1>1, <1>4 DEF IInv, TypeOK, Leave, Goto, Report, Append
  <2>2. WriteFrame(c)
    BY <1>1, <1>4, <2>1 DEF WriteFrame, Leave, Goto, Report
  <2>3. /\ "blocked_unknown_effect" \in States \ (PreDispatch \cup Refused)
        /\ state[o] \in {"domain_records_linked", "result_built", "completed"} => facts[o]
    BY <1>1 DEF IInv, Effects, ResultHasFacts, States, Terminal, PreDispatch, Refused
  <2>4. WriteValues(c)
    BY <1>1, <1>2, <1>4, <2>1, <2>3 DEF WriteValues
  <2>. QED BY <2>2, <2>4, WriteStepOf
<1>. QED BY <1>3, <1>4 DEF ReleaseDriver

\* The catch of commit writes over the revision it read, which Snapshot says
\* is an undriven one before dispatch.
LEMMA TerminalizeInv ==
  ASSUME IInv, NEW c \in Calls, TerminalizeKnownPreDispatchFailure(c) PROVE IInv'
<1>. DEFINE o == op[c]
            s == KnownNotStarted(err[c])
<1>1. /\ pc[c] = "catch" /\ Leave(c, "refused") /\ "refused" \in Over
      /\ UNCHANGED <<prepared, idempotency, lock, head, facts, dispatches, want, op>>
  BY DEF TerminalizeKnownPreDispatchFailure, indexes, world, Over
<1>2. CASE NoWrite(c)
  BY <1>1, <1>2, LeaveInv
<1>3. CASE /\ o # None /\ seen[c][1] \in PreDispatch /\ err[c] \in Known /\ same[c]
           /\ Append(o, s, 0)
  <2>1. /\ o \in Calls /\ state[o] \in PreDispatch /\ s \in Refused
    BY <1>3 DEF IInv, TypeOK, OpIds, Snapshot, KnownNotStarted, Known, Refused
  <2>2. /\ pc'[c] = "refused" /\ err'[c] = "none" /\ my'[c] = 0 /\ seen'[c] = <<"absent", 0>>
        /\ state'[o] = s /\ claim'[o] = 0
    BY <1>1, <1>3, <2>1 DEF IInv, TypeOK, Leave, Goto, Report, Append
  <2>3. WriteFrame(c)
    BY <1>1, <1>3, <2>1, <2>2 DEF WriteFrame, Leave, Goto, Report
  <2>4. /\ "refused" \in Labels \ PreCreate /\ "refused" \notin Driving /\ "none" \in Errors
        /\ s \in States
        /\ s \notin {"domain_records_linked", "result_built", "completed"}
        /\ state[o] # "completed"
    BY <2>1 DEF Labels, PreCreate, Driving, Over, Errors, States, Terminal, PreDispatch, Refused
  <2>. HIDE DEF s
  <2>5. WriteValues(c)
    BY <1>1, <2>1, <2>2, <2>4 DEF WriteValues
  <2>. QED BY <2>3, <2>5, WriteStepOf
<1>. QED BY <1>2, <1>3 DEF TerminalizeKnownPreDispatchFailure

LEMMA StutterInv == ASSUME IInv, UNCHANGED vars PROVE IInv'
  BY DEF vars, journal, indexes, world, locals, IInv, TypeOK, Places, Epochs, Owned,
         Owns, Snapshot, Undispatched, DispatchAtMostOnce, Effects, ResultHasFacts

LEMMA NextInv == ASSUME IInv, [Next]_vars PROVE IInv'
  BY FindInv, IndexFirstInv, CheckInv, AcceptLockInv, AcceptPreparedInv,
     AcceptKeyInv, CreateInv, IndexPreparedInv, IndexKeyInv, UnlockInv,
     AcquireDriverInv, ValidateInv, ReserveInv, StartInv, DispatchInv,
     ExecuteInv, ReconcileFailedInv, ReconcileInv, BlockInv, LinkInv,
     BuildInv, FinishInv, RenewDriverInv, ReleaseDriverInv, TerminalizeInv,
     CrashInv, ExpireInv, HeadMovesInv, BeginInv, StutterInv
  DEF Next, Step

\* The type invariant of the journal, the indexes and the calls.
THEOREM TypeCorrect == Spec => []TypeOK
<1>1. IInv => TypeOK
  BY DEF IInv
<1>. QED BY <1>1, InitInv, NextInv, PTL DEF Spec

\* drive calls execute at most once for an operation, however many commits
\* claim, crash, time out and take over.
THEOREM AtMostOneDispatch == Spec => []DispatchAtMostOnce
<1>1. IInv => DispatchAtMostOnce
  BY DEF IInv, Undispatched
<1>. QED BY <1>1, InitInv, NextInv, PTL DEF Spec

\* A record that says the action was known not to start is right for ever.
THEOREM RefusalsAreTrue == Spec => []RefusalIsTrue
<1>1. IInv => RefusalIsTrue
  BY DEF IInv, Undispatched, RefusalIsTrue
<1>. QED BY <1>1, InitInv, NextInv, PTL DEF Spec

\* A linked, built or completed operation has its domain facts, and a commit
\* answered with a result is about a completed operation.
THEOREM ResultsAreTrue == Spec => []ResultHasFacts
<1>1. IInv => ResultHasFacts
  BY DEF IInv, Effects
<1>. QED BY <1>1, InitInv, NextInv, PTL DEF Spec

\* Who may write to an operation whose lease runs: its driver, in a step.
LeaseStep ==
  \A o \in Calls :
    LeaseHeld(o) /\ <<state[o], claim[o]>>' # <<state[o], claim[o]>> =>
      \E c \in Calls : op[c] = o /\ my[c] = claim[o] /\ pc'[c] # pc[c]

LEMMA QuietStep == ASSUME state' = state, claim' = claim PROVE LeaseStep
  BY DEF LeaseStep

\* A revision by the owner of the operation, who then moves on.
LEMMA OwnerWrites ==
  ASSUME IInv, NEW c \in Calls, Owns(c), pc'[c] # pc[c], NEW s, NEW k, Append(op[c], s, k)
  PROVE  LeaseStep
<1>. SUFFICES ASSUME NEW o \in Calls, <<state[o], claim[o]>>' # <<state[o], claim[o]>>
     PROVE op[c] = o
  BY DEF LeaseStep, Owns
<1>. QED BY DEF IInv, TypeOK, Append

LEMMA UpdateRespectsLease ==
  ASSUME IInv, NEW c \in Calls, NEW s, NEW next, next \in Labels, next # pc[c],
         pc[c] # "release", UpdateClaimed(c, s, next)
  PROVE  LeaseStep
<1>1. pc'[c] # pc[c]
  BY DEF IInv, TypeOK, UpdateClaimed, Abandon, Goto
<1>2. CASE Owns(c) /\ Append(op[c], s, IF s \in Terminal THEN 0 ELSE my[c])
  BY <1>1, <1>2, OwnerWrites
<1>3. CASE UNCHANGED journal
  BY <1>3, QuietStep DEF journal
<1>. QED BY <1>2, <1>3 DEF UpdateClaimed

LEMMA AcquireRespectsLease ==
  ASSUME IInv, NEW c \in Calls, AcquireDriver(c) PROVE LeaseStep
<1>1. CASE UNCHANGED journal
  BY <1>1, QuietStep DEF journal
<1>2. ASSUME NEW s, NEW k, ~LeaseHeld(op[c]), Append(op[c], s, k) PROVE LeaseStep
  <2>. SUFFICES ASSUME NEW o \in Calls, LeaseHeld(o) PROVE <<state[o], claim[o]>>' = <<state[o], claim[o]>>
    BY DEF LeaseStep
  <2>. QED BY <1>2 DEF IInv, TypeOK, Append
<1>. QED BY <1>1, <1>2 DEF AcquireDriver, AcquireKind, NoWrite, journal

LEMMA CreateRespectsLease == ASSUME IInv, NEW c \in Calls, Create(c) PROVE LeaseStep
<1>. SUFFICES ASSUME NEW o \in Calls, LeaseHeld(o) PROVE <<state[o], claim[o]>>' = <<state[o], claim[o]>>
  BY DEF LeaseStep
<1>1. o # c
  BY DEF IInv, Places, Epochs, PreCreate, Create, LeaseHeld
<1>. QED BY <1>1 DEF IInv, TypeOK, Create

LEMMA RenewRespectsLease == ASSUME IInv, NEW c \in Calls, RenewDriver(c) PROVE LeaseStep
<1>1. op[c] \in Calls
  BY DEF RenewDriver, IInv, TypeOK, OpIds, Places, NeedsOp
<1>. QED BY <1>1, QuietStep DEF RenewDriver, Owns, Append, IInv, TypeOK

LEMMA BlockRespectsLease == ASSUME IInv, NEW c \in Calls, Block(c) PROVE LeaseStep
<1>1. pc'[c] # pc[c]
  BY DEF IInv, TypeOK, Block, Abandon, Goto
<1>2. CASE Owns(c) /\ Append(op[c], "blocked_unknown_effect", 0)
  BY <1>1, <1>2, OwnerWrites
<1>3. CASE UNCHANGED journal
  BY <1>3, QuietStep DEF journal
<1>. QED BY <1>2, <1>3 DEF Block

LEMMA ReleaseRespectsLease == ASSUME IInv, NEW c \in Calls, ReleaseDriver(c) PROVE LeaseStep
<1>1. pc'[c] # pc[c]
  BY DEF IInv, TypeOK, ReleaseDriver, Leave, Goto
<1>2. ASSUME NEW s, Owns(c), Append(op[c], s, 0) PROVE LeaseStep
  BY <1>1, <1>2, OwnerWrites
<1>3. CASE NoWrite(c)
  BY <1>3, QuietStep DEF NoWrite, journal
<1>. QED BY <1>2, <1>3 DEF ReleaseDriver

\* The record that the catch path replaces has no driver.
LEMMA TerminalizeRespectsLease ==
  ASSUME IInv, NEW c \in Calls, TerminalizeKnownPreDispatchFailure(c) PROVE LeaseStep
<1>1. CASE NoWrite(c)
  BY <1>1, QuietStep DEF NoWrite, journal
<1>2. CASE /\ op[c] # None /\ seen[c][2] = 0 /\ same[c]
           /\ Append(op[c], KnownNotStarted(err[c]), 0)
  <2>1. op[c] \in Calls /\ claim[op[c]] = 0
    BY <1>2 DEF IInv, TypeOK, OpIds, Snapshot
  <2>. SUFFICES ASSUME NEW o \in Calls, LeaseHeld(o)
       PROVE <<state[o], claim[o]>>' = <<state[o], claim[o]>>
    BY DEF LeaseStep
  <2>. QED BY <1>2, <2>1 DEF IInv, TypeOK, Append, LeaseHeld
<1>. QED BY <1>1, <1>2 DEF TerminalizeKnownPreDispatchFailure

LEMMA StepRespectsLease == ASSUME IInv, [Next]_vars PROVE LeaseStep
<1>. USE DEF journal
<1>1. ASSUME NEW c \in Calls, Step(c) PROVE LeaseStep
  <2>1. CASE \/ Find(c) \/ IndexFirst(c) \/ Check(c) \/ AcceptLock(c) \/ AcceptPrepared(c)
             \/ AcceptKey(c) \/ IndexPrepared(c) \/ IndexKey(c) \/ Unlock(c) \/ Dispatch(c)
             \/ Execute(c) \/ ReconcileFailed(c) \/ Reconcile(c)
    BY <2>1, QuietStep
    DEF Find, IndexFirst, Check, AcceptLock, AcceptPrepared, AcceptKey, IndexPrepared,
        IndexKey, Unlock, Dispatch, Execute, ReconcileFailed, Reconcile
  <2>2. CASE Validate(c)
    <3>1. /\ DriveFrom("authority_validated", want[c]) \in {"start", "reserve"}
          /\ {"start", "reserve"} \subseteq Labels
      BY DEF DriveFrom, Labels, Driving
    <3>. QED BY <2>2, <3>1, UpdateRespectsLease DEF Validate
  <2>3. CASE Reserve(c) \/ Start(c) \/ Link(c) \/ Build(c) \/ Finish(c)
    <3>1. {"start", "dispatch", "build", "finish", "release"} \subseteq Labels
      BY DEF Labels, Driving
    <3>. QED BY <2>3, <3>1, UpdateRespectsLease DEF Reserve, Start, Link, Build, Finish
  <2>. QED
    BY <1>1, <2>1, <2>2, <2>3, AcquireRespectsLease, CreateRespectsLease, BlockRespectsLease,
       ReleaseRespectsLease, TerminalizeRespectsLease
    DEF Step
<1>2. ASSUME NEW c \in Calls, NEW a \in Actions, Begin(c, a) PROVE LeaseStep
  BY <1>2, QuietStep DEF Begin
<1>3. ASSUME NEW c \in Calls, Crash(c) PROVE LeaseStep
  BY <1>3, QuietStep DEF Crash, NoWrite
<1>4. ASSUME NEW o \in Calls, Expire(o) PROVE LeaseStep
  BY <1>4, QuietStep DEF Expire
<1>5. ASSUME NEW a \in Actions, HeadMoves(a) PROVE LeaseStep
  BY <1>5, QuietStep DEF HeadMoves
<1>6. CASE UNCHANGED vars
  BY <1>6, QuietStep DEF vars
<1>. QED BY <1>1, <1>2, <1>3, <1>4, <1>5, <1>6, RenewRespectsLease DEF Next

\* Nobody but its driver writes to an operation while the lease runs.
THEOREM LeasesAreRespected == Spec => LeaseIsRespected
<1>1. IInv /\ [Next]_vars => [LeaseStep]_vars
  BY StepRespectsLease
<1>. QED BY <1>1, InitInv, NextInv, PTL DEF Spec, LeaseIsRespected, LeaseStep

-----------------------------------------------------------------------------
(* What is driven is indexed.                                              *)

Driven == Driving \cup {"acquire", "release"}

\* What a call knows of the indexes at each of its steps.
IndexedAt(c) ==
  /\ pc[c] \in Driven =>
       want[op[c]] = want[c] /\ op[c] \in {prepared[want[c]], idempotency[KeyOf[c]]}
  /\ pc[c] \in {"idle", "find"} => op[c] = None
  /\ pc[c] = "check" /\ op[c] # None => op[c] = prepared[want[c]]
  /\ pc[c] = "unlockPrepared" /\ err[c] = "none" => op[c] = prepared[want[c]]
  /\ pc[c] = "unlock" /\ err[c] = "none" =>
       want[op[c]] = want[c] /\ op[c] = idempotency[KeyOf[c]]
  /\ pc[c] \in {"indexFirst", "indexPrepared"} => want[op[c]] = want[c]

Indexed ==
  /\ \A a \in Actions : prepared[a] # None => want[prepared[a]] = a
  /\ \A c \in Calls : IndexedAt(c)

\* A step of c: an index that is written stays, and so does the action of an
\* operation that exists.
LEMMA IndexedStep ==
  ASSUME IInv, Indexed, NEW c \in Calls, IndexedAt(c)',
         \A d \in Calls \ {c} : pc'[d] = pc[d] /\ op'[d] = op[d] /\ err'[d] = err[d],
         \A o \in Calls : state[o] # "absent" => want'[o] = want[o],
         \A d \in Calls \ {c} : want'[d] = want[d],
         \A a \in Actions : prepared[a] # None => prepared'[a] = prepared[a],
         \A a \in Actions : prepared'[a] # None => want'[prepared'[a]] = a,
         \A k \in Keys : idempotency[k] # None => idempotency'[k] = idempotency[k]
  PROVE  Indexed'
<1>1. ASSUME NEW d \in Calls \ {c} PROVE IndexedAt(d)'
  <2>1. IndexedAt(d) /\ KeyOf[d] \in Keys BY ControlAssumption DEF Indexed
  <2>2. op[d] \in OpIds /\ (op[d] # None => op[d] \in Calls /\ state[op[d]] # "absent" /\ want'[op[d]] = want[op[d]])
    BY DEF IInv, TypeOK, Places, OpIds
  <2>3. pc[d] # "idle" => want[d] \in Actions BY DEF IInv, Places
  <2>4. pc[d] \in Driven \cup {"indexFirst", "indexPrepared"} => op[d] # None
    BY DEF IInv, Places, NeedsOp, Driven
  <2>5. pc[d] \in {"unlock", "unlockPrepared"} /\ err[d] = "none" => op[d] # None BY DEF IInv, Places
  <2>6. "idle" \notin Driven BY DEF Driven, Driving
  <2>. HIDE DEF Driven
  <2>. QED BY <2>1, <2>2, <2>3, <2>4, <2>5, <2>6 DEF IndexedAt
<1>. QED BY <1>1 DEF Indexed

\* A step of c that writes no index.
LEMMA IndexFree ==
  ASSUME IInv, Indexed, NEW c \in Calls, IndexedAt(c)',
         \A d \in Calls \ {c} : pc'[d] = pc[d] /\ op'[d] = op[d] /\ err'[d] = err[d],
         UNCHANGED <<want, prepared, idempotency>>
  PROVE  Indexed'
BY IndexedStep DEF Indexed

\* A step of a driver, or one that ends the call or throws.
LEMMA IndexedDrive ==
  ASSUME IInv, Indexed, NEW c \in Calls,
         pc'[c] \in Driven => pc[c] \in Driven,
         pc'[c] \notin {"idle", "find", "check", "unlock", "unlockPrepared", "indexFirst", "indexPrepared"},
         \A d \in Calls \ {c} : pc'[d] = pc[d] /\ err'[d] = err[d],
         UNCHANGED <<op, want, prepared, idempotency>>
  PROVE  Indexed'
<1>1. IndexedAt(c)' BY DEF Indexed, IndexedAt
<1>. QED BY <1>1, IndexFree

LEMMA BeginIndexed ==
  ASSUME IInv, Indexed, NEW c \in Calls, NEW a \in Actions, Begin(c, a) PROVE Indexed'
<1>1. state[c] = "absent" /\ op[c] = None
  BY DEF Begin, IInv, Places, PreCreate, Indexed, IndexedAt
<1>2. pc' = [pc EXCEPT ![c] = "find"] /\ want' = [want EXCEPT ![c] = a]
      /\ UNCHANGED <<op, err, prepared, idempotency>>
  BY DEF Begin, Goto, indexes
<1>3. pc'[c] = "find" /\ \A d \in Calls \ {c} : pc'[d] = pc[d] /\ want'[d] = want[d]
  BY <1>2 DEF IInv, TypeOK
<1>4. IndexedAt(c)' BY <1>1, <1>2, <1>3 DEF IndexedAt, Driven, Driving
<1>5. \A o \in Calls : state[o] # "absent" => want'[o] = want[o] BY <1>1, <1>3
<1>6. \A b \in Actions : prepared'[b] # None => want'[prepared'[b]] = b
  BY <1>2, <1>5 DEF IInv, Places, TypeOK, OpIds, Indexed
<1>. QED BY <1>2, <1>3, <1>4, <1>5, <1>6, IndexedStep

\* What findByPreparedAction and findByIdempotency leave behind.
LEMMA FindLeaves ==
  ASSUME IInv, NEW c \in Calls, NEW i \in OpIds, NEW ws,
         NEW hit, NEW none, NEW scanned, NEW corrupt,
         FindStep(c, i, ws, hit, none, scanned, corrupt)
  PROVE  /\ \A d \in Calls \ {c} : pc'[d] = pc[d] /\ op'[d] = op[d] /\ err'[d] = err[d]
         /\ \/ i # None /\ op'[c] = i /\ pc'[c] = hit
            \/ op'[c] = op[c] /\ pc'[c] = none
            \/ op'[c] \in ws /\ pc'[c] = scanned
            \/ pc'[c] = corrupt /\ op'[c] = op[c] /\ err'[c] = "internal"
<1>1. pc \in [Calls -> Labels] /\ op \in [Calls -> OpIds] /\ err \in [Calls -> Errors]
  BY DEF IInv, TypeOK
<1>2. \A l : Goto(c, l) => pc'[c] = l /\ \A d \in Calls \ {c} : pc'[d] = pc[d]
  BY <1>1 DEF Goto
<1>3. \A o : Read(c, o) => op'[c] = o /\ \A d \in Calls \ {c} : op'[d] = op[d]
  BY <1>1 DEF Read
<1>4. \A e : Report(c, e) => err'[c] = e /\ \A d \in Calls \ {c} : err'[d] = err[d]
  BY <1>1 DEF Report
<1>5. CASE i # None /\ Read(c, i) /\ Goto(c, hit) /\ NoReport
  BY <1>2, <1>3, <1>5 DEF NoReport
<1>6. CASE Goto(c, none) /\ UNCHANGED <<op, seen, same, err>>
  BY <1>2, <1>6
<1>7. CASE (\E o \in ws : ws = {o} /\ Read(c, o)) /\ Goto(c, scanned) /\ NoReport
  <2>1. PICK o \in ws : Read(c, o) BY <1>7
  <2>. QED BY <1>2, <1>3, <1>7, <2>1 DEF NoReport
<1>8. CASE Goto(c, corrupt) /\ Report(c, "internal") /\ UNCHANGED <<op, seen, same>>
  BY <1>2, <1>4, <1>8
<1>. QED BY <1>5, <1>6, <1>7, <1>8 DEF FindStep

LEMMA FindIndexed == ASSUME IInv, Indexed, NEW c \in Calls, Find(c) PROVE Indexed'
<1>1. want[c] \in Actions /\ op[c] = None BY DEF Find, IInv, Places, Indexed, IndexedAt
<1>2. /\ prepared[want[c]] \in OpIds
      /\ \A o \in Winners(want[c]) : want[o] = want[c]
  BY <1>1 DEF IInv, TypeOK, Winners
<1>3. UNCHANGED <<want, prepared, idempotency>> BY DEF Find, indexes
<1>4. FindStep(c, prepared[want[c]], Winners(want[c]), "check", "check", "indexFirst", "catch")
  BY DEF Find
<1>5. /\ \A d \in Calls \ {c} : pc'[d] = pc[d] /\ op'[d] = op[d] /\ err'[d] = err[d]
      /\ \/ op'[c] = prepared[want[c]] /\ pc'[c] = "check"
         \/ op'[c] = op[c] /\ pc'[c] = "check"
         \/ op'[c] \in Winners(want[c]) /\ pc'[c] = "indexFirst"
         \/ pc'[c] = "catch"
  BY <1>2, <1>4, FindLeaves
<1>6. IndexedAt(c)' BY <1>1, <1>2, <1>3, <1>5 DEF IndexedAt, Driven, Driving
<1>. QED BY <1>3, <1>5, <1>6, IndexFree

LEMMA AcceptPreparedIndexed ==
  ASSUME IInv, Indexed, NEW c \in Calls, AcceptPrepared(c) PROVE Indexed'
<1>1. want[c] \in Actions BY DEF AcceptPrepared, IInv, Places
<1>2. /\ prepared[want[c]] \in OpIds
      /\ \A o \in Winners(want[c]) : want[o] = want[c]
  BY <1>1 DEF IInv, TypeOK, Winners
<1>3. UNCHANGED <<want, prepared, idempotency>> BY DEF AcceptPrepared, indexes
<1>4. FindStep(c, prepared[want[c]], Winners(want[c]),
               "unlockPrepared", "lockKey", "indexPrepared", "unlockPrepared")
  BY DEF AcceptPrepared
<1>5. /\ \A d \in Calls \ {c} : pc'[d] = pc[d] /\ op'[d] = op[d] /\ err'[d] = err[d]
      /\ \/ op'[c] = prepared[want[c]] /\ pc'[c] = "unlockPrepared"
         \/ pc'[c] = "lockKey"
         \/ op'[c] \in Winners(want[c]) /\ pc'[c] = "indexPrepared"
         \/ pc'[c] = "unlockPrepared" /\ err'[c] = "internal"
  BY <1>2, <1>4, FindLeaves
<1>6. IndexedAt(c)' BY <1>1, <1>2, <1>3, <1>5 DEF IndexedAt, Driven, Driving
<1>. QED BY <1>3, <1>5, <1>6, IndexFree

LEMMA AcceptKeyIndexed ==
  ASSUME IInv, Indexed, NEW c \in Calls, AcceptKey(c) PROVE Indexed'
<1>1. KeyOf[c] \in Keys BY ControlAssumption
<1>2. idempotency[KeyOf[c]] \in OpIds
  BY <1>1 DEF IInv, TypeOK, KeyWinners
<1>3. UNCHANGED <<want, prepared, idempotency>> BY DEF AcceptKey, indexes
<1>4. FindStep(c, idempotency[KeyOf[c]], KeyWinners(KeyOf[c]), "indexKey", "create", "indexKey", "unlock")
  BY DEF AcceptKey
<1>5. /\ \A d \in Calls \ {c} : pc'[d] = pc[d] /\ op'[d] = op[d] /\ err'[d] = err[d]
      /\ pc'[c] \in {"indexKey", "create"} \/ (pc'[c] = "unlock" /\ err'[c] = "internal")
  BY <1>2, <1>4, FindLeaves
<1>6. IndexedAt(c)' BY <1>3, <1>5 DEF IndexedAt, Driven, Driving
<1>. QED BY <1>3, <1>5, <1>6, IndexFree

LEMMA CreateIndexed == ASSUME IInv, Indexed, NEW c \in Calls, Create(c) PROVE Indexed'
<1>1. /\ pc' = [pc EXCEPT ![c] = "indexPrepared"] /\ op' = [op EXCEPT ![c] = c]
      /\ UNCHANGED <<err, want, prepared, idempotency>>
  BY DEF Create, Goto, indexes
<1>2. /\ pc'[c] = "indexPrepared" /\ op'[c] = c
      /\ \A d \in Calls \ {c} : pc'[d] = pc[d] /\ op'[d] = op[d] /\ err'[d] = err[d]
  BY <1>1 DEF IInv, TypeOK
<1>3. IndexedAt(c)' BY <1>1, <1>2 DEF IndexedAt, Driven, Driving
<1>. QED BY <1>1, <1>2, <1>3, IndexFree

\* writeIndex on the index of prepared actions.
LEMMA WritesPrepared ==
  ASSUME IInv, Indexed, NEW c \in Calls, want[c] \in Actions, op[c] \in Calls, want[op[c]] = want[c],
         WriteIndex(c, prepared, want[c]), UNCHANGED want
  PROVE  /\ prepared'[want[c]] = op[c]
         /\ \A a \in Actions : prepared[a] # None => prepared'[a] = prepared[a]
         /\ \A a \in Actions : prepared'[a] # None => want'[prepared'[a]] = a
BY DEF WriteIndex, IInv, TypeOK, Indexed

LEMMA IndexFirstIndexed == ASSUME IInv, Indexed, NEW c \in Calls, IndexFirst(c) PROVE Indexed'
<1>1. want[c] \in Actions /\ op[c] \in Calls /\ want[op[c]] = want[c]
  BY DEF IndexFirst, IInv, Places, TypeOK, OpIds, NeedsOp, Indexed, IndexedAt
<1>2. UNCHANGED <<want, idempotency>> BY DEF IndexFirst
<1>3. CASE WriteIndex(c, prepared, want[c]) /\ Goto(c, "check") /\ UNCHANGED <<op, err>>
  <2>1. /\ pc'[c] = "check"
        /\ \A d \in Calls \ {c} : pc'[d] = pc[d] /\ op'[d] = op[d] /\ err'[d] = err[d]
    BY <1>3 DEF Goto, IInv, TypeOK
  <2>2. /\ prepared'[want[c]] = op[c]
        /\ \A a \in Actions : prepared[a] # None => prepared'[a] = prepared[a]
        /\ \A a \in Actions : prepared'[a] # None => want'[prepared'[a]] = a
    BY <1>1, <1>2, <1>3, WritesPrepared
  <2>3. IndexedAt(c)' BY <1>1, <1>2, <1>3, <2>1, <2>2 DEF IndexedAt, Driven, Driving
  <2>. QED BY <1>2, <2>1, <2>2, <2>3, IndexedStep
<1>4. CASE Throw(c, "internal") /\ op' = [op EXCEPT ![c] = None] /\ UNCHANGED prepared
  <2>1. /\ pc'[c] = "catch"
        /\ \A d \in Calls \ {c} : pc'[d] = pc[d] /\ op'[d] = op[d] /\ err'[d] = err[d]
    BY <1>4 DEF Throw, Report, Goto, IInv, TypeOK
  <2>2. IndexedAt(c)' BY <2>1 DEF IndexedAt, Driven, Driving
  <2>. QED BY <1>2, <1>4, <2>1, <2>2, IndexFree
<1>. QED BY <1>3, <1>4 DEF IndexFirst

LEMMA IndexPreparedIndexed ==
  ASSUME IInv, Indexed, NEW c \in Calls, IndexPrepared(c) PROVE Indexed'
<1>1. want[c] \in Actions /\ op[c] \in Calls /\ want[op[c]] = want[c]
  BY DEF IndexPrepared, IInv, Places, TypeOK, OpIds, NeedsOp, Indexed, IndexedAt
<1>2. UNCHANGED <<want, idempotency, op>> BY DEF IndexPrepared
<1>3. CASE /\ WriteIndex(c, prepared, want[c]) /\ NoReport
           /\ Goto(c, IF op[c] = c THEN "indexKey" ELSE "unlockPrepared")
  <2>1. /\ pc'[c] \in {"indexKey", "unlockPrepared"}
        /\ \A d \in Calls \ {c} : pc'[d] = pc[d] /\ op'[d] = op[d] /\ err'[d] = err[d]
    BY <1>2, <1>3 DEF Goto, NoReport, IInv, TypeOK
  <2>2. /\ prepared'[want[c]] = op[c]
        /\ \A a \in Actions : prepared[a] # None => prepared'[a] = prepared[a]
        /\ \A a \in Actions : prepared'[a] # None => want'[prepared'[a]] = a
    BY <1>1, <1>2, <1>3, WritesPrepared
  <2>3. IndexedAt(c)' BY <1>1, <1>2, <2>1, <2>2 DEF IndexedAt, Driven, Driving
  <2>. QED BY <1>2, <2>1, <2>2, <2>3, IndexedStep
<1>4. CASE /\ UNCHANGED prepared /\ Report(c, "internal")
           /\ Goto(c, IF op[c] = c THEN "unlock" ELSE "unlockPrepared")
  <2>1. /\ pc'[c] \in {"unlock", "unlockPrepared"} /\ err'[c] = "internal"
        /\ \A d \in Calls \ {c} : pc'[d] = pc[d] /\ op'[d] = op[d] /\ err'[d] = err[d]
    BY <1>2, <1>4 DEF Report, Goto, IInv, TypeOK
  <2>2. IndexedAt(c)' BY <2>1 DEF IndexedAt, Driven, Driving
  <2>. QED BY <1>2, <1>4, <2>1, <2>2, IndexFree
<1>. QED BY <1>3, <1>4 DEF IndexPrepared

LEMMA IndexKeyIndexed == ASSUME IInv, Indexed, NEW c \in Calls, IndexKey(c) PROVE Indexed'
<1>1. KeyOf[c] \in Keys BY ControlAssumption
<1>2. UNCHANGED <<want, prepared, op>> BY DEF IndexKey
<1>3. /\ pc'[c] = "unlock"
      /\ \A d \in Calls \ {c} : pc'[d] = pc[d] /\ op'[d] = op[d] /\ err'[d] = err[d]
  BY <1>2 DEF IndexKey, Report, Goto, IInv, TypeOK
<1>4. /\ \A k \in Keys : idempotency[k] # None => idempotency'[k] = idempotency[k]
      /\ err'[c] = "none" => want[op[c]] = want[c] /\ idempotency'[KeyOf[c]] = op[c]
  BY <1>1 DEF IndexKey, WriteIndex, Report, IInv, TypeOK
<1>5. IndexedAt(c)' BY <1>2, <1>3, <1>4 DEF IndexedAt, Driven, Driving
<1>. QED BY <1>2, <1>3, <1>4, <1>5, IndexedStep DEF Indexed

LEMMA UnlockIndexed == ASSUME IInv, Indexed, NEW c \in Calls, Unlock(c) PROVE Indexed'
<1>1. UNCHANGED <<want, prepared, idempotency>> BY DEF Unlock, indexes
<1>2. \/ err[c] = "none" /\ pc'[c] = "acquire" /\ UNCHANGED <<op, err>>
      \/ pc'[c] = "catch" /\ op' = [op EXCEPT ![c] = None]
  BY DEF Unlock, Throw, Goto, IInv, TypeOK
<1>3. \A d \in Calls \ {c} : pc'[d] = pc[d] /\ op'[d] = op[d] /\ err'[d] = err[d]
  BY <1>2 DEF Unlock, Throw, Goto, Report, IInv, TypeOK
<1>4. IndexedAt(c)'
  <2>1. CASE err[c] = "none" /\ pc'[c] = "acquire" /\ UNCHANGED <<op, err>>
    <3>1. op[c] \in {prepared[want[c]], idempotency[KeyOf[c]]} /\ want[op[c]] = want[c]
      <4>1. CASE pc[c] = "unlock" BY <2>1, <4>1 DEF Indexed, IndexedAt
      <4>2. CASE pc[c] = "unlockPrepared"
        BY <2>1, <4>2 DEF Indexed, IndexedAt, IInv, Places
      <4>. QED BY <4>1, <4>2 DEF Unlock
    <3>. QED BY <1>1, <2>1, <3>1 DEF IndexedAt
  <2>2. CASE pc'[c] = "catch" BY <2>2 DEF IndexedAt, Driven, Driving
  <2>. QED BY <1>2, <2>1, <2>2
<1>. QED BY <1>1, <1>3, <1>4, IndexFree

LEMMA CheckIndexed == ASSUME IInv, Indexed, NEW c \in Calls, Check(c) PROVE Indexed'
<1>1. UNCHANGED <<want, op, prepared, idempotency>> BY DEF Check, indexes
<1>2. \/ op[c] = None /\ pc'[c] = "lockPrepared"
      \/ op[c] # None /\ pc'[c] = "acquire"
      \/ pc'[c] = "catch"
  BY DEF Check, Throw, Goto, IInv, TypeOK
<1>3. \A d \in Calls \ {c} : pc'[d] = pc[d] /\ op'[d] = op[d] /\ err'[d] = err[d]
  BY <1>1 DEF Check, Throw, Goto, Report, NoReport, IInv, TypeOK
<1>4. IndexedAt(c)'
  <2>1. CASE op[c] # None /\ pc'[c] = "acquire"
    <3>1. op[c] = prepared[want[c]] /\ want[c] \in Actions BY <2>1 DEF Check, Indexed, IndexedAt, IInv, Places
    <3>2. want[op[c]] = want[c] BY <2>1, <3>1 DEF Indexed
    <3>. QED BY <1>1, <2>1, <3>1, <3>2 DEF IndexedAt
  <2>2. CASE pc'[c] \in {"lockPrepared", "catch"} BY <2>2 DEF IndexedAt, Driven, Driving
  <2>. QED BY <1>2, <2>1, <2>2
<1>. QED BY <1>1, <1>3, <1>4, IndexFree

LEMMA AcceptLockIndexed == ASSUME IInv, Indexed, NEW c \in Calls, AcceptLock(c) PROVE Indexed'
<1>1. UNCHANGED <<want, op, prepared, idempotency>> BY DEF AcceptLock, indexes
<1>2. \/ pc'[c] \in {"lockPrepared", "breakPrepared", "acceptPrepared", "catch", "lockKey", "breakKey", "acceptKey"}
      \/ pc'[c] = "unlockPrepared" /\ err'[c] = "busy"
  BY DEF AcceptLock, LockStep, Goto, Report, IInv, TypeOK
<1>3. \A d \in Calls \ {c} : pc'[d] = pc[d] /\ op'[d] = op[d] /\ err'[d] = err[d]
  BY <1>1 DEF AcceptLock, LockStep, Goto, Report, NoReport, IInv, TypeOK
<1>4. IndexedAt(c)' BY <1>2 DEF IndexedAt, Driven, Driving
<1>. QED BY <1>1, <1>3, <1>4, IndexFree

\* acquireDriver, drive, the catch and a crash.
LEMMA DrivingIndexed ==
  ASSUME IInv, Indexed, NEW c \in Calls,
         \/ AcquireDriver(c) \/ Validate(c) \/ Reserve(c) \/ Start(c) \/ Dispatch(c) \/ Execute(c)
         \/ ReconcileFailed(c) \/ Reconcile(c) \/ Block(c) \/ Link(c) \/ Build(c) \/ Finish(c)
         \/ ReleaseDriver(c) \/ TerminalizeKnownPreDispatchFailure(c) \/ Crash(c)
  PROVE  Indexed'
<1>. DEFINE Ends == {"completed", "refused", "dead", "catch"}
<1>1. UNCHANGED <<op, want, prepared, idempotency>>
  BY DEF AcquireDriver, UpdateClaimed, Validate, Reserve, Start, Dispatch, Execute, ReconcileFailed,
         Reconcile, Block, Link, Build, Finish, ReleaseDriver, TerminalizeKnownPreDispatchFailure, Crash,
         indexes, locals
<1>2. \A s \in States, a \in Actions : DriveFrom(s, a) \in Driving BY DEF DriveFrom, Driving
<1>3. /\ \A d \in Calls \ {c} : pc'[d] = pc[d] /\ err'[d] = err[d]
      /\ pc'[c] \in Ends \/ (pc[c] \in Driven /\ pc'[c] \in Driven)
  <2>1. CASE AcquireDriver(c)
    <3>1. op[c] \in Calls /\ state[op[c]] \in States /\ want[c] \in Actions
      BY <2>1 DEF AcquireDriver, IInv, Places, TypeOK, OpIds, NeedsOp
    <3>2. DriveFrom(state[op[c]], want[c]) \in Driving BY <1>2, <3>1
    <3>3. \E l \in Ends \cup Driving : pc' = [pc EXCEPT ![c] = l]
      BY <2>1, <3>2 DEF AcquireDriver, Leave, Throw, Goto
    <3>4. err' = err \/ \E e \in Errors : err' = [err EXCEPT ![c] = e]
      BY <2>1 DEF AcquireDriver, Leave, Throw, Report, NoReport, Errors
    <3>. QED BY <2>1, <3>3, <3>4 DEF AcquireDriver, Driven, IInv, TypeOK
  <2>2. CASE Validate(c)
    <3>1. want[c] \in Actions /\ "authority_validated" \in States
      BY <2>2 DEF Validate, IInv, Places, States, PreDispatch
    <3>2. DriveFrom("authority_validated", want[c]) \in Driving BY <1>2, <3>1
    <3>3. \E l \in Driven : pc' = [pc EXCEPT ![c] = l]
      BY <2>2, <3>2 DEF Validate, UpdateClaimed, Abandon, Goto, Driven
    <3>4. err' = err \/ err' = [err EXCEPT ![c] = "busy"]
      BY <2>2 DEF Validate, UpdateClaimed, Abandon, NoReport, Report
    <3>. QED BY <2>2, <3>3, <3>4 DEF Validate, Driven, Driving, IInv, TypeOK
  <2>3. CASE Reserve(c) \/ Start(c) \/ Link(c) \/ Build(c) \/ Finish(c)
    BY <2>3 DEF Reserve, Start, Link, Build, Finish, UpdateClaimed, Abandon, Goto, NoReport, Report,
                Driven, Driving, IInv, TypeOK
  <2>4. CASE Dispatch(c) \/ Execute(c) \/ ReconcileFailed(c) \/ Reconcile(c) \/ Block(c)
    BY <2>4 DEF Dispatch, Execute, ReconcileFailed, Reconcile, Block, Abandon, Goto, NoReport, Report,
                Driven, Driving, locals, IInv, TypeOK
  <2>5. CASE ReleaseDriver(c) \/ TerminalizeKnownPreDispatchFailure(c) \/ Crash(c)
    BY <2>5 DEF ReleaseDriver, TerminalizeKnownPreDispatchFailure, Crash, Leave, Goto, Report, IInv, TypeOK
  <2>. QED BY <2>1, <2>2, <2>3, <2>4, <2>5
<1>4. pc'[c] \notin {"idle", "find", "check", "unlock", "unlockPrepared", "indexFirst", "indexPrepared"}
  BY <1>3 DEF Driven, Driving
<1>5. pc'[c] \in Driven => pc[c] \in Driven BY <1>3 DEF Driven, Driving
<1>. QED BY <1>1, <1>3, <1>4, <1>5, IndexedDrive

LEMMA NextIndexed == ASSUME IInv, Indexed, [Next]_vars PROVE Indexed'
<1>1. ASSUME UNCHANGED <<pc, op, err, want, prepared, idempotency>> PROVE Indexed'
  BY <1>1 DEF Indexed, IndexedAt
<1>2. ASSUME NEW c \in Calls, RenewDriver(c) PROVE Indexed' BY <1>1, <1>2 DEF RenewDriver, indexes
<1>3. ASSUME NEW o \in Calls, Expire(o) PROVE Indexed' BY <1>1, <1>3 DEF Expire, indexes, locals
<1>4. ASSUME NEW a \in Actions, HeadMoves(a) PROVE Indexed' BY <1>1, <1>4 DEF HeadMoves, indexes, locals
<1>5. CASE UNCHANGED vars BY <1>1, <1>5 DEF vars, indexes, locals
<1>6. ASSUME NEW c \in Calls, Step(c) PROVE Indexed'
  BY <1>6, FindIndexed, IndexFirstIndexed, CheckIndexed, AcceptLockIndexed, AcceptPreparedIndexed,
     AcceptKeyIndexed, CreateIndexed, IndexPreparedIndexed, IndexKeyIndexed, UnlockIndexed,
     DrivingIndexed
  DEF Step
<1>. QED BY <1>2, <1>3, <1>4, <1>5, <1>6, BeginIndexed, DrivingIndexed DEF Next

\* Whatever crashes and broken locks leave behind, commit only drives the
\* operation that the index of its action or of its key names
\* (control-operation-journal.ts, writeIndex: the first winner stays).
THEOREM DrivenOperationsAreIndexed == Spec => []DrivenIsIndexed
<1>1. Init => Indexed BY DEF Init, Indexed, IndexedAt, Driven, Driving
<1>2. Indexed => DrivenIsIndexed BY DEF Indexed, IndexedAt, DrivenIsIndexed, Driven
<1>. QED BY <1>1, <1>2, InitInv, NextInv, NextIndexed, PTL DEF Spec
=============================================================================
