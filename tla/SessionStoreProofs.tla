------------------------- MODULE SessionStoreProofs -------------------------
(***************************************************************************)
(* What the durable log guarantees for any number of writers and lines.    *)
(* Owner makes the writers exclusive, Views says what each of them knows   *)
(* of the file at each call, Flushed where the kernel and the disk agree.  *)
(***************************************************************************)
EXTENDS SessionStore, TLAPS

Line == Event \cup {Garbage}

\* Only the holder of the lock is open.
Owner == \A w \in Writers : wpc[w] \in Alive \cup {"preserved"} => holder = w

\* What a writer knows of the file.
Views ==
  \A w \in Writers :
    /\ wpc[w] \in {"newline", "installed"} => tail = NoTail
    /\ wpc[w] \in {"check", "facts", "ready", "fatal"}
         => mem[w] = lines /\ tail = NoTail
    /\ wpc[w] = "writing" => lines = Append(mem[w], NextEvent(w)) /\ tail = NoTail

\* Where nothing waits for a sync.
Flushed ==
  ~openFailed =>
    /\ holder = Nobody => synced = Len(lines)
    /\ \A w \in Writers :
         \/ wpc[w] \in {"recover", "check", "facts"} /\ "lock" \notin owed[w]
         \/ wpc[w] \in {"ready", "fatal"}
         => synced = Len(lines)

AckedSeqPositive == \A e \in acked : e.seq > 0

IInv == /\ TypeOK /\ LogDecodes /\ Owner /\ Views
        /\ AckedIsDurable /\ AckedSeqPositive /\ Flushed

-----------------------------------------------------------------------------
LEMMA EventIsLine ==
  ASSUME NEW e \in Event
  PROVE  e \in Line /\ e # Garbage /\ e # NoTail /\ e # TornTail
  BY StoreAssumption DEF Line

LEMMA NextEventType ==
  ASSUME NEW w \in Writers, mem \in [Writers -> Seq(Line)]
  PROVE  NextEvent(w) \in Event /\ NextEvent(w).seq = Len(mem[w]) + 1
  <1>1. mem[w] \in Seq(Line) OBVIOUS
  <1>2. Len(mem[w]) + 1 \in Nat BY <1>1
  <1> QED BY <1>2 DEF NextEvent, Event

LEMMA AppendDecodes ==
  ASSUME NEW s \in Seq(Line), Decodes(s), NEW e \in Event, e.seq = Len(s) + 1
  PROVE  Append(s, e) \in Seq(Line) /\ Len(Append(s, e)) = Len(s) + 1
         /\ Decodes(Append(s, e))
         /\ \A i \in 1 .. Len(s) : Append(s, e)[i] = s[i]
  <1>1. e \in Line /\ e # Garbage BY EventIsLine
  <1>2. Append(s, e) \in Seq(Line) /\ Len(Append(s, e)) = Len(s) + 1 BY <1>1
  <1>3. \A i \in 1 .. Len(s) : Append(s, e)[i] = s[i] BY <1>1
  <1>4. Append(s, e)[Len(s) + 1] = e BY <1>1
  <1>5. \A i \in 1 .. Len(Append(s, e)) : i \in 1 .. Len(s) \/ i = Len(s) + 1
    BY <1>2
  <1> QED BY <1>1, <1>2, <1>3, <1>4, <1>5 DEF Decodes

LEMMA PrefixDecodes ==
  ASSUME NEW s \in Seq(Line), Decodes(s), NEW k \in 0 .. Len(s)
  PROVE  /\ SubSeq(s, 1, k) \in Seq(Line) /\ Len(SubSeq(s, 1, k)) = k
         /\ Decodes(SubSeq(s, 1, k))
         /\ \A i \in 1 .. k : SubSeq(s, 1, k)[i] = s[i]
  <1>1. k \in Nat /\ Len(s) \in Nat OBVIOUS
  <1>2. SubSeq(s, 1, k) \in Seq(Line) /\ Len(SubSeq(s, 1, k)) = k BY <1>1
  <1>3. \A i \in 1 .. k : SubSeq(s, 1, k)[i] = s[i] BY <1>1
  <1> QED BY <1>2, <1>3 DEF Decodes
-----------------------------------------------------------------------------
\* Nobody else is open while w is, or while w opens.
LEMMA Alone ==
  ASSUME IInv, NEW w \in Writers,
         wpc[w] \in Alive \cup {"preserved"} \/ Open(w)
  PROVE  \A v \in Writers : v # w => wpc[v] \notin Alive \cup {"preserved"}
  BY StoreAssumption DEF IInv, Owner, Open, Alive

\* The last three parts of the invariant after a step of w to l.
LEMMA SoloStep ==
  ASSUME TypeOK, NEW w \in Writers, NEW l \in Phases, Goto(w, l),
         \A v \in Writers : v # w => wpc[v] \notin Alive \cup {"preserved"},
         l \in Alive \cup {"preserved"} => holder' = w,
         l \in {"newline", "installed"} => tail' = NoTail,
         l \in {"check", "facts", "ready", "fatal"}
           => mem'[w] = lines' /\ tail' = NoTail,
         l = "writing" => lines' = Append(mem'[w], NextEvent(w)') /\ tail' = NoTail,
         ~openFailed' =>
           /\ holder' = Nobody => synced' = Len(lines')
           /\ \/ l \in {"recover", "check", "facts"} /\ "lock" \notin owed'[w]
              \/ l \in {"ready", "fatal"}
              => synced' = Len(lines')
  PROVE  Owner' /\ Views' /\ Flushed'
  <1>1. /\ wpc'[w] = l
        /\ \A v \in Writers : v # w => wpc'[v] \notin Alive \cup {"preserved"}
    BY DEF TypeOK, Goto
  <1>2. Owner' BY <1>1 DEF Owner
  <1>3. Views' BY <1>1 DEF Views, Alive
  <1>4. Flushed' BY <1>1 DEF Flushed, Alive
  <1> QED BY <1>2, <1>3, <1>4

\* The file, the lock and the history stay as they are.
LEMMA DiskSameStep ==
  ASSUME IInv, UNCHANGED <<disk, acked>>, wpc' \in [Writers -> Phases],
         holder' \in Writers \cup {Nobody}, mem' \in [Writers -> Seq(Line)],
         owed' \in [Writers -> SUBSET {"lock", "tail"}], openFailed' \in BOOLEAN,
         Owner', Views', Flushed'
  PROVE  IInv'
  <1>1. TypeOK' BY DEF IInv, TypeOK, disk, Line
  <1>2. LogDecodes' BY DEF IInv, LogDecodes, disk, Decodes
  <1>3. AckedIsDurable' /\ AckedSeqPositive'
    BY DEF IInv, AckedIsDurable, AckedSeqPositive, disk
  <1> QED BY <1>1, <1>2, <1>3 DEF IInv

LEMMA OpenStep ==
  ASSUME IInv, NEW w \in Writers, Open(w) PROVE IInv'
  <1>a. \A v \in Writers : v # w => wpc[v] \notin Alive \cup {"preserved"}
    BY Alone
  <1>b. "lock" \notin owed'[w] => holder = Nobody BY DEF Open, IInv, TypeOK
  <1>c. "lock" \notin owed'[w] /\ ~openFailed' => synced' = Len(lines')
    BY <1>b DEF Open, IInv, Flushed, disk
  <1>d. TypeOK /\ Goto(w, "recover") /\ holder' = w /\ w # Nobody
    BY StoreAssumption DEF Open, IInv
  <1>1. Owner' /\ Views' /\ Flushed'
    BY <1>a, <1>c, <1>d, SoloStep DEF Phases, Alive
  <1> QED BY <1>1, DiskSameStep DEF Open, IInv, TypeOK, Goto, Phases, Alive, Line

\* The steps of an open writer that leave the file alone.
LEMMA QuietStep ==
  ASSUME IInv, NEW w \in Writers,
         \/ RecoverNone(w) \/ RecoverFails(w) \/ CheckRejected(w)
         \/ CheckAccepted(w) \/ SyncFails(w) \/ Close(w) \/ ClosePoisoned(w)
         \/ Crash(w) \/ OpenResidue(w) \/ FactsFail(w)
  PROVE  IInv'
  <1> USE DEF Alive, Phases
  <1>a. wpc[w] \in Alive \cup {"preserved"}
    BY DEF RecoverNone, RecoverFails, CheckRejected, CheckAccepted, SyncFails,
           Close, ClosePoisoned, Crash, OpenResidue, FactsFail
  <1>b. holder = w BY <1>a DEF IInv, Owner
  <1>c. \A v \in Writers : v # w => wpc[v] \notin Alive \cup {"preserved"}
    BY <1>a, Alone
  <1>d. w # Nobody /\ TypeOK BY StoreAssumption DEF IInv
  <1>1. CASE RecoverNone(w)
    <2>1. mem'[w] = lines BY <1>1, <1>d DEF RecoverNone, TypeOK
    <2>2. Owner' /\ Views' /\ Flushed'
      BY <1>1, <1>b, <1>c, <1>d, <2>1, SoloStep
      DEF RecoverNone, IInv, Flushed, disk
    <2> QED BY <1>1, <2>2, DiskSameStep DEF RecoverNone, IInv, TypeOK, Goto, Line
  <1>2. CASE RecoverFails(w) \/ CheckRejected(w)
    <2>1. Owner' /\ Views' /\ Flushed'
      BY <1>2, <1>c, <1>d, SoloStep DEF RecoverFails, CheckRejected, GiveUp
    <2> QED BY <1>2, <2>1, DiskSameStep
      DEF RecoverFails, CheckRejected, GiveUp, IInv, TypeOK, Goto, Line
  <1>3. CASE CheckAccepted(w)
    <2>1. AfterFacts(owed[w]) \in {"ready", "facts"}
          /\ (AfterFacts(owed[w]) = "ready" => owed[w] = {})
      BY DEF AfterFacts
    <2>2. Owner' /\ Views' /\ Flushed'
      BY <1>3, <1>b, <1>c, <1>d, <2>1, SoloStep
      DEF CheckAccepted, IInv, Views, Flushed, disk
    <2> QED BY <1>3, <2>1, <2>2, DiskSameStep
      DEF CheckAccepted, IInv, TypeOK, Goto, Line
  <1>4. CASE SyncFails(w) \/ ClosePoisoned(w) \/ Crash(w) \/ FactsFail(w)
    <2>1. Owner' /\ Views' /\ Flushed'
      BY <1>4, <1>b, <1>c, <1>d, SoloStep
      DEF SyncFails, ClosePoisoned, Crash, FactsFail, IInv, Flushed, disk
    <2> QED BY <1>4, <2>1, DiskSameStep
      DEF SyncFails, ClosePoisoned, Crash, FactsFail, IInv, TypeOK, Goto, Line
  <1>5. CASE Close(w)
    <2>1. Owner' /\ Views' /\ Flushed'
      BY <1>5, <1>b, <1>c, <1>d, SoloStep DEF Close, IInv, Flushed, disk
    <2> QED BY <1>5, <2>1, DiskSameStep DEF Close, IInv, TypeOK, Goto, Line
  <1>6. CASE OpenResidue(w)
    <2>1. mem[w] = lines /\ tail = NoTail BY <1>6 DEF OpenResidue, IInv, Views
    <2>2. synced = Len(lines) BY <1>6, <1>d, <2>1 DEF OpenResidue, TypeOK
    <2>3. owed' \in [Writers -> SUBSET {"lock", "tail"}]
      BY <1>6, <1>d DEF OpenResidue, TypeOK
    <2>4. Owner' /\ Views' /\ Flushed'
      BY <1>6, <1>b, <1>c, <1>d, <2>1, <2>2, SoloStep DEF OpenResidue, disk
    <2> QED BY <1>6, <2>3, <2>4, DiskSameStep
      DEF OpenResidue, IInv, TypeOK, Goto, Line
  <1> QED BY <1>1, <1>2, <1>3, <1>4, <1>5, <1>6

-----------------------------------------------------------------------------
(* The steps that change the file.                                         *)

\* One whole event is added to a file without a fragment.
LEMMA LineAdded ==
  ASSUME IInv, NEW e \in Event, e.seq = Len(lines) + 1,
         lines' = Append(lines, e), tail' = NoTail, synced' = synced, acked' = acked
  PROVE  /\ lines' \in Seq(Line) /\ synced' \in 0 .. Len(lines')
         /\ LogDecodes' /\ AckedIsDurable' /\ AckedSeqPositive'
  <1>0. lines \in Seq(Line) /\ Decodes(lines) /\ synced \in 0 .. Len(lines)
        /\ acked \subseteq Event
    BY DEF IInv, TypeOK, LogDecodes, Line
  <1>1. /\ lines' \in Seq(Line) /\ Len(lines') = Len(lines) + 1 /\ Decodes(lines')
        /\ \A i \in 1 .. Len(lines) : lines'[i] = lines[i]
    BY <1>0, AppendDecodes
  <1>2. LogDecodes' BY <1>1 DEF LogDecodes, Decodes
  <1>3. AckedIsDurable'
    <2> SUFFICES ASSUME NEW a \in acked PROVE a.seq =< synced /\ lines'[a.seq] = a
      BY DEF AckedIsDurable
    <2>1. a.seq =< synced /\ lines[a.seq] = a /\ a.seq \in Nat
      BY <1>0 DEF IInv, AckedIsDurable, Event
    <2>2. a.seq \in 1 .. Len(lines)
      BY <2>1, <1>0 DEF IInv, AckedSeqPositive
    <2> QED BY <2>1, <2>2, <1>1
  <1>4. AckedSeqPositive' BY DEF IInv, AckedSeqPositive
  <1> QED BY <1>0, <1>1, <1>2, <1>3, <1>4

LEMMA WriteStep ==
  ASSUME IInv, NEW w \in Writers, Write(w) PROVE IInv'
  <1> USE DEF Alive, Phases
  <1>a. wpc[w] \in {"facts", "ready"} BY DEF Write
  <1>b. holder = w /\ mem[w] = lines /\ tail = NoTail /\ TypeOK /\ w # Nobody
    BY <1>a, StoreAssumption DEF IInv, Owner, Views
  <1>c. \A v \in Writers : v # w => wpc[v] \notin Alive \cup {"preserved"}
    BY <1>a, Alone
  <1>d. NextEvent(w) \in Event /\ NextEvent(w).seq = Len(lines) + 1
    BY <1>b, NextEventType DEF TypeOK, Line
  <1>e. lines' = Append(lines, NextEvent(w)) /\ tail' = NoTail
    BY <1>b DEF Write, WriteLine
  <1>1. /\ lines' \in Seq(Line) /\ synced' \in 0 .. Len(lines')
        /\ LogDecodes' /\ AckedIsDurable' /\ AckedSeqPositive'
    BY <1>d, <1>e, LineAdded DEF Write
  <1>2. TypeOK' BY <1>1, <1>e DEF Write, IInv, TypeOK, Goto, Line
  <1>3. mem' = mem /\ NextEvent(w)' = NextEvent(w) BY DEF Write, NextEvent
  <1>4. Owner' /\ Views' /\ Flushed'
    BY <1>b, <1>c, <1>e, <1>3, SoloStep DEF Write
  <1> QED BY <1>1, <1>2, <1>4 DEF IInv

LEMMA RecoverNewlineStep ==
  ASSUME IInv, NEW w \in Writers, RecoverNewline(w) PROVE IInv'
  <1> USE DEF Alive, Phases
  <1>a. wpc[w] = "recover" BY DEF RecoverNewline
  <1>b. holder = w /\ TypeOK /\ w # Nobody
    BY <1>a, StoreAssumption DEF IInv, Owner
  <1>c. \A v \in Writers : v # w => wpc[v] \notin Alive \cup {"preserved"}
    BY <1>a, Alone
  <1>d. tail \in Event BY <1>b DEF RecoverNewline, TypeOK
  <1>e. tail.seq = Len(lines) + 1
    <2>1. lines \in Seq(Line) /\ tail \in Line BY <1>b, <1>d DEF TypeOK, Line
    <2>2. Len(Append(lines, tail)) = Len(lines) + 1
          /\ Append(lines, tail)[Len(lines) + 1] = tail
          /\ Len(lines) \in Nat
      BY <2>1
    <2> QED BY <2>2 DEF RecoverNewline, Decodes
  <1>1. /\ lines' \in Seq(Line) /\ synced' \in 0 .. Len(lines')
        /\ LogDecodes' /\ AckedIsDurable' /\ AckedSeqPositive'
    BY <1>d, <1>e, LineAdded DEF RecoverNewline
  <1>2. TypeOK' BY <1>1 DEF RecoverNewline, IInv, TypeOK, Goto, Line
  <1>4. Owner' /\ Views' /\ Flushed'
    BY <1>b, <1>c, SoloStep DEF RecoverNewline
  <1> QED BY <1>1, <1>2, <1>4 DEF IInv

\* The repair of the tail reaches the disk.
LEMMA RepairSyncedStep ==
  ASSUME IInv, NEW w \in Writers, NewlineSynced(w) \/ InstallSynced(w) PROVE IInv'
  <1> USE DEF Alive, Phases, NewlineSynced, InstallSynced
  <1>a. wpc[w] \in {"newline", "installed"} OBVIOUS
  <1>b. holder = w /\ TypeOK /\ w # Nobody /\ tail = NoTail
    BY <1>a, StoreAssumption DEF IInv, Owner, Views
  <1>c. \A v \in Writers : v # w => wpc[v] \notin Alive \cup {"preserved"}
    BY <1>a, Alone
  <1>d. Len(lines) \in Nat /\ synced \in 0 .. Len(lines) BY <1>b DEF TypeOK
  <1>1. TypeOK'
    <2>1. owed' \in [Writers -> SUBSET {"lock", "tail"}]
      <3>1. owed[w] \cup {"tail"} \in SUBSET {"lock", "tail"} BY <1>b DEF TypeOK
      <3>2. owed' = [owed EXCEPT ![w] = owed[w] \cup {"tail"}] OBVIOUS
      <3> QED BY <1>b, <3>1, <3>2 DEF TypeOK
    <2>2. mem' \in [Writers -> Seq(Event \cup {Garbage})] BY <1>b DEF TypeOK
    <2>3. synced' \in 0 .. Len(lines') BY <1>d
    <2>4. wpc' \in [Writers -> Phases] BY <1>b DEF TypeOK, Goto
    <2> QED BY <1>b, <2>1, <2>2, <2>3, <2>4 DEF TypeOK
  <1>2. LogDecodes' BY DEF IInv, LogDecodes, Decodes
  <1>3. AckedIsDurable' /\ AckedSeqPositive'
    <2>1. \A e \in acked : e.seq \in Nat BY <1>b DEF TypeOK, Event
    <2> QED BY <1>d, <2>1 DEF IInv, AckedIsDurable, AckedSeqPositive
  <1>4. mem'[w] = lines BY <1>b DEF TypeOK
  <1>5. Owner' /\ Views' /\ Flushed' BY <1>b, <1>c, <1>4, SoloStep
  <1> QED BY <1>1, <1>2, <1>3, <1>5 DEF IInv

LEMMA FragmentStep ==
  ASSUME IInv, NEW w \in Writers, RecoverTorn(w) \/ WriteFails(w) PROVE IInv'
  <1> USE DEF Alive, Phases, RecoverTorn, WriteFails
  <1>a. wpc[w] \in {"recover", "facts", "ready"} OBVIOUS
  <1>b. holder = w /\ TypeOK /\ w # Nobody
    BY <1>a, StoreAssumption DEF IInv, Owner
  <1>c. \A v \in Writers : v # w => wpc[v] \notin Alive \cup {"preserved"}
    BY <1>a, Alone
  <1>d. NextEvent(w) \in Event /\ NextEvent(w).seq = Len(mem[w]) + 1
    BY <1>b, NextEventType DEF TypeOK, Line
  <1>1. TypeOK' BY <1>b, <1>d DEF TypeOK, Goto
  <1>2. LogDecodes'
    <2>1. CASE RecoverTorn(w) BY <2>1 DEF IInv, LogDecodes, Decodes
    <2>2. CASE WriteFails(w)
      <3>1. mem[w] = lines /\ tail = NoTail BY <2>2 DEF IInv, Views
      <3>2. tail' \in {NoTail, TornTail, NextEvent(w)} BY <2>2, <3>1
      <3>3. lines \in Seq(Line) /\ Decodes(lines)
        BY <1>b DEF IInv, LogDecodes, TypeOK, Line
      <3>4. Decodes(Append(lines, NextEvent(w))) BY <1>d, <3>1, <3>3, AppendDecodes
      <3> QED BY <2>2, <3>2, <3>3, <3>4 DEF LogDecodes, Decodes
    <2> QED BY <2>1, <2>2
  <1>3. AckedIsDurable' /\ AckedSeqPositive'
    BY DEF IInv, AckedIsDurable, AckedSeqPositive
  <1>4. Owner' /\ Views' /\ Flushed' BY <1>b, <1>c, SoloStep
  <1> QED BY <1>1, <1>2, <1>3, <1>4 DEF IInv

LEMMA AckStep ==
  ASSUME IInv, NEW w \in Writers, Ack(w) PROVE IInv'
  <1> USE DEF Alive, Phases
  <1>a. wpc[w] = "writing" BY DEF Ack
  <1>b. /\ holder = w /\ TypeOK /\ w # Nobody /\ tail = NoTail
        /\ lines = Append(mem[w], NextEvent(w))
    BY <1>a, StoreAssumption DEF IInv, Owner, Views
  <1>c. \A v \in Writers : v # w => wpc[v] \notin Alive \cup {"preserved"}
    BY <1>a, Alone
  <1>d. NextEvent(w) \in Event /\ NextEvent(w).seq = Len(mem[w]) + 1
        /\ mem[w] \in Seq(Line) /\ NextEvent(w) \in Line
    BY <1>b, NextEventType, EventIsLine DEF TypeOK, Line
  <1>e. Len(lines) = Len(mem[w]) + 1 /\ lines[Len(lines)] = NextEvent(w)
        /\ Len(mem[w]) \in Nat /\ synced \in 0 .. Len(lines)
    BY <1>b, <1>d DEF TypeOK
  <1>f. mem'[w] = lines /\ mem' \in [Writers -> Seq(Line)]
    BY <1>b, <1>d DEF Ack, TypeOK, Line
  <1>g. PICK l \in {"fatal", "ready", "facts"} :
          Goto(w, l) /\ (l = "ready" => owed'[w] = {})
    BY DEF Ack, AfterFacts
  <1>h. owed' \in [Writers -> SUBSET {"lock", "tail"}]
    <2>1. (IF "lock" \in owed[w] THEN owed[w] \ {"lock"} ELSE {})
            \in SUBSET {"lock", "tail"}
      BY <1>b DEF TypeOK
    <2> QED BY <1>b, <2>1 DEF Ack, TypeOK
  <1>1. TypeOK'
    <2>1. wpc' \in [Writers -> Phases] BY <1>b, <1>g DEF TypeOK, Goto
    <2>2. synced' \in 0 .. Len(lines') BY <1>e DEF Ack
    <2>3. acked' \subseteq Event BY <1>b, <1>d DEF Ack, TypeOK
    <2> QED BY <1>b, <1>f, <1>h, <2>1, <2>2, <2>3 DEF Ack, TypeOK, Line
  <1>2. LogDecodes' BY DEF Ack, IInv, LogDecodes, Decodes
  <1>3. AckedIsDurable' /\ AckedSeqPositive'
    <2> SUFFICES ASSUME NEW e \in acked'
                 PROVE  e.seq =< synced' /\ lines'[e.seq] = e /\ e.seq > 0
      BY DEF AckedIsDurable, AckedSeqPositive
    <2>1. CASE e \in acked
      <3>1. e.seq \in Nat /\ e.seq =< synced /\ lines[e.seq] = e /\ e.seq > 0
        BY <1>b, <2>1 DEF TypeOK, Event, IInv, AckedIsDurable, AckedSeqPositive
      <3> QED BY <3>1, <1>e DEF Ack
    <2>2. CASE e = NextEvent(w) BY <2>2, <1>d, <1>e DEF Ack
    <2> QED BY <2>1, <2>2 DEF Ack
  <1>4. Owner' /\ Views' /\ Flushed'
    BY <1>b, <1>c, <1>f, <1>g, SoloStep DEF Ack
  <1> QED BY <1>1, <1>2, <1>3, <1>4 DEF IInv

LEMMA PowerLossStep ==
  ASSUME IInv, PowerLoss PROVE IInv'
  <1>a. TypeOK /\ lines \in Seq(Line) /\ Decodes(lines)
    BY DEF IInv, LogDecodes, TypeOK, Line
  <1>b. PICK k \in synced .. Len(lines) :
          /\ lines' = SubSeq(lines, 1, k)
          /\ tail' \in IF k < Len(lines) THEN {NoTail, TornTail, lines[k + 1]}
                       ELSE IF HasFragment THEN {NoTail, TornTail, tail}
                       ELSE {NoTail}
          /\ synced' = k
    BY DEF PowerLoss
  <1>c. Len(lines) \in Nat /\ synced \in Nat /\ k \in 0 .. Len(lines)
    BY <1>a DEF TypeOK
  <1>d. /\ lines' \in Seq(Line) /\ Len(lines') = k /\ Decodes(lines')
        /\ \A i \in 1 .. k : lines'[i] = lines[i]
    BY <1>a, <1>b, <1>c, PrefixDecodes
  <1>e. k < Len(lines) => lines[k + 1] \in Event /\ lines[k + 1].seq = k + 1
    BY <1>a, <1>c DEF Decodes, Line
  <1>f. k = Len(lines) => lines' = lines
    BY <1>a, <1>c, <1>d
  <1>g. wpc' \in [Writers -> Phases]
        /\ \A w \in Writers : wpc'[w] \notin Alive \cup {"preserved"}
    BY <1>a DEF PowerLoss, TypeOK, Phases, Alive
  <1>h. PICK v \in Writers : holder = v
    BY DEF PowerLoss, IInv, Owner
  <1>1. TypeOK'
    <2>1. tail' \in Event \cup {NoTail, TornTail} BY <1>a, <1>b, <1>c, <1>e DEF TypeOK
    <2> QED BY <1>a, <1>b, <1>c, <1>d, <1>g, <2>1 DEF PowerLoss, TypeOK, Line
  <1>2. LogDecodes'
    <2>1. CASE k < Len(lines)
      BY <2>1, <1>b, <1>d, <1>e, AppendDecodes DEF LogDecodes
    <2>2. CASE k = Len(lines)
      <3>1. tail' \in {NoTail, TornTail, tail} BY <2>2, <1>b, <1>c
      <3> QED BY <2>2, <3>1, <1>f DEF IInv, LogDecodes, Decodes
    <2> QED BY <1>c, <2>1, <2>2
  <1>3. AckedIsDurable' /\ AckedSeqPositive'
    <2> SUFFICES ASSUME NEW e \in acked
                 PROVE  e.seq =< k /\ lines'[e.seq] = e /\ e.seq > 0
      BY <1>b DEF AckedIsDurable, AckedSeqPositive, PowerLoss
    <2>1. e.seq \in Nat /\ e.seq =< synced /\ lines[e.seq] = e /\ e.seq > 0
      BY <1>a DEF TypeOK, Event, IInv, AckedIsDurable, AckedSeqPositive
    <2>2. e.seq \in 1 .. k BY <2>1, <1>c
    <2> QED BY <2>1, <2>2, <1>d
  <1>4. Owner' /\ Views' BY <1>g DEF Owner, Views, Alive
  <1>5. Flushed'
    BY <1>g, <1>h, StoreAssumption DEF Flushed, Alive, PowerLoss
  <1> QED BY <1>1, <1>2, <1>3, <1>4, <1>5 DEF IInv

LEMMA InitInv == ASSUME Init PROVE IInv
  <1>0. <<>> \in Seq(Event \cup {Garbage}) /\ Len(<<>>) = 0 OBVIOUS
  <1>1. TypeOK
    <2>1. mem \in [Writers -> Seq(Event \cup {Garbage})] BY <1>0 DEF Init
    <2>2. synced \in 0 .. Len(lines) BY <1>0 DEF Init
    <2>3. owed \in [Writers -> SUBSET {"lock", "tail"}] BY DEF Init
    <2> QED BY <1>0, <2>1, <2>2, <2>3 DEF Init, TypeOK, Phases
  <1>2. LogDecodes BY DEF Init, LogDecodes, Decodes
  <1>3. Owner /\ Views /\ Flushed BY DEF Init, Owner, Views, Flushed, Alive
  <1>4. AckedIsDurable /\ AckedSeqPositive
    BY DEF Init, AckedIsDurable, AckedSeqPositive
  <1> QED BY <1>1, <1>2, <1>3, <1>4 DEF IInv

\* IInv is inductive.
THEOREM StoreInvariant == Spec => []IInv
  <1>1. Init => IInv BY InitInv
  <1>2. IInv /\ [Next]_vars => IInv'
    <2> SUFFICES ASSUME IInv, [Next]_vars PROVE IInv' OBVIOUS
    <2>1. CASE UNCHANGED vars
      <3>1. Owner' /\ Views' /\ Flushed'
        BY <2>1 DEF vars, IInv, Owner, Views, Flushed, NextEvent
      <3> QED BY <2>1, <3>1, DiskSameStep DEF vars, disk, IInv, TypeOK, Line
    <2>2. ASSUME NEW w \in Writers, WriterSteps(w) PROVE IInv'
      BY <2>2, OpenStep, QuietStep, WriteStep, RecoverNewlineStep,
         RepairSyncedStep, FragmentStep, AckStep
      DEF WriterSteps
    <2>3. CASE PowerLoss BY <2>3, PowerLossStep
    <2> QED BY <2>1, <2>2, <2>3 DEF Next
  <1> QED BY <1>1, <1>2, PTL DEF Spec

\* An append that returned is never lost: the sync of appendEncodedLine comes
\* before the return and no repair removes a terminated line.
THEOREM AckedSafety == Spec => []AckedIsDurable
  <1>1. IInv => AckedIsDurable BY DEF IInv
  <1> QED BY <1>1, StoreInvariant, PTL

\* The log can always be decoded, so a crash never locks a session out.
THEOREM DecodeSafety == Spec => []LogDecodes
  <1>1. IInv => LogDecodes BY DEF IInv
  <1> QED BY <1>1, StoreInvariant, PTL

\* The events a writer validates against are the log.
THEOREM MemorySafety == Spec => []MemoryIsLog
  <1>1. IInv => MemoryIsLog BY DEF IInv, Views, MemoryIsLog
  <1> QED BY <1>1, StoreInvariant, PTL

\* Only events on the disk are shown, as long as no open failed before.
THEOREM ShownSafety == Spec => []ShownIsSyncedUnlessOpenFailed
  <1>1. IInv => ShownIsSyncedUnlessOpenFailed
    <2> SUFFICES ASSUME IInv, ~openFailed, NEW w \in Writers, wpc[w] = "ready"
                 PROVE  Len(mem[w]) =< synced
      BY DEF ShownIsSyncedUnlessOpenFailed
    <2>1. mem[w] = lines /\ synced = Len(lines) /\ lines \in Seq(Line)
      BY DEF IInv, Views, Flushed, TypeOK, Line
    <2> QED BY <2>1
  <1> QED BY <1>1, StoreInvariant, PTL

=============================================================================
