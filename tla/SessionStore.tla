---------------------------- MODULE SessionStore ----------------------------
(***************************************************************************)
(* The durable log of one session: DurableSessionStore, recoverSessionTail *)
(* and the append path of V2SessionWriter, one step per file-system call.  *)
(*                                                                         *)
(* The file is a sequence of complete lines and possibly an unterminated   *)
(* fragment, as the kernel shows it; `synced` counts the leading lines     *)
(* that are on the disk.  A process crash keeps what the kernel has, a     *)
(* power loss keeps at least the synced lines and may tear the next one.   *)
(* An event is named by its writer and its session_seq; what it says is    *)
(* left out, so the decoder's rule is that line i has session_seq i.       *)
(*                                                                         *)
(* A Writer opens the session once.  The session lock is exclusive here    *)
(* (`holder`); how it is kept and lost is the subject of SessionLock.      *)
(***************************************************************************)
EXTENDS Integers, Sequences

CONSTANTS
  Writers, Nobody,
  NoTail, TornTail,   \* no fragment; a fragment that is not one JSON value
  Garbage,            \* a terminated line that is not one JSON value
  MaxLines            \* bound on the length of the log

Event == [by : Writers, seq : Nat]

ASSUME StoreAssumption ==
  /\ Nobody \notin Writers
  /\ NoTail # TornTail
  /\ {NoTail, TornTail, Garbage} \cap Event = {}
  /\ MaxLines \in Nat

VARIABLES
  lines,       \* the terminated lines
  tail,        \* the unterminated fragment; an Event is one without newline
  synced,
  holder,      \* whose record is in the session lock
  wpc,
  mem,         \* V2SessionWriter.rawValues
  owed,        \* the recovery facts open still has to append
  acked,       \* history: the events whose append returned
  openFailed   \* history: an open gave the lock back without its facts

vars == <<lines, tail, synced, holder, wpc, mem, owed, acked, openFailed>>

Alive == {"recover", "newline", "installed", "check", "facts", "ready",
          "writing", "poisoned", "fatal"}
Phases == Alive \cup {"idle", "closed", "preserved", "dead"}

Init ==
  /\ lines = <<>> /\ tail = NoTail /\ synced = 0
  /\ holder = Nobody
  /\ wpc = [w \in Writers |-> "idle"]
  /\ mem = [w \in Writers |-> <<>>]
  /\ owed = [w \in Writers |-> {}]
  /\ acked = {}
  /\ openFailed = FALSE

Goto(w, l) == wpc' = [wpc EXCEPT ![w] = l]
disk == <<lines, tail, synced>>

-----------------------------------------------------------------------------
(* Opening: the lock, the tail, the recovery facts.                        *)

\* SessionLock.acquire: free, or its owner's process is gone.
Open(w) ==
  /\ wpc[w] = "idle"
  /\ \A h \in Writers : holder = h => wpc[h] = "dead"
  /\ holder' = w
  /\ owed' = [owed EXCEPT ![w] = IF holder = Nobody THEN {} ELSE {"lock"}]
  /\ Goto(w, "recover")
  /\ UNCHANGED <<disk, mem, acked, openFailed>>

Decodes(s) == \A i \in 1 .. Len(s) : s[i] # Garbage /\ s[i].seq = i

\* Every complete line decodes and there is no fragment.
RecoverNone(w) ==
  /\ wpc[w] = "recover"
  /\ Decodes(lines) /\ tail = NoTail
  /\ mem' = [mem EXCEPT ![w] = lines]
  /\ Goto(w, "check")
  /\ UNCHANGED <<disk, holder, owed, acked, openFailed>>

\* The fragment is one whole event: a backup is written and the newline added.
RecoverNewline(w) ==
  /\ wpc[w] = "recover"
  /\ tail \notin {NoTail, TornTail}
  /\ Decodes(Append(lines, tail))
  /\ lines' = Append(lines, tail)
  /\ tail' = NoTail
  /\ Goto(w, "newline")
  /\ UNCHANGED <<synced, holder, mem, owed, acked, openFailed>>

NewlineSynced(w) ==
  /\ wpc[w] = "newline"
  /\ synced' = Len(lines)
  /\ mem' = [mem EXCEPT ![w] = lines]
  /\ owed' = [owed EXCEPT ![w] = @ \cup {"tail"}]
  /\ Goto(w, "check")
  /\ UNCHANGED <<lines, tail, holder, acked, openFailed>>

\* The fragment is torn: after a backup, a synced copy of the terminated lines
\* is renamed over the file.
RecoverTorn(w) ==
  /\ wpc[w] = "recover"
  /\ Decodes(lines) /\ tail = TornTail
  /\ tail' = NoTail
  /\ Goto(w, "installed")
  /\ UNCHANGED <<lines, synced, holder, mem, owed, acked, openFailed>>

\* The parent directory is synced: the rename is on the disk.
InstallSynced(w) ==
  /\ wpc[w] = "installed"
  /\ synced' = Len(lines)
  /\ mem' = [mem EXCEPT ![w] = lines]
  /\ owed' = [owed EXCEPT ![w] = @ \cup {"tail"}]
  /\ Goto(w, "check")
  /\ UNCHANGED <<lines, tail, holder, acked, openFailed>>

GiveUp(w) ==
  /\ holder' = Nobody
  /\ openFailed' = TRUE
  /\ Goto(w, "closed")
  /\ UNCHANGED <<disk, mem, owed, acked>>

\* A line does not decode, or any call of the recovery fails: open releases
\* the lock and throws.
RecoverFails(w) ==
  /\ wpc[w] \in {"recover", "newline", "installed"}
  /\ GiveUp(w)

\* createNew wants an empty session, openExisting one that is not.
CheckRejected(w) ==
  /\ wpc[w] = "check"
  /\ GiveUp(w)

AfterFacts(o) == IF o = {} THEN "ready" ELSE "facts"

\* Mutant: the recovery facts are not appended.
CheckAcceptedFactless(w) ==
  /\ wpc[w] = "check"
  /\ mem[w] # <<>> \/ "tail" \notin owed[w]
  /\ Goto(w, "ready")
  /\ UNCHANGED <<disk, holder, mem, owed, acked, openFailed>>

CheckAccepted(w) ==
  /\ wpc[w] = "check"
  /\ mem[w] # <<>> \/ "tail" \notin owed[w]
  /\ Goto(w, AfterFacts(owed[w]))
  /\ UNCHANGED <<disk, holder, mem, owed, acked, openFailed>>

\* openMaterializationResidue takes an empty session and appends no facts.
OpenResidue(w) ==
  /\ wpc[w] = "check"
  /\ mem[w] = <<>> /\ "tail" \notin owed[w]
  /\ owed' = [owed EXCEPT ![w] = {}]
  /\ Goto(w, "ready")
  /\ UNCHANGED <<disk, holder, mem, acked, openFailed>>

\* The backup cannot be read for the tail fact: open throws and leaves the
\* writer, and with it the lock, behind.
FactsFail(w) ==
  /\ wpc[w] = "facts" /\ owed[w] = {"tail"}
  /\ Goto(w, "preserved")
  /\ UNCHANGED <<disk, holder, mem, owed, acked, openFailed>>

-----------------------------------------------------------------------------
(* Appending.  appendGate lets one append at a time in, and it takes its    *)
(* session_seq from rawValues only then.                                    *)

NextEvent(w) == [by |-> w, seq |-> Len(mem[w]) + 1]

\* What one write of a whole line does to the file.
WriteLine(e) ==
  /\ lines' = Append(lines, IF tail = NoTail THEN e ELSE Garbage)
  /\ tail' = NoTail

\* Mutant: a second append enters before the first one is done.
WriteUngated(w) ==
  /\ wpc[w] \in {"facts", "ready", "writing"}
  /\ Len(lines) < MaxLines
  /\ holder = w
  /\ WriteLine(NextEvent(w))
  /\ Goto(w, "writing")
  /\ UNCHANGED <<synced, holder, mem, owed, acked, openFailed>>

\* Mutant: a store whose append failed goes on.
WritePoisoned(w) ==
  /\ wpc[w] \in {"facts", "ready", "poisoned"}
  /\ Len(lines) < MaxLines
  /\ holder = w
  /\ WriteLine(NextEvent(w))
  /\ Goto(w, "writing")
  /\ UNCHANGED <<synced, holder, mem, owed, acked, openFailed>>

\* appendEncodedLine: the lock is still this writer's, the line is written.
Write(w) ==
  /\ wpc[w] \in {"facts", "ready"}
  /\ Len(lines) < MaxLines
  /\ holder = w
  /\ WriteLine(NextEvent(w))
  /\ Goto(w, "writing")
  /\ UNCHANGED <<synced, holder, mem, owed, acked, openFailed>>

\* The write is short or fails: nothing, a torn piece, or all but the newline.
WriteFails(w) ==
  /\ wpc[w] \in {"facts", "ready"}
  /\ Len(lines) < MaxLines
  /\ tail' \in {tail, TornTail, NextEvent(w)}
  /\ Goto(w, "poisoned")
  /\ UNCHANGED <<lines, synced, holder, mem, owed, acked, openFailed>>

\* Mutant: the append returns before the sync.
AckUnsynced(w) ==
  /\ wpc[w] = "writing"
  /\ mem' = [mem EXCEPT ![w] = Append(@, NextEvent(w))]
  /\ acked' = acked \cup {NextEvent(w)}
  /\ owed' = [owed EXCEPT ![w] = IF "lock" \in @ THEN @ \ {"lock"} ELSE {}]
  /\ Goto(w, AfterFacts(owed'[w]))
  /\ UNCHANGED <<disk, holder, openFailed>>

\* The sync succeeds: the event is durable, enters memory and is returned.
Ack(w) ==
  /\ wpc[w] = "writing"
  /\ synced' = Len(lines)
  /\ mem' = [mem EXCEPT ![w] = Append(@, NextEvent(w))]
  /\ acked' = acked \cup {NextEvent(w)}
  /\ owed' = [owed EXCEPT ![w] = IF "lock" \in @ THEN @ \ {"lock"} ELSE {}]
  /\ \E fatal \in BOOLEAN :    \* the afterDurable hook throws
       Goto(w, IF fatal THEN "fatal" ELSE AfterFacts(owed'[w]))
  /\ UNCHANGED <<lines, tail, holder, openFailed>>

SyncFails(w) ==
  /\ wpc[w] = "writing"
  /\ Goto(w, "poisoned")
  /\ UNCHANGED <<disk, holder, mem, owed, acked, openFailed>>

Close(w) ==
  /\ wpc[w] \in {"ready", "fatal"}
  /\ holder' = Nobody
  /\ Goto(w, "closed")
  /\ UNCHANGED <<disk, mem, owed, acked, openFailed>>

\* A poisoned store closes its file and keeps its lock.
ClosePoisoned(w) ==
  /\ wpc[w] = "poisoned"
  /\ Goto(w, "preserved")
  /\ UNCHANGED <<disk, holder, mem, owed, acked, openFailed>>

-----------------------------------------------------------------------------
Crash(w) ==
  /\ wpc[w] \in Alive \cup {"preserved"}
  /\ Goto(w, "dead")
  /\ UNCHANGED <<disk, holder, mem, owed, acked, openFailed>>

\* Every process dies; the disk has the synced lines, some of the others, and
\* possibly a piece of the next one.  A rename that was not synced yet may be
\* undone, which brings the torn tail back.
HasFragment == tail # NoTail \/ \E w \in Writers : wpc[w] = "installed"

PowerLoss ==
  /\ \E w \in Writers : wpc[w] \in Alive
  /\ \E k \in synced .. Len(lines) :
       /\ lines' = SubSeq(lines, 1, k)
       /\ tail' \in IF k < Len(lines) THEN {NoTail, TornTail, lines[k + 1]}
                    ELSE IF HasFragment THEN {NoTail, TornTail, tail}
                    ELSE {NoTail}
       /\ synced' = k
  /\ wpc' = [w \in Writers |->
               IF wpc[w] \in Alive \cup {"preserved"} THEN "dead" ELSE wpc[w]]
  /\ UNCHANGED <<holder, mem, owed, acked, openFailed>>

WriterSteps(w) ==
  \/ Open(w) \/ RecoverNone(w) \/ RecoverNewline(w) \/ NewlineSynced(w)
  \/ RecoverTorn(w) \/ InstallSynced(w) \/ RecoverFails(w)
  \/ CheckRejected(w) \/ CheckAccepted(w) \/ OpenResidue(w) \/ FactsFail(w)
  \/ Write(w) \/ WriteFails(w) \/ Ack(w) \/ SyncFails(w)
  \/ Close(w) \/ ClosePoisoned(w) \/ Crash(w)

Next == (\E w \in Writers : WriterSteps(w)) \/ PowerLoss
Spec == Init /\ [][Next]_vars

-----------------------------------------------------------------------------
TypeOK ==
  /\ lines \in Seq(Event \cup {Garbage})
  /\ tail \in Event \cup {NoTail, TornTail}
  /\ synced \in 0 .. Len(lines)
  /\ holder \in Writers \cup {Nobody}
  /\ wpc \in [Writers -> Phases]
  /\ mem \in [Writers -> Seq(Event \cup {Garbage})]
  /\ owed \in [Writers -> SUBSET {"lock", "tail"}]
  /\ acked \subseteq Event
  /\ openFailed \in BOOLEAN

\* Whatever fails and whoever dies, the next open can decode the file: no
\* append ever follows a fragment, and session_seq has neither gaps nor
\* duplicates.
LogDecodes ==
  /\ Decodes(lines)
  /\ tail \notin {NoTail, TornTail} => Decodes(Append(lines, tail))

\* An event whose append returned is in the log for good, at its session_seq,
\* whatever crashes, tail repairs and power losses come after.
AckedIsDurable ==
  \A e \in acked : e.seq =< synced /\ lines[e.seq] = e

\* A writer that may append knows exactly the file: what it validates the next
\* event against (every projector, in appendEnvelopeOwned) is the log.
MemoryIsLog ==
  \A w \in Writers :
    wpc[w] \in {"facts", "ready", "fatal"} => mem[w] = lines /\ tail = NoTail

\* Unless an earlier open failed, every event a ready writer shows is on the
\* disk: the session.lock.recovered fact forces a sync before open returns.
ShownIsSyncedUnlessOpenFailed ==
  ~openFailed =>
    \A w \in Writers : wpc[w] = "ready" => Len(mem[w]) =< synced
=============================================================================
