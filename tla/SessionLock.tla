----------------------------- MODULE SessionLock -----------------------------
(***************************************************************************)
(* The writer lock of one session: SessionLock.acquire, assertOwned and    *)
(* release, one step per file-system call.                                 *)
(*                                                                         *)
(* Every Process draws its own nonce and process-start identity and uses   *)
(* the lock once, so the file it creates is named after it: `path` is the  *)
(* file the lock path refers to, body[p] what is in the file of p.  A file *)
(* that is moved to its .stale name is no longer at `path`.                *)
(*                                                                         *)
(* The probe can prove a process missing, never that a foreign pid is the  *)
(* same process: a dead owner may also be reported unknown (its pid was    *)
(* reused) or found too young.                                             *)
(***************************************************************************)
EXTENDS Naturals, FiniteSets

CONSTANTS
  Processes,
  Host,          \* hostFingerprint of each process
  MaxAttempts,   \* rounds of the acquire loop
  NoFile,
  Nobody

ASSUME LockAssumption ==
  /\ NoFile \notin Processes
  /\ Nobody \notin Processes
  /\ MaxAttempts \in Nat \ {0}

VARIABLES
  path,       \* the process whose file is at lockFilePath
  body,       \* "none", "empty" (opened, not written) or "record"
  alive,
  pc,
  seen,       \* existingBytes: whose record acquire read
  recovery,   \* whose lock this acquire moved away
  attempt,
  displaced   \* history: <<q, p>> when q moved the lock of the live owner p away

vars == <<path, body, alive, pc, seen, recovery, attempt, displaced>>

Done == {"released", "threw"}
Steps == Done \cup {"idle", "open", "write", "exists", "assess", "reread",
                    "rename", "held", "remove", "release"}

\* The states in which a process counts on its file.
Owning == {"write", "held", "release", "remove"}

Init ==
  /\ path = NoFile
  /\ body = [p \in Processes |-> "none"]
  /\ alive = [p \in Processes |-> TRUE]
  /\ pc = [p \in Processes |-> "idle"]
  /\ seen = [p \in Processes |-> Nobody]
  /\ recovery = [p \in Processes |-> Nobody]
  /\ attempt = [p \in Processes |-> 0]
  /\ displaced = {}

At(p, l) == alive[p] /\ pc[p] = l
Goto(p, l) == pc' = [pc EXCEPT ![p] = l]
Throw(p) == Goto(p, "threw")
Readable == path # NoFile /\ body[path] = "record"

-----------------------------------------------------------------------------
Acquire(p) ==
  /\ At(p, "idle")
  /\ Goto(p, "open")
  /\ UNCHANGED <<path, body, alive, seen, recovery, attempt, displaced>>

\* Mutant: the file is opened "w".
OpenOverwrites(p) ==
  /\ At(p, "open")
  /\ path' = p
  /\ body' = [body EXCEPT ![p] = "empty"]
  /\ Goto(p, "write")
  /\ UNCHANGED <<alive, seen, recovery, attempt, displaced>>

\* open(lockFilePath, "wx"): the file exists, empty, from here on.
OpenExclusive(p) ==
  /\ At(p, "open") /\ path = NoFile
  /\ path' = p
  /\ body' = [body EXCEPT ![p] = "empty"]
  /\ Goto(p, "write")
  /\ UNCHANGED <<alive, seen, recovery, attempt, displaced>>

OpenExists(p) ==
  /\ At(p, "open") /\ path # NoFile
  /\ Goto(p, "exists")
  /\ UNCHANGED <<path, body, alive, seen, recovery, attempt, displaced>>

\* The path check or the open fails for another reason.
OpenFails(p) ==
  /\ At(p, "open")
  /\ Throw(p)
  /\ UNCHANGED <<path, body, alive, seen, recovery, attempt, displaced>>

\* writeComplete, sync and close.
WriteRecord(p) ==
  /\ At(p, "write")
  /\ body' = [body EXCEPT ![p] = "record"]
  /\ Goto(p, "held")
  /\ UNCHANGED <<path, alive, seen, recovery, attempt, displaced>>

\* The file stays behind: a short write is nothing removeMatchingLock can parse,
\* and when the path check after close fails nobody removes the record.
WriteFails(p) ==
  /\ At(p, "write")
  /\ \E b \in {"empty", "record"} : body' = [body EXCEPT ![p] = b]
  /\ Throw(p)
  /\ UNCHANGED <<path, alive, seen, recovery, attempt, displaced>>

\* The record is written but sync fails: removeMatchingLock finds its record.
SyncFails(p) ==
  /\ At(p, "write")
  /\ body' = [body EXCEPT ![p] = "record"]
  /\ Goto(p, IF path = p THEN "remove" ELSE "threw")
  /\ UNCHANGED <<path, alive, seen, recovery, attempt, displaced>>

\* The first readFile: a released, empty or torn lock file is an error.
ReadExisting(p) ==
  /\ At(p, "exists")
  /\ Readable
  /\ seen' = [seen EXCEPT ![p] = path]
  /\ Goto(p, "assess")
  /\ UNCHANGED <<path, body, alive, recovery, attempt, displaced>>

ReadUnusable(p) ==
  /\ At(p, "exists")
  /\ ~Readable
  /\ Throw(p)
  /\ UNCHANGED <<path, body, alive, seen, recovery, attempt, displaced>>

\* Mutant: age alone proves an owner dead.
AssessStaleByAge(p) ==
  /\ At(p, "assess")
  /\ Goto(p, "reread")
  /\ UNCHANGED <<path, body, alive, seen, recovery, attempt, displaced>>

\* assessSessionLockOwner: only a missing process of this host is stale.
AssessStale(p) ==
  /\ At(p, "assess")
  /\ Host[seen[p]] = Host[p]
  /\ ~alive[seen[p]]
  /\ Goto(p, "reread")
  /\ UNCHANGED <<path, body, alive, seen, recovery, attempt, displaced>>

\* active, too_young or unknown.
AssessRefused(p) ==
  /\ At(p, "assess")
  /\ Throw(p)
  /\ UNCHANGED <<path, body, alive, seen, recovery, attempt, displaced>>

RereadSame(p) ==
  /\ At(p, "reread") /\ path = seen[p]
  /\ Goto(p, "rename")
  /\ UNCHANGED <<path, body, alive, seen, recovery, attempt, displaced>>

RereadChanged(p) ==
  /\ At(p, "reread") /\ path # seen[p]
  /\ Throw(p)
  /\ UNCHANGED <<path, body, alive, seen, recovery, attempt, displaced>>

\* Mutant: the loop has no bound.
NextRoundUnbounded(p) ==
  /\ attempt' = [attempt EXCEPT ![p] = @ + 1]
  /\ Goto(p, "open")

\* The next round of the loop, or "did not converge".
NextRound(p) ==
  /\ attempt' = [attempt EXCEPT ![p] = @ + 1]
  /\ Goto(p, IF attempt[p] + 1 < MaxAttempts THEN "open" ELSE "threw")

Displace(p) ==
  displaced' = IF alive[path] /\ pc[path] \in Owning
               THEN displaced \cup {<<p, path>>} ELSE displaced

\* Mutant: install does not compare what it installed.
RenameUnread(p) ==
  /\ At(p, "rename") /\ path # NoFile
  /\ path' = NoFile
  /\ Displace(p)
  /\ recovery' = [recovery EXCEPT ![p] = seen[p]]
  /\ NextRound(p)
  /\ UNCHANGED <<body, alive, seen>>

\* renameDurability.install moves whatever is at the path now; its readback
\* throws when that was not the record that was assessed.
RenameStale(p) ==
  /\ At(p, "rename") /\ path # NoFile
  /\ path' = NoFile
  /\ Displace(p)
  /\ IF path = seen[p]
     THEN recovery' = [recovery EXCEPT ![p] = seen[p]] /\ NextRound(p)
     ELSE Throw(p) /\ UNCHANGED <<recovery, attempt>>
  /\ UNCHANGED <<body, alive, seen>>

\* ENOENT: somebody else moved it first.
RenameMissing(p) ==
  /\ At(p, "rename") /\ path = NoFile
  /\ NextRound(p)
  /\ UNCHANGED <<path, body, alive, seen, recovery, displaced>>

\* Any other failure of install, before or after the rename.
RenameFails(p) ==
  /\ At(p, "rename") /\ path # NoFile
  /\ \/ UNCHANGED <<path, displaced>>
     \/ path' = NoFile /\ Displace(p)
  /\ Throw(p)
  /\ UNCHANGED <<body, alive, seen, recovery, attempt>>

\* release: assertOwned, then unlink.
ReleaseOwned(p) ==
  /\ At(p, "held") /\ path = p
  /\ Goto(p, "release")
  /\ UNCHANGED <<path, body, alive, seen, recovery, attempt, displaced>>

AssertOwnedFails(p) ==
  /\ At(p, "held") /\ path # p
  /\ Throw(p)
  /\ UNCHANGED <<path, body, alive, seen, recovery, attempt, displaced>>

\* unlink takes whatever is at the path.
Unlink(p) ==
  /\ alive[p] /\ pc[p] \in {"release", "remove"}
  /\ path' = NoFile
  /\ Goto(p, IF pc[p] = "release" /\ path # NoFile THEN "released" ELSE "threw")
  /\ UNCHANGED <<body, alive, seen, recovery, attempt, displaced>>

UnlinkFails(p) ==
  /\ alive[p] /\ pc[p] \in {"release", "remove"}
  /\ Throw(p)
  /\ UNCHANGED <<path, body, alive, seen, recovery, attempt, displaced>>

Die(p) ==
  /\ alive[p] /\ pc[p] \notin Done
  /\ alive' = [alive EXCEPT ![p] = FALSE]
  /\ UNCHANGED <<path, body, pc, seen, recovery, attempt, displaced>>

ProcessSteps(p) ==
  \/ OpenExclusive(p) \/ OpenExists(p) \/ OpenFails(p)
  \/ WriteRecord(p) \/ WriteFails(p) \/ SyncFails(p)
  \/ ReadExisting(p) \/ ReadUnusable(p)
  \/ AssessStale(p) \/ AssessRefused(p)
  \/ RereadSame(p) \/ RereadChanged(p)
  \/ RenameStale(p) \/ RenameMissing(p) \/ RenameFails(p)

HolderSteps(p) ==
  ReleaseOwned(p) \/ AssertOwnedFails(p) \/ Unlink(p) \/ UnlinkFails(p)

Next == \E p \in Processes : Acquire(p) \/ ProcessSteps(p) \/ HolderSteps(p) \/ Die(p)
Spec == Init /\ [][Next]_vars

-----------------------------------------------------------------------------
TypeOK ==
  /\ path \in Processes \cup {NoFile}
  /\ body \in [Processes -> {"none", "empty", "record"}]
  /\ alive \in [Processes -> BOOLEAN]
  /\ pc \in [Processes -> Steps]
  /\ seen \in [Processes -> Processes \cup {Nobody}]
  /\ recovery \in [Processes -> Processes \cup {Nobody}]
  /\ attempt \in [Processes -> 0 .. MaxAttempts]
  /\ displaced \subseteq Processes \X Processes

\* Unless a live owner's file was moved away, a process that owns the lock
\* finds its own file at the path: the rename race of stale recovery is the
\* only way to lose a lock, release and the failed-write clean-up never are.
OwnersKeepTheirFile ==
  displaced = {} =>
    \A p \in Processes : alive[p] /\ pc[p] \in Owning => path = p

\* Unless a live owner's file was moved away, at most one live process is
\* the writer.
ExclusiveUnlessDisplaced ==
  displaced = {} =>
    \A p, q \in Processes :
      alive[p] /\ alive[q] /\ pc[p] \in Owning /\ pc[q] \in Owning => p = q

\* A process that reports a recovery (session.lock.recovered, reason
\* owner_confirmed_dead) names a dead process of its own host, however the
\* assessment, the second read and the rename are interleaved with others.
RecoveryIsOfTheDead ==
  \A p \in Processes :
    recovery[p] # Nobody => ~alive[recovery[p]] /\ Host[recovery[p]] = Host[p]

\* A process that moved a live owner's lock away never becomes the writer in
\* its place: the readback of the installed .stale file stops it.
MoverStops == \A d \in displaced : pc[d[1]] = "threw"

-----------------------------------------------------------------------------
(* A statement of the repository that the code does not keep.              *)

\* tests/unit/phase9-storage.test.ts: "allows at most one writer across two
\* real Node processes".
AtMostOneWriter ==
  \A p, q \in Processes : At(p, "held") /\ At(q, "held") => p = q
=============================================================================
