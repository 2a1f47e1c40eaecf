----------------------- MODULE BackgroundHandoffProofs -----------------------
(***************************************************************************)
(* The handoff of a Graph to a background worker, for any number of        *)
(* launches and takeovers.                                                 *)
(***************************************************************************)
EXTENDS BackgroundHandoff, TLAPS

Failed == [Launching EXCEPT !.state = "reconciliation_required"]
Closed == {"terminal", "reconciliation_required"}
Working == {"ready", "awaitAck", "run", "finish"}
TakingOver == {"append", "cas", "link"}

\* There is no child before it is spawned, and before its spawn request nobody
\* else knows the operation.
NewLaunch ==
  \A o \in Ops :
    /\ ppc[o] \in {"idle", "genesis", "request", "spawn"} => cpc[o] = "none"
    /\ ppc[o] \in {"idle", "genesis", "request"} => status[o] = "none"
    /\ ppc[o] \in {"idle", "genesis"} => chain[o] = <<>>
    /\ ppc[o] = "request" => HeadIs(o, Launching)

\* A revision that was read is still the head, or there is a later one.
ReadOf(o, k, r) == k =< Len(chain[o]) /\ (k = Len(chain[o]) => HeadIs(o, r))
Reads ==
  /\ \A o \in Ops : ppc[o] = "failLink" => ReadOf(o, prev[o], Launching)
  /\ \A o \in Ops : cpc[o] = "claimLink" => ReadOf(o, crev[o], Launching)
  /\ \A t \in Takeovers : tpc[t] = "link" => ReadOf(top[t], trev[t], Expected(top[t]))

\* A launch that failed has given its handoff up.
FailedLaunch == \A o \in Ops : ppc[o] = "failMark" => HeadIs(o, Failed)

\* A takeover keeps the session to itself, and what it saw stays true.
Locked ==
  \A t \in Takeovers : tpc[t] \in TakingOver =>
    /\ lock = t /\ top[t] \in Ops
    /\ started[top[t]] => cpc[top[t]] = "dead"
    /\ IF tpc[t] = "append"
       THEN current = top[t] /\ status[top[t]] \in {"launching", "running"}
       ELSE status[top[t]] \in Closed

\* What the projection of the worker events keeps between its own fields.
Projection ==
  \A o \in Ops :
    /\ status[o] \in {"launching", "running"} => current = o
    /\ status[o] = "running" => started[o]
    /\ lastClean = o => status[o] = "terminal"

\* A worker that retires its handoff has closed its operation in the session.
Retiring == \A o \in Ops : cpc[o] \in {"retire", "retireLink"} => status[o] \in Closed

IInv == /\ TypeOK /\ NewLaunch /\ Reads /\ LiveOwnerKeepsHandoff /\ FailedLaunch
        /\ Locked /\ Projection /\ Retiring
        /\ CleanCloseIsDead /\ SingleWorker /\ SessionClosesFirst

-----------------------------------------------------------------------------
LEMMA Revisions ==
  /\ Launching \in Revision /\ Owned \in Revision /\ Failed \in Revision
  /\ [Owned EXCEPT !.state = "terminal"] \in Revision
  /\ [Owned EXCEPT !.state = "reconciliation_required"] \in Revision
  /\ [Launching EXCEPT !.state = "terminal"] \in Revision
  /\ Launching # Owned /\ Failed # Owned /\ Failed # Launching
  /\ Launching.state = "launching" /\ Owned.state = "worker_owned"
  /\ Failed.state = "reconciliation_required"
  BY DEF Launching, Owned, Failed, Revision

\* A published revision is the head of its operation, and changes no other.
LEMMA PublishHead ==
  ASSUME chain \in [Ops -> Seq(Revision)], NEW o \in Ops, NEW r \in Revision, Publish(o, r)
  PROVE  /\ chain' \in [Ops -> Seq(Revision)]
         /\ Len(chain'[o]) = Len(chain[o]) + 1 /\ Len(chain[o]) \in Nat
         /\ chain'[o] # <<>> /\ chain'[o][Len(chain'[o])] = r
         /\ \A q \in Ops : q # o => chain'[q] = chain[q]
  <1>1. chain[o] \in Seq(Revision) OBVIOUS
  <1>2. chain'[o] = Append(chain[o], r) BY DEF Publish
  <1>3. Append(chain[o], r) \in Seq(Revision) BY <1>1
  <1>4. Len(Append(chain[o], r)) = Len(chain[o]) + 1 /\ Len(chain[o]) \in Nat BY <1>1
  <1>5. Append(chain[o], r)[Len(chain[o]) + 1] = r BY <1>1
  <1>6. Append(chain[o], r) # <<>>
    <2>1. Len(<<>>) = 0 OBVIOUS
    <2>2. Len(Append(chain[o], r)) # 0 BY <1>4
    <2> QED BY <2>1, <2>2
  <1> QED BY <1>2, <1>3, <1>4, <1>5, <1>6 DEF Publish

\* What a link means for the heads, and for what others have read.
LEMMA Published ==
  ASSUME chain \in [Ops -> Seq(Revision)], NEW o \in Ops, NEW r \in Revision, Publish(o, r)
  PROVE  /\ \A q \in Ops, x \in Revision : q # o => (HeadIs(q, x)' <=> HeadIs(q, x))
         /\ \A x \in Revision : HeadIs(o, x)' <=> x = r
         /\ \A q \in Ops, k \in Nat, x \in Revision : ReadOf(q, k, x) => ReadOf(q, k, x)'
  <1>1. /\ Len(chain'[o]) = Len(chain[o]) + 1 /\ Len(chain[o]) \in Nat
        /\ chain'[o] # <<>> /\ chain'[o][Len(chain'[o])] = r
        /\ \A q \in Ops : q # o => chain'[q] = chain[q]
    BY PublishHead
  <1>2. \A q \in Ops, x \in Revision : q # o => (HeadIs(q, x)' <=> HeadIs(q, x)) BY <1>1 DEF HeadIs
  <1>3. \A x \in Revision : HeadIs(o, x)' <=> x = r BY <1>1 DEF HeadIs
  <1>4. ASSUME NEW q \in Ops, NEW k \in Nat, NEW x \in Revision, ReadOf(q, k, x) PROVE ReadOf(q, k, x)'
    <2>1. CASE q = o BY <1>1, <1>4, <2>1 DEF ReadOf
    <2>2. CASE q # o BY <1>1, <1>2, <1>4, <2>2 DEF ReadOf
    <2> QED BY <2>1, <2>2
  <1> QED BY <1>2, <1>3, <1>4

LEMMA InitInv == ASSUME Init PROVE IInv
  <1> USE HandoffAssumption DEF Init
  <1>1. TypeOK BY DEF TypeOK, ParentPcs, ParentDone, ChildPcs, ChildDone, TakeoverPcs
  <1>2. Reads BY DEF Reads
  <1>3. LiveOwnerKeepsHandoff BY DEF LiveOwnerKeepsHandoff, Owning
  <1>4. NewLaunch BY DEF NewLaunch
  <1>5. FailedLaunch /\ Locked /\ Projection /\ Retiring
    BY DEF FailedLaunch, Locked, Projection, Retiring, TakingOver
  <1>6. CleanCloseIsDead /\ SingleWorker /\ SessionClosesFirst
    BY DEF CleanCloseIsDead, SingleWorker, SessionClosesFirst
  <1> QED BY <1>1, <1>2, <1>3, <1>4, <1>5, <1>6 DEF IInv

\* A step of the parent that writes nothing and knows nothing new.
LEMMA ParentMoves ==
  ASSUME IInv, NEW o \in Ops, NEW l \in ParentPcs \ {"idle", "request", "spawn", "failLink", "failMark"},
         PGoto(o, l), l = "genesis" => ppc[o] = "idle",
         UNCHANGED <<session, chain, lock, child, takeover>>,
         mail' \in [Ops -> {"none", "ready", "ack"}]
  PROVE  IInv'
  <1> USE DEF PGoto, session, child, takeover
  <1>1. TypeOK' BY DEF IInv, TypeOK
  <1>2. Reads' BY DEF IInv, TypeOK, Reads, ReadOf, HeadIs, Expected
  <1>3. NewLaunch' BY DEF IInv, TypeOK, NewLaunch, HeadIs
  <1>4. FailedLaunch' BY DEF IInv, TypeOK, FailedLaunch, HeadIs
  <1>5. Locked' /\ Projection' /\ Retiring' BY DEF IInv, Locked, Projection, Retiring
  <1>6. LiveOwnerKeepsHandoff' BY DEF IInv, LiveOwnerKeepsHandoff, HeadIs
  <1>7. CleanCloseIsDead' /\ SingleWorker' /\ SessionClosesFirst'
    BY DEF IInv, CleanCloseIsDead, SingleWorker, SessionClosesFirst
  <1> QED BY <1>1, <1>2, <1>3, <1>4, <1>5, <1>6, <1>7 DEF IInv

\* A step of the child that writes nothing and knows nothing new.
LEMMA ChildMoves ==
  ASSUME IInv, NEW o \in Ops, NEW l \in ChildPcs \ {"none", "claimLink"},
         cpc' = [cpc EXCEPT ![o] = l], crev' \in [Ops -> Nat],
         \A q \in Ops : q # o => crev'[q] = crev[q],
         cpc[o] \notin {"none", "dead"},
         l \in Owning => cpc[o] \in Owning,
         l \in Working => cpc[o] \in Working,
         l \in {"retire", "retireLink"} => cpc[o] \in {"retire", "retireLink"},
         graph' \in {"queued", "running", "waiting", "stopped"},
         UNCHANGED <<status, started, current, lastClean, chain, lock, parent, takeover>>,
         mail' \in [Ops -> {"none", "ready", "ack"}]
  PROVE  IInv'
  <1> USE DEF parent, takeover
  <1>1. TypeOK' BY DEF IInv, TypeOK
  <1>2. Reads' BY DEF IInv, TypeOK, Reads, ReadOf, HeadIs, Expected
  <1>3. NewLaunch' BY DEF IInv, TypeOK, NewLaunch, HeadIs
  <1>4. FailedLaunch' BY DEF IInv, TypeOK, FailedLaunch, HeadIs
  <1>5. Locked' BY DEF IInv, TypeOK, Locked
  <1>6. Projection' /\ Retiring' BY DEF IInv, TypeOK, Projection, Retiring
  <1>7. LiveOwnerKeepsHandoff' BY DEF IInv, TypeOK, LiveOwnerKeepsHandoff, HeadIs
  <1>8. CleanCloseIsDead' BY DEF IInv, TypeOK, CleanCloseIsDead
  <1>9. SingleWorker' BY DEF IInv, TypeOK, SingleWorker, Working
  <1>10. SessionClosesFirst' BY DEF IInv, SessionClosesFirst
  <1> QED BY <1>1, <1>2, <1>3, <1>4, <1>5, <1>6, <1>7, <1>8, <1>9, <1>10 DEF IInv

-----------------------------------------------------------------------------
(* The parent.                                                             *)

LEMMA GenesisStep ==
  ASSUME IInv, NEW o \in Ops, LaunchGenesis(o) PROVE IInv'
  <1> USE DEF LaunchGenesis, PAt, PGoto, OnlyParent, session, child, takeover
  <1>a. chain \in [Ops -> Seq(Revision)] /\ chain[o] = <<>> /\ cpc[o] = "none"
    BY DEF IInv, TypeOK, NewLaunch
  <1>b. /\ chain' \in [Ops -> Seq(Revision)]
        /\ chain'[o] # <<>> /\ chain'[o][Len(chain'[o])] = Launching
        /\ \A q \in Ops : q # o => chain'[q] = chain[q]
    BY <1>a, PublishHead, Revisions
  <1>c. \A q \in Ops, r \in Revision : HeadIs(q, r) => q # o BY <1>a DEF HeadIs
  <1>d. \A q \in Ops, r \in Revision : q # o => (HeadIs(q, r)' <=> HeadIs(q, r)) BY <1>b DEF HeadIs
  <1>1. TypeOK' BY <1>b DEF IInv, TypeOK, ParentPcs
  <1>2. Reads'
    <2>1. \A q \in Ops : q # o => chain'[q] = chain[q] BY <1>b
    <2>2. \A q \in Ops : ppc'[q] = "failLink" => ReadOf(q, prev[q], Launching)'
      BY <1>d, <2>1, Revisions DEF IInv, TypeOK, Reads, ReadOf
    <2>3. \A q \in Ops : cpc'[q] = "claimLink" => ReadOf(q, crev[q], Launching)'
      BY <1>a, <1>d, <2>1, Revisions DEF IInv, TypeOK, Reads, ReadOf
    <2>4. ASSUME NEW t \in Takeovers, tpc'[t] = "link"
          PROVE  ReadOf(top[t], trev[t], Expected(top[t]))'
      <3>1. top[t] \in Ops /\ top[t] # o
        BY <2>4 DEF IInv, Locked, TakingOver, NewLaunch, Closed
      <3> QED BY <3>1, <1>d, <2>1, <2>4, Revisions DEF IInv, Reads, ReadOf, Expected
    <2> QED BY <2>2, <2>3, <2>4 DEF Reads
  <1>3. NewLaunch' BY <1>b, <1>d, Revisions, SMTT(30) DEF IInv, TypeOK, NewLaunch, HeadIs
  <1>4. FailedLaunch' BY <1>d, Revisions DEF IInv, TypeOK, FailedLaunch
  <1>5. Locked' /\ Projection' /\ Retiring' BY DEF IInv, Locked, Projection, Retiring
  <1>6. LiveOwnerKeepsHandoff' BY <1>a, <1>d, Revisions DEF IInv, LiveOwnerKeepsHandoff, Owning
  <1>7. CleanCloseIsDead' /\ SingleWorker' BY DEF IInv, CleanCloseIsDead, SingleWorker
  <1>8. SessionClosesFirst' BY <1>b, Revisions DEF IInv, SessionClosesFirst
  <1> QED BY <1>1, <1>2, <1>3, <1>4, <1>5, <1>6, <1>7, <1>8 DEF IInv

\* A session event of one operation, with the lock free.
LEMMA SpawnStep ==
  ASSUME IInv, NEW o \in Ops, SpawnRequested(o) PROVE IInv'
  <1> USE DEF SpawnRequested, WorkerSpawn, PAt, PGoto, OnlyParent, child, takeover, Free
  <1>a. status[o] = "none" /\ cpc[o] = "none" /\ HeadIs(o, Launching)
    BY DEF IInv, TypeOK, NewLaunch
  <1>b. \A t \in Takeovers : tpc[t] \notin TakingOver
    BY HandoffAssumption DEF IInv, Locked
  <1>c. \A q \in Ops : status[q] \notin {"launching", "running"}
    BY DEF IInv, Projection, SpawnAccepted
  <1>d. Nobody \notin Ops BY HandoffAssumption
  <1>1. TypeOK' BY DEF IInv, TypeOK, ParentPcs
  <1>2. Reads' BY <1>b DEF IInv, TypeOK, Reads, ReadOf, HeadIs, TakingOver
  <1>3. NewLaunch' BY DEF IInv, TypeOK, NewLaunch, HeadIs
  <1>4. FailedLaunch' BY DEF IInv, TypeOK, FailedLaunch, HeadIs
  <1>5. Locked' BY <1>b DEF Locked
  <1>6. Projection' BY <1>c, <1>d, Revisions DEF IInv, TypeOK, Projection
  <1>7. Retiring' BY <1>a DEF IInv, TypeOK, Retiring
  <1>8. LiveOwnerKeepsHandoff' BY DEF IInv, LiveOwnerKeepsHandoff, HeadIs
  <1>9. CleanCloseIsDead' BY <1>d, Revisions DEF CleanCloseIsDead
  <1>10. SingleWorker' BY <1>c DEF IInv, SingleWorker
  <1>11. SessionClosesFirst'
    BY <1>a, Revisions DEF IInv, TypeOK, SessionClosesFirst, HeadIs
  <1> QED BY <1>1, <1>2, <1>3, <1>4, <1>5, <1>6, <1>7, <1>8, <1>9, <1>10, <1>11 DEF IInv

LEMMA SpawnChildStep ==
  ASSUME IInv, NEW o \in Ops, Spawn(o) PROVE IInv'
  <1> USE DEF Spawn, PAt, PGoto, session, takeover
  <1>a. cpc[o] # "dead" BY DEF IInv, NewLaunch
  <1>1. TypeOK' BY DEF IInv, TypeOK, ParentPcs, ChildPcs
  <1>2. Reads' BY DEF IInv, TypeOK, Reads, ReadOf, HeadIs, Expected
  <1>3. NewLaunch' BY DEF IInv, TypeOK, NewLaunch, HeadIs
  <1>4. FailedLaunch' BY DEF IInv, TypeOK, FailedLaunch, HeadIs
  <1>5. Locked' BY <1>a DEF IInv, TypeOK, Locked
  <1>6. Projection' /\ Retiring' BY DEF IInv, TypeOK, Projection, Retiring
  <1>7. LiveOwnerKeepsHandoff' BY DEF IInv, TypeOK, LiveOwnerKeepsHandoff, HeadIs, Owning
  <1>8. CleanCloseIsDead' BY <1>a DEF IInv, TypeOK, CleanCloseIsDead
  <1>9. SingleWorker' BY DEF IInv, TypeOK, SingleWorker
  <1>10. SessionClosesFirst' BY DEF IInv, SessionClosesFirst
  <1> QED BY <1>1, <1>2, <1>3, <1>4, <1>5, <1>6, <1>7, <1>8, <1>9, <1>10 DEF IInv

LEMMA FailReadStep ==
  ASSUME IInv, NEW o \in Ops, ppc[o] = "failing", HeadIs(o, Launching),
         prev' = [prev EXCEPT ![o] = Len(chain[o])],
         ppc' = [ppc EXCEPT ![o] = "failLink"],
         UNCHANGED <<session, chain, lock, child, takeover, mail>>
  PROVE  IInv'
  <1> USE DEF session, child, takeover
  <1>a. Len(chain[o]) \in Nat BY DEF IInv, TypeOK
  <1>1. TypeOK' BY <1>a DEF IInv, TypeOK, ParentPcs
  <1>2. Reads' BY <1>a DEF IInv, TypeOK, Reads, ReadOf, HeadIs, Expected
  <1>3. NewLaunch' BY DEF IInv, TypeOK, NewLaunch, HeadIs
  <1>4. FailedLaunch' BY DEF IInv, TypeOK, FailedLaunch, HeadIs
  <1>5. Locked' /\ Projection' /\ Retiring' BY DEF IInv, Locked, Projection, Retiring
  <1>6. LiveOwnerKeepsHandoff' BY DEF IInv, LiveOwnerKeepsHandoff, HeadIs
  <1>7. CleanCloseIsDead' /\ SingleWorker' /\ SessionClosesFirst'
    BY DEF IInv, CleanCloseIsDead, SingleWorker, SessionClosesFirst
  <1> QED BY <1>1, <1>2, <1>3, <1>4, <1>5, <1>6, <1>7 DEF IInv

LEMMA FailLinkStep ==
  ASSUME IInv, NEW o \in Ops, FailLink(o) PROVE IInv'
  <1> USE DEF FailLink, PAt, PGoto, OnlyParent, session, child, takeover
  <1>a. chain \in [Ops -> Seq(Revision)] /\ prev \in [Ops -> Nat] /\ crev \in [Ops -> Nat]
        /\ trev \in [Takeovers -> Nat]
    BY DEF IInv, TypeOK
  <1>b. Publish(o, Failed) /\ Failed \in Revision BY Revisions DEF Failed
  <1>c. /\ chain' \in [Ops -> Seq(Revision)] /\ chain'[o][Len(chain'[o])] = Failed
        /\ \A q \in Ops : q # o => chain'[q] = chain[q]
    BY <1>a, <1>b, PublishHead
  <1>d. HeadIs(o, Launching) BY DEF IInv, Reads, ReadOf, Unchanged
  <1>e. /\ \A q \in Ops, x \in Revision : q # o => (HeadIs(q, x)' <=> HeadIs(q, x))
        /\ \A x \in Revision : HeadIs(o, x)' <=> x = Failed
        /\ \A q \in Ops, k \in Nat, x \in Revision : ReadOf(q, k, x) => ReadOf(q, k, x)'
    BY <1>a, <1>b, Published
  <1>f. PICK l \in {"failMark", "failed"} :
          ppc' = [ppc EXCEPT ![o] = l] /\ prev' = [prev EXCEPT ![o] = 0]
    OBVIOUS
  <1>1. TypeOK' BY <1>c, <1>f DEF IInv, TypeOK, ParentPcs, ParentDone
  <1>2. Reads'
    <2>1. \A q \in Ops : ppc'[q] = "failLink" => ReadOf(q, prev[q], Launching)'
      BY <1>a, <1>e, <1>f, Revisions DEF IInv, TypeOK, Reads
    <2>2. \A q \in Ops : cpc'[q] = "claimLink" => ReadOf(q, crev[q], Launching)'
      BY <1>a, <1>e, Revisions DEF IInv, Reads
    <2>3. \A t \in Takeovers : tpc'[t] = "link"
             => ReadOf(top[t], trev[t], Expected(top[t]))'
      BY <1>a, <1>e, Revisions DEF IInv, Reads, Locked, TakingOver, Expected
    <2> QED BY <2>1, <2>2, <2>3 DEF Reads
  <1>3. NewLaunch' BY <1>c, <1>e, <1>f, Revisions, SMTT(30) DEF IInv, TypeOK, NewLaunch
  <1>4. FailedLaunch' BY <1>e, <1>f, Revisions DEF IInv, TypeOK, FailedLaunch
  <1>5. Locked' /\ Projection' /\ Retiring' BY DEF IInv, Locked, Projection, Retiring
  <1>6. LiveOwnerKeepsHandoff'
    BY <1>d, <1>e, Revisions DEF IInv, LiveOwnerKeepsHandoff, HeadIs
  <1>7. CleanCloseIsDead' /\ SingleWorker' BY DEF IInv, CleanCloseIsDead, SingleWorker
  <1>8. SessionClosesFirst'
    BY <1>c, Revisions DEF IInv, SessionClosesFirst
  <1> QED BY <1>1, <1>2, <1>3, <1>4, <1>5, <1>6, <1>7, <1>8 DEF IInv

\* The session shows the worker as unknown, and its child does not work on.
LEMMA UnknownMarked ==
  ASSUME IInv, NEW o \in Ops, Free, current = o, ReconciledUnknown(o), cpc[o] \notin Working,
         \A q \in Ops : cpc'[q] = cpc[q] \/ (cpc[q] = "mark" /\ cpc'[q] = "markCas"),
         UNCHANGED <<chain, lock, tpc, top, trev>>
  PROVE  /\ Locked' /\ Projection' /\ Retiring'
         /\ CleanCloseIsDead' /\ SingleWorker' /\ SessionClosesFirst'
  <1> USE DEF ReconciledUnknown, Free
  <1>a. \A t \in Takeovers : tpc[t] \notin TakingOver
    BY HandoffAssumption DEF IInv, Locked
  <1>b. Nobody \notin Ops BY HandoffAssumption
  <1>c. \A q \in Ops : q # o => status[q] \notin {"launching", "running"}
    BY DEF IInv, Projection
  <1>1. Locked' BY <1>a DEF Locked
  <1>2. Projection' BY <1>b, <1>c DEF IInv, TypeOK, Projection
  <1>3. Retiring' BY DEF IInv, TypeOK, Retiring, Closed
  <1>4. CleanCloseIsDead' BY <1>b DEF CleanCloseIsDead
  <1>5. SingleWorker' BY <1>c DEF IInv, SingleWorker, Working
  <1>6. SessionClosesFirst' BY DEF IInv, TypeOK, SessionClosesFirst
  <1> QED BY <1>1, <1>2, <1>3, <1>4, <1>5, <1>6

LEMMA FailMarkStep ==
  ASSUME IInv, NEW o \in Ops, FailMark(o) PROVE IInv'
  <1> USE DEF FailMark, PAt, OnlyParent, child, takeover
  <1>1. CASE current = o
    <2> USE <1>1 DEF ReconciledUnknown, PGoto
    <2>a. HeadIs(o, Failed) BY DEF IInv, FailedLaunch
    <2>b. cpc[o] \notin Owning BY <2>a, Revisions DEF IInv, LiveOwnerKeepsHandoff, HeadIs
    <2>c. \A t \in Takeovers : tpc[t] \notin TakingOver
      BY HandoffAssumption DEF IInv, Locked, Free
    <2>1. TypeOK' BY DEF IInv, TypeOK, ParentPcs, ParentDone
    <2>2. Reads' BY <2>c DEF IInv, TypeOK, Reads, ReadOf, HeadIs, TakingOver
    <2>3. NewLaunch' BY DEF IInv, TypeOK, NewLaunch, HeadIs
    <2>4. FailedLaunch' BY DEF IInv, TypeOK, FailedLaunch, HeadIs
    <2>5. LiveOwnerKeepsHandoff' BY DEF IInv, LiveOwnerKeepsHandoff, HeadIs
    <2>d. Free /\ cpc' = cpc /\ UNCHANGED <<chain, lock, tpc, top, trev>> OBVIOUS
    <2>e. \A q \in Ops : cpc'[q] = cpc[q] \/ (cpc[q] = "mark" /\ cpc'[q] = "markCas")
      BY <2>d
    <2>g. ReconciledUnknown(o) OBVIOUS
    <2>f. cpc[o] \notin Working BY <2>b DEF Working, Owning
    <2> HIDE DEF FailMark, OnlyParent, child, takeover, ReconciledUnknown
    <2>6. /\ Locked' /\ Projection' /\ Retiring'
          /\ CleanCloseIsDead' /\ SingleWorker' /\ SessionClosesFirst'
      BY <2>d, <2>e, <2>f, <2>g, UnknownMarked
    <2> QED BY <2>1, <2>2, <2>3, <2>4, <2>5, <2>6 DEF IInv
  <1>2. CASE current # o
    <2>1. PGoto(o, "failed") /\ "failed" \in ParentPcs BY DEF ParentPcs, ParentDone
    <2> QED BY <1>2, <2>1, ParentMoves DEF IInv, TypeOK
  <1> QED BY <1>1, <1>2

-----------------------------------------------------------------------------
(* The child.                                                              *)

LEMMA ClaimReadStep ==
  ASSUME IInv, NEW o \in Ops, cpc[o] = "claim", HeadIs(o, Launching),
         crev' = [crev EXCEPT ![o] = Len(chain[o])],
         cpc' = [cpc EXCEPT ![o] = "claimLink"],
         UNCHANGED <<session, chain, lock, parent, takeover, mail>>
  PROVE  IInv'
  <1> USE DEF session, parent, takeover
  <1>a. Len(chain[o]) \in Nat BY DEF IInv, TypeOK
  <1>1. TypeOK' BY <1>a DEF IInv, TypeOK, ChildPcs
  <1>2. Reads' BY <1>a DEF IInv, TypeOK, Reads, ReadOf, HeadIs, Expected
  <1>3. NewLaunch' BY DEF IInv, TypeOK, NewLaunch, HeadIs
  <1>4. FailedLaunch' BY DEF IInv, FailedLaunch, HeadIs
  <1>5. Locked' BY DEF IInv, TypeOK, Locked
  <1>6. Projection' /\ Retiring' BY DEF IInv, TypeOK, Projection, Retiring
  <1>7. LiveOwnerKeepsHandoff' BY DEF IInv, TypeOK, LiveOwnerKeepsHandoff, HeadIs, Owning
  <1>8. CleanCloseIsDead' BY DEF IInv, TypeOK, CleanCloseIsDead
  <1>9. SingleWorker' BY DEF IInv, TypeOK, SingleWorker
  <1>10. SessionClosesFirst' BY DEF IInv, SessionClosesFirst
  <1> QED BY <1>1, <1>2, <1>3, <1>4, <1>5, <1>6, <1>7, <1>8, <1>9, <1>10 DEF IInv

\* A link of the child over the head it owns or has read.
LEMMA ChildLinks ==
  ASSUME IInv, NEW o \in Ops, NEW r \in Revision, NEW l \in {"own", "ended"},
         Publish(o, r), CGoto(o, l), cpc[o] \in {"claimLink", "retireLink", "markLink"},
         HeadIs(o, Launching) \/ HeadIs(o, Owned),
         l = "own" => r = Owned,
         r.state = "terminal" => status[o] \in Closed,
         UNCHANGED <<session, lock, parent, takeover, mail>>
  PROVE  IInv'
  <1> USE DEF CGoto, session, parent, takeover
  <1>a. chain \in [Ops -> Seq(Revision)] /\ prev \in [Ops -> Nat] /\ crev \in [Ops -> Nat]
        /\ trev \in [Takeovers -> Nat]
    BY DEF IInv, TypeOK
  <1>c. /\ chain' \in [Ops -> Seq(Revision)] /\ chain'[o][Len(chain'[o])] = r
        /\ \A q \in Ops : q # o => chain'[q] = chain[q]
    BY <1>a, PublishHead
  <1>e. /\ \A q \in Ops, x \in Revision : q # o => (HeadIs(q, x)' <=> HeadIs(q, x))
        /\ \A x \in Revision : HeadIs(o, x)' <=> x = r
        /\ \A q \in Ops, k \in Nat, x \in Revision : ReadOf(q, k, x) => ReadOf(q, k, x)'
    BY <1>a, Published
  <1>f. ppc[o] \notin {"idle", "genesis", "request", "spawn", "failMark"}
    BY Revisions DEF IInv, NewLaunch, FailedLaunch, HeadIs
  <1>1. TypeOK' BY <1>c DEF IInv, TypeOK, ChildPcs, ChildDone, Owning
  <1>2. Reads'
    <2>1. \A q \in Ops : ppc'[q] = "failLink" => ReadOf(q, prev[q], Launching)'
      BY <1>a, <1>e, Revisions DEF IInv, Reads
    <2>2. \A q \in Ops : cpc'[q] = "claimLink" => ReadOf(q, crev[q], Launching)'
      BY <1>a, <1>e, Revisions DEF IInv, TypeOK, Reads
    <2>3. \A t \in Takeovers : tpc'[t] = "link"
             => ReadOf(top[t], trev[t], Expected(top[t]))'
      BY <1>a, <1>e, Revisions DEF IInv, Reads, Locked, TakingOver, Expected
    <2> QED BY <2>1, <2>2, <2>3 DEF Reads
  <1>3. NewLaunch' BY <1>c, <1>e, <1>f, Revisions DEF IInv, TypeOK, NewLaunch
  <1>4. FailedLaunch' BY <1>e, <1>f, Revisions DEF IInv, TypeOK, FailedLaunch
  <1>5. Locked' BY DEF IInv, TypeOK, Locked
  <1>6. Projection' /\ Retiring' BY DEF IInv, TypeOK, Projection, Retiring
  <1>7. LiveOwnerKeepsHandoff'
    BY <1>e, Revisions DEF IInv, TypeOK, LiveOwnerKeepsHandoff, Owning
  <1>8. CleanCloseIsDead' BY DEF IInv, TypeOK, CleanCloseIsDead
  <1>9. SingleWorker' BY DEF IInv, TypeOK, SingleWorker
  <1>10. SessionClosesFirst' BY <1>c DEF IInv, SessionClosesFirst, Closed
  <1> QED BY <1>1, <1>2, <1>3, <1>4, <1>5, <1>6, <1>7, <1>8, <1>9, <1>10 DEF IInv

LEMMA StartedStep ==
  ASSUME IInv, NEW o \in Ops, Free, cpc[o] = "started", WorkerStarted(o), CGoto(o, "ready"),
         UNCHANGED <<chain, lock, parent, takeover, mail>>
  PROVE  IInv'
  <1> USE DEF WorkerStarted, CGoto, Free, parent, takeover
  <1>a. \A t \in Takeovers : tpc[t] \notin TakingOver
    BY HandoffAssumption DEF IInv, Locked
  <1>b. Nobody \notin Ops BY HandoffAssumption
  <1>c. \A q \in Ops : q # o => current # q /\ status[q] \notin {"launching", "running"}
    BY DEF IInv, Projection
  <1>d. HeadIs(o, Owned) BY DEF IInv, LiveOwnerKeepsHandoff, Owning
  <1>1. TypeOK' BY DEF IInv, TypeOK, ChildPcs, Owning
  <1>2. Reads' BY <1>a DEF IInv, TypeOK, Reads, ReadOf, HeadIs, TakingOver
  <1>3. NewLaunch' BY DEF IInv, TypeOK, NewLaunch, HeadIs
  <1>4. FailedLaunch' BY DEF IInv, FailedLaunch, HeadIs
  <1>5. Locked' BY <1>a DEF Locked
  <1>6. Projection' BY <1>b, <1>c DEF IInv, TypeOK, Projection
  <1>7. Retiring' BY DEF IInv, TypeOK, Retiring
  <1>8. LiveOwnerKeepsHandoff' BY <1>d DEF IInv, TypeOK, LiveOwnerKeepsHandoff, HeadIs
  <1>9. CleanCloseIsDead' BY <1>b DEF CleanCloseIsDead
  <1>10. SingleWorker' BY <1>c DEF IInv, TypeOK, SingleWorker
  <1>11. SessionClosesFirst'
    BY <1>d, Revisions DEF IInv, TypeOK, SessionClosesFirst, HeadIs
  <1> QED BY <1>1, <1>2, <1>3, <1>4, <1>5, <1>6, <1>7, <1>8, <1>9, <1>10, <1>11 DEF IInv

LEMMA FinishStep ==
  ASSUME IInv, NEW o \in Ops, Free, cpc[o] = "finish", current = o,
         WorkerTerminal(o), CGoto(o, "retire"),
         UNCHANGED <<chain, lock, parent, takeover, mail>>
  PROVE  IInv'
  <1> USE DEF WorkerTerminal, CGoto, Free, parent, takeover
  <1>a. \A t \in Takeovers : tpc[t] \notin TakingOver
    BY HandoffAssumption DEF IInv, Locked
  <1>b. Nobody \notin Ops BY HandoffAssumption
  <1>c. \A q \in Ops : q # o => current # q /\ status[q] \notin {"launching", "running"}
    BY DEF IInv, Projection
  <1>1. TypeOK' BY DEF IInv, TypeOK, ChildPcs, Owning
  <1>2. Reads' BY <1>a DEF IInv, TypeOK, Reads, ReadOf, HeadIs, TakingOver
  <1>3. NewLaunch' BY DEF IInv, TypeOK, NewLaunch, HeadIs
  <1>4. FailedLaunch' BY DEF IInv, FailedLaunch, HeadIs
  <1>5. Locked' BY <1>a DEF Locked
  <1>6. Projection' BY <1>b, <1>c DEF IInv, TypeOK, Projection
  <1>7. Retiring' BY DEF IInv, TypeOK, Retiring, Closed
  <1>8. LiveOwnerKeepsHandoff' BY DEF IInv, TypeOK, LiveOwnerKeepsHandoff, HeadIs, Owning
  <1>9. CleanCloseIsDead' BY <1>b DEF CleanCloseIsDead
  <1>10. SingleWorker' BY <1>c DEF IInv, TypeOK, SingleWorker
  <1>11. SessionClosesFirst' BY DEF IInv, TypeOK, SessionClosesFirst
  <1> QED BY <1>1, <1>2, <1>3, <1>4, <1>5, <1>6, <1>7, <1>8, <1>9, <1>10, <1>11 DEF IInv

LEMMA MarkSessionStep ==
  ASSUME IInv, NEW o \in Ops, Free, cpc[o] = "mark", current = o,
         ReconciledUnknown(o), CGoto(o, "markCas"),
         UNCHANGED <<chain, lock, parent, takeover, mail>>
  PROVE  IInv'
  <1>a. \A t \in Takeovers : tpc[t] \notin TakingOver
    BY HandoffAssumption DEF IInv, Locked, Free
  <1>1. /\ Locked' /\ Projection' /\ Retiring'
        /\ CleanCloseIsDead' /\ SingleWorker' /\ SessionClosesFirst'
    <2>1. cpc[o] \notin Working BY DEF Working
    <2>2. \A q \in Ops : cpc'[q] = cpc[q] \/ (cpc[q] = "mark" /\ cpc'[q] = "markCas")
      BY DEF CGoto, IInv, TypeOK
    <2>3. UNCHANGED <<chain, lock, tpc, top, trev>> BY DEF takeover
    <2> QED BY <2>1, <2>2, <2>3, UnknownMarked
  <1> USE DEF ReconciledUnknown, CGoto, parent, takeover
  <1>2. TypeOK' BY DEF IInv, TypeOK, ChildPcs, Owning
  <1>3. Reads' BY <1>a DEF IInv, TypeOK, Reads, ReadOf, HeadIs, TakingOver
  <1>4. NewLaunch' BY DEF IInv, TypeOK, NewLaunch, HeadIs
  <1>5. FailedLaunch' BY DEF IInv, FailedLaunch, HeadIs
  <1>6. LiveOwnerKeepsHandoff' BY DEF IInv, TypeOK, LiveOwnerKeepsHandoff, HeadIs, Owning
  <1> QED BY <1>1, <1>2, <1>3, <1>4, <1>5, <1>6 DEF IInv

-----------------------------------------------------------------------------
(* A takeover.                                                             *)

\* A step of a takeover that writes nothing to the session or the handoff.
LEMMA TakeoverMoves ==
  ASSUME IInv, NEW t \in Takeovers, NEW l \in TakeoverPcs,
         TGoto(t, l), trev' \in [Takeovers -> Nat], top' \in [Takeovers -> Ops \cup {Nobody}],
         \A u \in Takeovers : u # t => top'[u] = top[u] /\ trev'[u] = trev[u],
         lock' \in Takeovers \cup {Nobody},
         \A u \in Takeovers : u # t => tpc[u] \notin TakingOver,
         l \in TakingOver =>
           /\ lock' = t /\ top'[t] \in Ops
           /\ started[top'[t]] => cpc[top'[t]] = "dead"
           /\ IF l = "append"
              THEN current = top'[t] /\ status[top'[t]] \in {"launching", "running"}
              ELSE status[top'[t]] \in Closed,
         l = "link" => ReadOf(top'[t], trev'[t], Expected(top'[t])),
         UNCHANGED <<session, chain, parent, child, mail>>
  PROVE  IInv'
  <1> USE DEF TGoto, session, parent, child
  <1>1. TypeOK' BY DEF IInv, TypeOK
  <1>2. Reads'
    <2>1. \A o \in Ops : ppc'[o] = "failLink" => ReadOf(o, prev[o], Launching)'
      BY DEF IInv, Reads, ReadOf, HeadIs
    <2>2. \A o \in Ops : cpc'[o] = "claimLink" => ReadOf(o, crev[o], Launching)'
      BY DEF IInv, Reads, ReadOf, HeadIs
    <2>3. \A u \in Takeovers : tpc'[u] = "link" => u = t /\ l = "link"
      BY DEF IInv, TypeOK, TakingOver
    <2>4. l = "link" => ReadOf(top[t], trev[t], Expected(top[t]))'
      BY DEF ReadOf, HeadIs, Expected
    <2> QED BY <2>1, <2>2, <2>3, <2>4 DEF Reads
  <1>3. NewLaunch' BY DEF IInv, NewLaunch, HeadIs
  <1>4. FailedLaunch' BY DEF IInv, FailedLaunch, HeadIs
  <1>5. Locked'
    <2>1. \A u \in Takeovers : tpc'[u] \in TakingOver => u = t /\ l \in TakingOver /\ tpc'[u] = l
      BY DEF IInv, TypeOK
    <2> QED BY <2>1 DEF Locked
  <1>6. Projection' /\ Retiring' BY DEF IInv, Projection, Retiring
  <1>7. LiveOwnerKeepsHandoff' BY DEF IInv, LiveOwnerKeepsHandoff, HeadIs
  <1>8. CleanCloseIsDead' /\ SingleWorker' /\ SessionClosesFirst'
    BY DEF IInv, CleanCloseIsDead, SingleWorker, SessionClosesFirst
  <1> QED BY <1>1, <1>2, <1>3, <1>4, <1>5, <1>6, <1>7, <1>8 DEF IInv

LEMMA TakeoverOpenStep ==
  ASSUME IInv, NEW t \in Takeovers, TakeoverOpen(t) \/ TakeoverResume(t) PROVE IInv'
  <1>a. \A u \in Takeovers : tpc[u] \notin TakingOver
    BY HandoffAssumption DEF IInv, Locked, Free, TakeoverOpen, TakeoverResume
  <1>b. lock' = t /\ UNCHANGED <<session, chain, trev, parent, child, mail>>
    BY DEF TakeoverOpen, TakeoverResume, OnlyTakeover
  <1>1. CASE TakeoverOpen(t)
    <2>1. PICK o \in Ops :
            /\ current = o /\ status[o] \in {"launching", "running"} /\ OwnerDead(o)
            /\ top' = [top EXCEPT ![t] = o] /\ TGoto(t, "append")
      BY <1>1 DEF TakeoverOpen
    <2>2. /\ top' \in [Takeovers -> Ops \cup {Nobody}] /\ top'[t] = o
          /\ \A u \in Takeovers : u # t => top'[u] = top[u]
          /\ trev' = trev /\ trev \in [Takeovers -> Nat]
      BY <2>1, <1>b DEF IInv, TypeOK
    <2>3. started[o] => cpc[o] = "dead" BY <2>1 DEF OwnerDead
    <2>4. "append" \in TakeoverPcs BY DEF TakeoverPcs
    <2> QED BY <1>a, <1>b, <2>1, <2>2, <2>3, <2>4, TakeoverMoves
  <1>2. CASE TakeoverResume(t)
    <2>1. PICK o \in Ops :
            /\ lastClean = o /\ OwnerDead(o)
            /\ top' = [top EXCEPT ![t] = o] /\ TGoto(t, "cas")
      BY <1>2 DEF TakeoverResume
    <2>2. /\ top' \in [Takeovers -> Ops \cup {Nobody}] /\ top'[t] = o
          /\ \A u \in Takeovers : u # t => top'[u] = top[u]
          /\ trev' = trev /\ trev \in [Takeovers -> Nat]
      BY <2>1, <1>b DEF IInv, TypeOK
    <2>3. (started[o] => cpc[o] = "dead") /\ status[o] \in Closed
      BY <2>1 DEF OwnerDead, IInv, Projection, Closed
    <2>4. "cas" \in TakeoverPcs BY DEF TakeoverPcs
    <2> QED BY <1>a, <1>b, <2>1, <2>2, <2>3, <2>4, TakeoverMoves
  <1> QED BY <1>1, <1>2

\* A takeover that ends without a write.
LEMMA TakeoverEndStep ==
  ASSUME IInv, NEW t \in Takeovers, tpc[t] \in TakingOver, TakeoverEnds(t),
         UNCHANGED <<session, chain, parent, child, mail>>
  PROVE  IInv'
  <1>1. \A u \in Takeovers : u # t => tpc[u] \notin TakingOver BY DEF IInv, Locked
  <1>2. /\ top' \in [Takeovers -> Ops \cup {Nobody}] /\ trev' \in [Takeovers -> Nat]
        /\ \A u \in Takeovers : u # t => top'[u] = top[u] /\ trev'[u] = trev[u]
        /\ lock' = Nobody /\ TGoto(t, "done")
    BY DEF TakeoverEnds, IInv, TypeOK
  <1>3. "done" \in TakeoverPcs /\ "done" \notin TakingOver BY DEF TakeoverPcs, TakingOver
  <1> QED BY <1>1, <1>2, <1>3, TakeoverMoves

LEMMA TakeoverReadStep ==
  ASSUME IInv, NEW t \in Takeovers, TakeoverRead(t) PROVE IInv'
  <1>a. /\ tpc[t] = "cas" /\ lock = t /\ top[t] \in Ops
        /\ (started[top[t]] => cpc[top[t]] = "dead") /\ status[top[t]] \in Closed
        /\ \A u \in Takeovers : u # t => tpc[u] \notin TakingOver
    BY DEF TakeoverRead, IInv, Locked, TakingOver
  <1>1. CASE HeadIs(top[t], Expected(top[t]))
    <2>1. /\ trev' = [trev EXCEPT ![t] = Len(chain[top[t]])] /\ TGoto(t, "link")
          /\ UNCHANGED <<lock, top, session, chain, parent, child, mail>>
      BY <1>1 DEF TakeoverRead, OnlyTakeover
    <2>2. Len(chain[top[t]]) \in Nat BY <1>a DEF IInv, TypeOK
    <2>3. /\ trev' \in [Takeovers -> Nat] /\ trev'[t] = Len(chain[top[t]])
          /\ top' \in [Takeovers -> Ops \cup {Nobody}]
          /\ \A u \in Takeovers : u # t => top'[u] = top[u] /\ trev'[u] = trev[u]
          /\ top'[t] = top[t] /\ lock' = t
      BY <1>a, <2>1, <2>2 DEF IInv, TypeOK
    <2>4. ReadOf(top'[t], trev'[t], Expected(top'[t])) BY <1>1, <2>2, <2>3 DEF ReadOf
    <2>5. "link" \in TakeoverPcs BY DEF TakeoverPcs
    <2>6. UNCHANGED <<session, chain, parent, child, mail>> BY <2>1
    <2> QED BY <1>a, <2>1, <2>3, <2>4, <2>5, <2>6, TakeoverMoves
  <1>2. CASE ~HeadIs(top[t], Expected(top[t]))
    BY <1>2, <1>a, TakeoverEndStep DEF TakeoverRead, OnlyTakeover, TakingOver
  <1> QED BY <1>1, <1>2

LEMMA TakeoverAppendStep ==
  ASSUME IInv, NEW t \in Takeovers, TakeoverAppend(t) PROVE IInv'
  <1> DEFINE o == top[t]
  <1>a. /\ o \in Ops /\ lock = t /\ (started[o] => cpc[o] = "dead")
        /\ current = o /\ status[o] \in {"launching", "running"}
        /\ \A u \in Takeovers : u # t => tpc[u] \notin TakingOver
    BY DEF TakeoverAppend, IInv, Locked, TakingOver
  <1>b. Nobody \notin Ops BY HandoffAssumption
  <1>c. \A q \in Ops : q # o => current # q /\ status[q] \notin {"launching", "running"}
    BY <1>a DEF IInv, Projection
  <1>d. /\ status' = [status EXCEPT ![o] = "terminal"]
        /\ current' = Nobody /\ lastClean' = o /\ tpc' = [tpc EXCEPT ![t] = "cas"]
        /\ UNCHANGED <<graph, started, chain, lock, top, trev, ppc, prev, cpc, crev, mail>>
    BY DEF TakeoverAppend, ReconciledClean, TGoto, OnlyTakeover, parent, child
  <1>e. cpc[o] \notin {"ready", "awaitAck", "run", "finish"}
    BY <1>a DEF IInv, SingleWorker, Projection
  <1>f. o' = o BY <1>d
  <1> HIDE DEF o
  <1>1. TypeOK' BY <1>a, <1>d DEF IInv, TypeOK, TakeoverPcs
  <1>2. Reads' BY <1>a, <1>d DEF IInv, TypeOK, Reads, ReadOf, HeadIs, TakingOver
  <1>3. NewLaunch' BY <1>a, <1>d DEF IInv, TypeOK, NewLaunch, HeadIs
  <1>4. FailedLaunch' BY <1>d DEF IInv, FailedLaunch, HeadIs
  <1>5. Locked'
    <2>1. status'[o] \in Closed BY <1>a, <1>d DEF IInv, TypeOK, Closed
    <2>2. \A u \in Takeovers : tpc'[u] \in TakingOver => u = t /\ tpc'[u] = "cas"
      BY <1>a, <1>d DEF IInv, TypeOK
    <2>3. top'[t] = o BY <1>d DEF o
    <2> QED BY <1>a, <1>d, <2>1, <2>2, <2>3 DEF Locked
  <1>6. Projection' BY <1>a, <1>b, <1>c, <1>d DEF IInv, TypeOK, Projection
  <1>7. Retiring' BY <1>a, <1>d DEF IInv, TypeOK, Retiring, Closed
  <1>8. LiveOwnerKeepsHandoff' BY <1>d DEF IInv, LiveOwnerKeepsHandoff, HeadIs
  <1>9. CleanCloseIsDead' BY <1>a, <1>d DEF CleanCloseIsDead
  <1>10. SingleWorker' BY <1>c, <1>d, <1>e DEF IInv, TypeOK, SingleWorker
  <1>11. SessionClosesFirst' BY <1>a, <1>d DEF IInv, TypeOK, SessionClosesFirst
  <1> QED BY <1>1, <1>2, <1>3, <1>4, <1>5, <1>6, <1>7, <1>8, <1>9, <1>10, <1>11 DEF IInv

LEMMA TakeoverLinkStep ==
  ASSUME IInv, NEW t \in Takeovers, TakeoverLink(t) PROVE IInv'
  <1> DEFINE o == top[t]
             r == [Expected(o) EXCEPT !.state = "terminal"]
  <1>a. /\ o \in Ops /\ lock = t /\ (started[o] => cpc[o] = "dead") /\ status[o] \in Closed
        /\ \A u \in Takeovers : u # t => tpc[u] \notin TakingOver
    BY DEF TakeoverLink, IInv, Locked, TakingOver
  <1>1. CASE ~Unchanged(top[t], trev[t])
    BY <1>1, TakeoverEndStep DEF TakeoverLink, OnlyTakeover, TakingOver
  <1>2. CASE Unchanged(top[t], trev[t])
    <2>a. HeadIs(o, Expected(o))
      BY <1>2 DEF TakeoverLink, IInv, Reads, ReadOf, Unchanged
    <2>b. Publish(o, r) BY <1>2 DEF TakeoverLink
    <2>c. r \in Revision /\ r.state = "terminal" /\ Expected(o) \in {Launching, Owned}
      BY Revisions DEF Expected, Launching, Owned
    <2>d. /\ tpc' = [tpc EXCEPT ![t] = "done"] /\ lock' = Nobody
          /\ top' = [top EXCEPT ![t] = Nobody] /\ trev' = [trev EXCEPT ![t] = 0]
          /\ UNCHANGED <<graph, status, started, current, lastClean, ppc, prev, cpc, crev, mail>>
      BY DEF TakeoverLink, TakeoverEnds, TGoto, OnlyTakeover, session, parent, child
    <2>e. /\ chain \in [Ops -> Seq(Revision)] /\ prev \in [Ops -> Nat] /\ crev \in [Ops -> Nat]
      BY DEF IInv, TypeOK
    <2>f. cpc[o] \notin Owning
      <3>1. CASE started[o] BY <3>1, <1>a DEF Owning
      <3>2. CASE ~started[o]
        BY <3>2, <1>a, <2>a, Revisions DEF IInv, LiveOwnerKeepsHandoff, Expected, HeadIs
      <3> QED BY <3>1, <3>2
    <2>g. ppc[o] \notin {"idle", "genesis", "request", "failMark"}
      BY <1>a, <2>a, <2>c, Revisions DEF IInv, NewLaunch, FailedLaunch, HeadIs, Closed
    <2> HIDE DEF o, r
    <2>h. /\ chain' \in [Ops -> Seq(Revision)] /\ chain'[o][Len(chain'[o])] = r
          /\ \A q \in Ops : q # o => chain'[q] = chain[q]
      BY <1>a, <2>b, <2>c, <2>e, PublishHead
    <2>i. /\ \A q \in Ops, x \in Revision : q # o => (HeadIs(q, x)' <=> HeadIs(q, x))
          /\ \A q \in Ops, k \in Nat, x \in Revision : ReadOf(q, k, x) => ReadOf(q, k, x)'
      <3>1. ASSUME NEW p \in Ops, NEW x \in Revision, Publish(p, x)
            PROVE  /\ \A q \in Ops, y \in Revision : q # p => (HeadIs(q, y)' <=> HeadIs(q, y))
                   /\ \A q \in Ops, k \in Nat, y \in Revision : ReadOf(q, k, y) => ReadOf(q, k, y)'
        BY <3>1, <2>e, Published
      <3> QED BY <3>1, <1>a, <2>b, <2>c DEF HeadIs, ReadOf
    <2>1. TypeOK' BY <2>d, <2>h DEF IInv, TypeOK, TakeoverPcs
    <2>2. Reads'
      <3>1. \A q \in Ops : ppc'[q] = "failLink" => ReadOf(q, prev[q], Launching)'
        BY <2>d, <2>e, <2>i, Revisions DEF IInv, Reads
      <3>2. \A q \in Ops : cpc'[q] = "claimLink" => ReadOf(q, crev[q], Launching)'
        BY <2>d, <2>e, <2>i, Revisions DEF IInv, Reads
      <3>3. \A u \in Takeovers : tpc'[u] # "link"
        BY <1>a, <2>d DEF IInv, TypeOK, TakingOver
      <3> QED BY <3>1, <3>2, <3>3 DEF Reads
    <2>3. NewLaunch' BY <2>d, <2>g, <2>h, <2>i, Revisions DEF IInv, NewLaunch
    <2>4. FailedLaunch' BY <2>d, <2>g, <2>i, Revisions DEF IInv, FailedLaunch
    <2>5. Locked'
      <3>1. \A u \in Takeovers : tpc'[u] \notin TakingOver
        BY <1>a, <2>d DEF IInv, TypeOK, TakingOver
      <3> QED BY <3>1 DEF Locked
    <2>6. Projection' /\ Retiring' BY <2>d DEF IInv, Projection, Retiring
    <2>7. LiveOwnerKeepsHandoff' BY <2>d, <2>f, <2>i, Revisions DEF IInv, LiveOwnerKeepsHandoff
    <2>8. CleanCloseIsDead' /\ SingleWorker' BY <2>d DEF IInv, CleanCloseIsDead, SingleWorker
    <2>9. SessionClosesFirst' BY <1>a, <2>d, <2>h DEF IInv, SessionClosesFirst, Closed
    <2> QED BY <2>1, <2>2, <2>3, <2>4, <2>5, <2>6, <2>7, <2>8, <2>9 DEF IInv
  <1> QED BY <1>1, <1>2

-----------------------------------------------------------------------------
LEMMA ParentInv ==
  ASSUME IInv, NEW o \in Ops, LaunchCheck(o) \/ ParentSteps(o) \/ ParentDies(o)
  PROVE  IInv'
  <1>a. mail \in [Ops -> {"none", "ready", "ack"}] BY DEF IInv, TypeOK
  <1>b. {"genesis", "failed", "verify", "failing", "accepted", "dead"}
          \subseteq ParentPcs \ {"idle", "request", "spawn", "failLink", "failMark"}
    BY DEF ParentPcs, ParentDone
  <1> USE DEF PAt, OnlyParent
  <1>1. CASE LaunchCheck(o)
    <2>1. ppc[o] = "idle" /\ PGoto(o, "genesis")
          /\ UNCHANGED <<session, chain, lock, child, takeover, mail>>
      BY <1>1 DEF LaunchCheck
    <2> QED BY <2>1, <1>a, <1>b, ParentMoves
  <1>2. CASE LaunchGenesis(o) BY <1>2, GenesisStep
  <1>3. CASE SpawnRequested(o) BY <1>3, SpawnStep
  <1>4. CASE SpawnRefused(o) \/ LaunchThrows(o) \/ VerifyFails(o) \/ FailLost(o)
    <2>1. PGoto(o, "failed") /\ UNCHANGED <<session, chain, lock, child, takeover, mail>>
      BY <1>4 DEF SpawnRefused, LaunchThrows, VerifyFails, FailLost
    <2> QED BY <2>1, <1>a, <1>b, ParentMoves
  <1>5. CASE Spawn(o) BY <1>5, SpawnChildStep
  <1>6. CASE ReadyReceived(o) \/ HandshakeFails(o) \/ ParentDies(o)
    <2>1. PICK l \in {"verify", "failing", "dead"} : PGoto(o, l)
      BY <1>6 DEF ReadyReceived, HandshakeFails, ParentDies
    <2>2. UNCHANGED <<session, chain, lock, child, takeover, mail>>
      BY <1>6 DEF ReadyReceived, HandshakeFails, ParentDies
    <2> QED BY <2>1, <2>2, <1>a, <1>b, ParentMoves
  <1>7. CASE VerifyReady(o)
    <2>1. PGoto(o, "accepted") /\ UNCHANGED <<session, chain, lock, child, takeover>>
          /\ mail' = [mail EXCEPT ![o] = "ack"]
      BY <1>7 DEF VerifyReady
    <2>2. mail' \in [Ops -> {"none", "ready", "ack"}] BY <1>a, <2>1
    <2> QED BY <2>1, <2>2, <1>b, ParentMoves
  <1>8. CASE FailRead(o)
    <2>1. ppc[o] = "failing" /\ UNCHANGED <<session, chain, lock, child, takeover, mail>>
      BY <1>8 DEF FailRead
    <2>2. CASE HeadIs(o, Launching) BY <1>8, <2>1, <2>2, FailReadStep DEF FailRead
    <2>3. CASE ~HeadIs(o, Launching) BY <1>8, <2>1, <2>3, <1>a, <1>b, ParentMoves DEF FailRead
    <2> QED BY <2>2, <2>3
  <1>9. CASE FailLink(o) BY <1>9, FailLinkStep
  <1>10. CASE FailMark(o) BY <1>10, FailMarkStep
  <1> QED BY <1>1, <1>2, <1>3, <1>4, <1>5, <1>6, <1>7, <1>8, <1>9, <1>10 DEF ParentSteps

\* The quiet steps of the child, one by one.
LEMMA ChildQuiet ==
  ASSUME IInv, NEW o \in Ops, NEW l \in ChildPcs \ {"none", "claimLink"},
         CGoto(o, l), cpc[o] \notin {"none", "dead"},
         l \in Owning => cpc[o] \in Owning,
         l \in Working => cpc[o] \in Working,
         l \in {"retire", "retireLink"} => cpc[o] \in {"retire", "retireLink"},
         graph' \in {"queued", "running", "waiting", "stopped"},
         UNCHANGED <<status, started, current, lastClean, chain, lock, parent, takeover>>,
         mail' \in [Ops -> {"none", "ready", "ack"}]
  PROVE  IInv'
  <1>1. /\ cpc' = [cpc EXCEPT ![o] = l] /\ crev' \in [Ops -> Nat]
        /\ \A q \in Ops : q # o => crev'[q] = crev[q]
    BY DEF CGoto, IInv, TypeOK
  <1> QED BY <1>1, ChildMoves

LEMMA ChildInv ==
  ASSUME IInv, NEW o \in Ops, ChildSteps(o) \/ ChildDies(o)
  PROVE  IInv'
  <1>a. /\ mail \in [Ops -> {"none", "ready", "ack"}]
        /\ graph \in {"queued", "running", "waiting", "stopped"}
        /\ cpc \in [Ops -> ChildPcs] /\ crev \in [Ops -> Nat]
        /\ Len(chain[o]) \in Nat
    BY DEF IInv, TypeOK
  <1>b. {"boot", "validate", "claim", "ended", "dead"} \cup Owning
          \subseteq ChildPcs \ {"none", "claimLink"}
    BY DEF ChildPcs, ChildDone, Owning
  <1>c. Working \subseteq Owning \ {"error", "mark", "markCas", "markLink", "started"}
        /\ {"error", "mark", "markCas", "markLink", "started", "own",
            "retire", "retireLink"} \subseteq Owning \ Working
        /\ {"boot", "validate", "claim", "claimLink", "ended", "dead"} \cap Owning = {}
    BY DEF Working, Owning
  <1> USE DEF CAt, OnlyChild
  <1>1. CASE ChildRead(o) \/ ChildValidate(o) \/ ClaimLost(o) \/ ChildDies(o)
    <2>1. PICK l \in {"validate", "claim", "ended", "dead"} : CGoto(o, l)
      BY <1>1 DEF ChildRead, ChildValidate, ClaimLost, ChildDies
    <2>2. cpc[o] \notin {"none", "dead"}
          /\ UNCHANGED <<graph, status, started, current, lastClean, chain, lock, parent,
                         takeover, mail>>
      BY <1>1 DEF ChildRead, ChildValidate, ClaimLost, ChildDies, session
    <2>3. l \in ChildPcs \ {"none", "claimLink"} /\ l \notin Owning /\ l \notin Working
          /\ l \notin {"retire", "retireLink"}
      BY <1>b, <1>c
    <2> HIDE DEF CAt, OnlyChild
    <2> QED BY <1>a, <2>1, <2>2, <2>3, ChildQuiet
  <1>2. CASE ClaimRead(o)
    <2>1. cpc[o] = "claim" /\ UNCHANGED <<session, chain, lock, parent, takeover, mail>>
      BY <1>2 DEF ClaimRead, SwapRead
    <2>2. CASE HeadIs(o, Launching) BY <1>2, <2>1, <2>2, ClaimReadStep DEF ClaimRead, SwapRead
    <2>3. CASE ~HeadIs(o, Launching)
      <3>1. CGoto(o, "ended") BY <1>2, <2>3 DEF ClaimRead, SwapRead
      <3>2. UNCHANGED <<graph, status, started, current, lastClean, chain, lock, parent,
                        takeover, mail>> BY <2>1 DEF session
      <3>3. "ended" \notin Working BY <1>c
      <3> QED BY <1>a, <1>b, <1>c, <2>1, <3>1, <3>2, <3>3, ChildQuiet
    <2> QED BY <2>2, <2>3
  <1>3. CASE ClaimLink(o)
    <2>1. cpc[o] = "claimLink" /\ Publish(o, Owned) /\ HeadIs(o, Launching)
          /\ UNCHANGED <<session, lock, parent, takeover, mail>>
      BY <1>3 DEF ClaimLink, Unchanged, IInv, Reads, ReadOf
    <2>2. PICK l \in {"own", "ended"} : CGoto(o, l) BY <1>3 DEF ClaimLink
    <2>3. Owned \in Revision /\ Owned.state # "terminal" BY Revisions
    <2> QED BY <2>1, <2>2, <2>3, ChildLinks
  <1>4. CASE StartOwnership(o)
    <2>1. PICK l \in {"started", "error"} : CGoto(o, l) BY <1>4 DEF StartOwnership
    <2>2. cpc[o] = "own" /\ graph' \in {"queued", "running", "waiting", "stopped"}
          /\ UNCHANGED <<status, started, current, lastClean, chain, lock, parent, takeover, mail>>
      BY <1>4, <1>a DEF StartOwnership
    <2>3. l \in Owning /\ l \notin Working /\ cpc[o] \in Owning BY <1>c, <2>2
    <2> QED BY <1>a, <1>b, <2>1, <2>2, <2>3, ChildQuiet
  <1>5. CASE StartedAppend(o)
    <2>1. cpc[o] = "started" /\ Free /\ UNCHANGED <<chain, lock, parent, takeover, mail>>
      BY <1>5 DEF StartedAppend
    <2>2. CASE status[o] = "launching" BY <1>5, <2>1, <2>2, StartedStep DEF StartedAppend
    <2>3. CASE status[o] # "launching"
      <3>1. CGoto(o, "error")
            /\ UNCHANGED <<graph, status, started, current, lastClean, chain, lock, parent,
                           takeover, mail>>
        BY <1>5, <2>3, <2>1 DEF StartedAppend, session
      <3>2. "error" \in Owning /\ "error" \notin Working /\ cpc[o] \in Owning BY <1>c, <2>1
      <3> QED BY <1>a, <1>b, <2>1, <3>1, <3>2, ChildQuiet
    <2> QED BY <2>2, <2>3
  <1>6. CASE SendReady(o) \/ AckReceived(o) \/ SchedulerStops(o)
    <2>1. PICK l \in {"awaitAck", "run", "finish"} : CGoto(o, l)
      BY <1>6 DEF SendReady, AckReceived, SchedulerStops
    <2>2. /\ cpc[o] \in {"ready", "awaitAck", "run"}
          /\ graph' \in {"queued", "running", "waiting", "stopped"}
          /\ UNCHANGED <<status, started, current, lastClean, chain, lock, parent, takeover>>
          /\ mail' \in [Ops -> {"none", "ready", "ack"}]
      BY <1>6, <1>a DEF SendReady, AckReceived, SchedulerStops, session
    <2>3. l \in Working /\ l \in Owning /\ cpc[o] \in Working /\ cpc[o] \in Owning
      BY <2>2 DEF Working, Owning
    <2> QED BY <1>b, <2>1, <2>2, <2>3, ChildQuiet
  <1>7. CASE FinishAppend(o)
    <2>1. cpc[o] = "finish" /\ Free /\ UNCHANGED <<chain, lock, parent, takeover, mail>>
      BY <1>7 DEF FinishAppend
    <2>2. CASE current = o /\ status[o] = "running"
      BY <1>7, <2>1, <2>2, FinishStep DEF FinishAppend
    <2>3. CASE ~(current = o /\ status[o] = "running")
      <3>1. CGoto(o, "error")
            /\ UNCHANGED <<graph, status, started, current, lastClean, chain, lock, parent,
                           takeover, mail>>
        BY <1>7, <2>3, <2>1 DEF FinishAppend, session
      <3>2. "error" \in Owning /\ "error" \notin Working /\ cpc[o] \in Owning
        BY <2>1 DEF Working, Owning
      <3> QED BY <1>a, <1>b, <2>1, <3>1, <3>2, ChildQuiet
    <2> QED BY <2>2, <2>3
  <1>8. CASE RetireRead(o) \/ MarkSwap(o)
    <2>1. PICK l \in {"retireLink", "markLink", "error", "ended"} :
            /\ cpc' = [cpc EXCEPT ![o] = l] /\ crev' \in [Ops -> Nat]
            /\ \A q \in Ops : q # o => crev'[q] = crev[q]
            /\ l = "retireLink" => cpc[o] = "retire"
      BY <1>8, <1>a DEF RetireRead, MarkSwap, SwapRead, CGoto
    <2>2. /\ cpc[o] \in {"retire", "markCas"}
          /\ UNCHANGED <<graph, status, started, current, lastClean, chain, lock, parent,
                         takeover, mail>>
      BY <1>8 DEF RetireRead, MarkSwap, SwapRead, session
    <2>3. l \in ChildPcs \ {"none", "claimLink"} /\ l \notin Working /\ cpc[o] \in Owning
      BY <1>b, <1>c, <2>2
    <2> QED BY <1>a, <2>1, <2>2, <2>3, ChildMoves
  <1>9. CASE GiveUpLink(o)
    <2>1. /\ cpc[o] \in {"retireLink", "markLink"} /\ cpc[o] \in Owning
          /\ UNCHANGED <<session, lock, parent, takeover, mail>>
      BY <1>9 DEF GiveUpLink, Owning
    <2>2. CASE Unchanged(o, crev[o])
      <3> DEFINE r == [Owned EXCEPT !.state = IF cpc[o] = "retireLink" THEN "terminal"
                                              ELSE "reconciliation_required"]
      <3>1. Publish(o, r) /\ CGoto(o, "ended") BY <1>9, <2>2 DEF GiveUpLink
      <3>2. r \in Revision BY Revisions
      <3>3. r.state = "terminal" => status[o] \in Closed
        BY <2>1 DEF IInv, Retiring, Owned
      <3>4. HeadIs(o, Owned) BY <2>1 DEF IInv, LiveOwnerKeepsHandoff
      <3> HIDE DEF r
      <3> QED BY <2>1, <3>1, <3>2, <3>3, <3>4, ChildLinks
    <2>3. CASE ~Unchanged(o, crev[o])
      <3>1. PICK l \in {"error", "ended"} : CGoto(o, l) BY <1>9, <2>3 DEF GiveUpLink
      <3>2. UNCHANGED <<graph, status, started, current, lastClean, chain, lock, parent,
                        takeover, mail>>
        BY <1>9, <2>3 DEF GiveUpLink, session
      <3>3. l \in ChildPcs \ {"none", "claimLink"} /\ l \notin Working BY <1>b, <1>c
      <3> QED BY <1>a, <2>1, <3>1, <3>2, <3>3, ChildQuiet
    <2> QED BY <2>2, <2>3
  <1>10. CASE ChildFails(o)
    <2>1. PICK l \in {"error", "ended"} : CGoto(o, l) /\ (l = "error" => cpc[o] \in Owning)
      BY <1>10 DEF ChildFails, Owning
    <2>2. /\ cpc[o] \notin {"none", "dead"}
          /\ UNCHANGED <<graph, status, started, current, lastClean, chain, lock, parent,
                         takeover, mail>>
      BY <1>10 DEF ChildFails, ChildDone, session
    <2>3. /\ l \in ChildPcs \ {"none", "claimLink"} /\ l \notin Working
          /\ l \in Owning => l = "error"
      BY <1>b, <1>c
    <2> QED BY <1>a, <2>1, <2>2, <2>3, ChildQuiet
  <1>11. CASE MarkRead(o)
    <2>1. PICK l \in {"mark", "ended"} : CGoto(o, l) BY <1>11 DEF MarkRead
    <2>2. /\ cpc[o] = "error" /\ cpc[o] \in Owning
          /\ UNCHANGED <<graph, status, started, current, lastClean, chain, lock, parent,
                         takeover, mail>>
      BY <1>11, <1>c DEF MarkRead, session
    <2>3. l \in ChildPcs \ {"none", "claimLink"} /\ l \notin Working BY <1>b, <1>c
    <2> QED BY <1>a, <2>1, <2>2, <2>3, ChildQuiet
  <1>12. CASE MarkSession(o)
    <2>1. /\ cpc[o] = "mark" /\ Free /\ CGoto(o, "markCas")
          /\ UNCHANGED <<chain, lock, parent, takeover, mail>>
      BY <1>12 DEF MarkSession
    <2>2. CASE current = o BY <1>12, <2>1, <2>2, MarkSessionStep DEF MarkSession
    <2>3. CASE current # o
      <3>1. UNCHANGED <<graph, status, started, current, lastClean>>
        BY <1>12, <2>3 DEF MarkSession, session
      <3>2. "markCas" \in Owning /\ "markCas" \notin Working /\ cpc[o] \in Owning BY <1>c, <2>1
      <3> QED BY <1>a, <1>b, <2>1, <3>1, <3>2, ChildQuiet
    <2> QED BY <2>2, <2>3
  <1> QED BY <1>1, <1>2, <1>3, <1>4, <1>5, <1>6, <1>7, <1>8, <1>9, <1>10, <1>11, <1>12
          DEF ChildSteps

\* The user moves the Graph, of which the invariant says nothing but its type.
LEMMA GraphInv ==
  ASSUME IInv, Enqueue \/ Cancel PROVE IInv'
  <1> USE DEF Enqueue, Cancel, GraphTo, parent, child, takeover
  <1>1. TypeOK' BY DEF IInv, TypeOK
  <1>2. Reads' BY DEF IInv, Reads, ReadOf, HeadIs, Expected
  <1>3. NewLaunch' /\ FailedLaunch' BY DEF IInv, NewLaunch, FailedLaunch, HeadIs
  <1>4. Locked' /\ Projection' /\ Retiring' BY DEF IInv, Locked, Projection, Retiring
  <1>5. LiveOwnerKeepsHandoff' BY DEF IInv, LiveOwnerKeepsHandoff, HeadIs
  <1>6. CleanCloseIsDead' /\ SingleWorker' /\ SessionClosesFirst'
    BY DEF IInv, CleanCloseIsDead, SingleWorker, SessionClosesFirst
  <1> QED BY <1>1, <1>2, <1>3, <1>4, <1>5, <1>6 DEF IInv

LEMMA StutterInv == ASSUME IInv, UNCHANGED vars PROVE IInv'
  <1> USE DEF vars, session, parent, child, takeover
  <1>1. TypeOK' BY DEF IInv, TypeOK
  <1>2. Reads' BY DEF IInv, Reads, ReadOf, HeadIs, Expected
  <1>3. NewLaunch' /\ FailedLaunch' BY DEF IInv, NewLaunch, FailedLaunch, HeadIs
  <1>4. Locked' /\ Projection' /\ Retiring' BY DEF IInv, Locked, Projection, Retiring
  <1>5. LiveOwnerKeepsHandoff' BY DEF IInv, LiveOwnerKeepsHandoff, HeadIs
  <1>6. CleanCloseIsDead' /\ SingleWorker' /\ SessionClosesFirst'
    BY DEF IInv, CleanCloseIsDead, SingleWorker, SessionClosesFirst
  <1> QED BY <1>1, <1>2, <1>3, <1>4, <1>5, <1>6 DEF IInv

LEMMA StepInv == ASSUME IInv, [Next]_vars PROVE IInv'
  <1>1. ASSUME NEW o \in Ops, LaunchCheck(o) \/ ParentSteps(o) \/ ParentDies(o) PROVE IInv'
    BY <1>1, ParentInv
  <1>2. ASSUME NEW o \in Ops, ChildSteps(o) \/ ChildDies(o) PROVE IInv'
    BY <1>2, ChildInv
  <1>3. ASSUME NEW t \in Takeovers, TakeoverOpen(t) \/ TakeoverResume(t) PROVE IInv'
    BY <1>3, TakeoverOpenStep
  <1>4. ASSUME NEW t \in Takeovers, TakeoverSteps(t) PROVE IInv'
    BY <1>4, TakeoverAppendStep, TakeoverReadStep, TakeoverLinkStep DEF TakeoverSteps
  <1>5. ASSUME NEW t \in Takeovers, TakeoverFails(t) PROVE IInv'
    BY <1>5, TakeoverEndStep DEF TakeoverFails, TakingOver, OnlyTakeover
  <1>6. CASE Enqueue \/ Cancel BY <1>6, GraphInv
  <1>7. CASE UNCHANGED vars BY <1>7, StutterInv
  <1> QED BY <1>1, <1>2, <1>3, <1>4, <1>5, <1>6, <1>7 DEF Next

\* The invariant of the handoff, for any number of launches and takeovers: the
\* worker that claimed is the authority, the worker that runs is the one the
\* session shows, what takeover saw under its lock stays true.
THEOREM HandoffInvariant == Spec => []IInv
  <1>1. Init => IInv BY InitInv
  <1>2. IInv /\ [Next]_vars => IInv' BY StepInv
  <1> QED BY <1>1, <1>2, PTL DEF Spec

\* A worker that claimed the handoff and is alive is its authority: neither a
\* parent that timed out nor a takeover replaces it.
THEOREM LiveOwner == Spec => []LiveOwnerKeepsHandoff
  <1>1. IInv => LiveOwnerKeepsHandoff BY DEF IInv
  <1> QED BY <1>1, HandoffInvariant, PTL

\* At most one live worker is past its task_worker.started, and it is the one
\* the session shows.
THEOREM OneWorker == Spec => []SingleWorker
  <1>1. IInv => SingleWorker BY DEF IInv
  <1> QED BY <1>1, HandoffInvariant, PTL

\* A started worker that takeover closed as owner_dead_clean is dead.
THEOREM CleanClose == Spec => []CleanCloseIsDead
  <1>1. IInv => CleanCloseIsDead BY DEF IInv
  <1> QED BY <1>1, HandoffInvariant, PTL

\* A closed handoff belongs to an operation that the session shows closed.
THEOREM ClosesInOrder == Spec => []SessionClosesFirst
  <1>1. IInv => SessionClosesFirst BY DEF IInv
  <1> QED BY <1>1, HandoffInvariant, PTL

-----------------------------------------------------------------------------
(* The handoff record implements HandoffRegister.                          *)

LEMMA Authorities ==
  ASSUME NEW o \in Ops
  PROVE  /\ chain[o] = <<>> => AuthorityOf(o) = "none"
         /\ HeadIs(o, Launching) => AuthorityOf(o) = "parent"
         /\ HeadIs(o, Owned) => AuthorityOf(o) = "worker"
         /\ \A r \in Revision : HeadIs(o, r) /\ r.state = "terminal" => AuthorityOf(o) = "closed"
         /\ \A r \in Revision : HeadIs(o, r) /\ r.state = "reconciliation_required"
              => AuthorityOf(o) = "unresolved"
  BY Revisions DEF AuthorityOf, HeadIs

LEMMA RegisterPublish ==
  ASSUME IInv, NEW o \in Ops, NEW r \in Revision, Publish(o, r),
         \/ chain[o] = <<>> /\ r = Launching
         \/ HeadIs(o, Launching) /\ r = Owned
         \/ /\ HeadIs(o, Launching) \/ HeadIs(o, Owned)
            /\ r.state \in {"terminal", "reconciliation_required"}
  PROVE  Register!Next
  <1>a. chain \in [Ops -> Seq(Revision)] BY DEF IInv, TypeOK
  <1>1. HeadIs(o, r)' /\ \A q \in Ops : q # o => chain'[q] = chain[q]
    BY <1>a, PublishHead DEF HeadIs
  <1>2. \A q \in Ops : q # o => AuthorityOf(q)' = AuthorityOf(q)
    BY <1>1 DEF AuthorityOf, HeadIs
  <1>3. /\ r = Launching => AuthorityOf(o)' = "parent"
        /\ r = Owned => AuthorityOf(o)' = "worker"
        /\ r.state = "terminal" => AuthorityOf(o)' = "closed"
        /\ r.state = "reconciliation_required" => AuthorityOf(o)' = "unresolved"
    BY <1>1, Revisions DEF AuthorityOf, HeadIs
  <1>4. [q \in Ops |-> AuthorityOf(q)]'
          = [[q \in Ops |-> AuthorityOf(q)] EXCEPT ![o] = AuthorityOf(o)']
    BY <1>2
  <1>5. [q \in Ops |-> AuthorityOf(q)][o] = AuthorityOf(o) OBVIOUS
  <1>6. CASE chain[o] = <<>> /\ r = Launching
    <2>1. Register!Begin(o)
      BY <1>3, <1>4, <1>5, <1>6, Authorities DEF Register!Begin, Register!Become
    <2> QED BY <2>1 DEF Register!Next
  <1>7. CASE HeadIs(o, Launching) /\ r = Owned
    <2>1. Register!Claim(o)
      BY <1>3, <1>4, <1>5, <1>7, Authorities DEF Register!Claim, Register!Become
    <2> QED BY <2>1 DEF Register!Next
  <1>8. CASE /\ HeadIs(o, Launching) \/ HeadIs(o, Owned)
             /\ r.state \in {"terminal", "reconciliation_required"}
    <2>1. AuthorityOf(o) \in {"parent", "worker"} BY <1>8, Authorities
    <2>2. AuthorityOf(o)' \in {"closed", "unresolved"} BY <1>3, <1>8
    <2>3. Register!End(o)
      BY <1>4, <1>5, <2>1, <2>2 DEF Register!End, Register!Become
    <2> QED BY <2>3 DEF Register!Next
  <1> QED BY <1>6, <1>7, <1>8

LEMMA RegisterStep ==
  ASSUME IInv, [Next]_vars
  PROVE  Register!Next \/ UNCHANGED [o \in Ops |-> AuthorityOf(o)]
  <1>a. chain' = chain => UNCHANGED [o \in Ops |-> AuthorityOf(o)]
    BY DEF AuthorityOf, HeadIs
  <1>1. ASSUME NEW o \in Ops, LaunchGenesis(o) PROVE Register!Next
    <2>1. chain[o] = <<>> /\ Publish(o, Launching)
      BY <1>1 DEF LaunchGenesis, PAt, IInv, NewLaunch
    <2> QED BY <2>1, Revisions, RegisterPublish
  <1>2. ASSUME NEW o \in Ops, FailLink(o) PROVE Register!Next
    <2>1. HeadIs(o, Launching) /\ Publish(o, Failed)
      BY <1>2 DEF FailLink, PAt, IInv, Reads, ReadOf, Unchanged, Failed
    <2> QED BY <2>1, Revisions, RegisterPublish
  <1>3. ASSUME NEW o \in Ops, ClaimLink(o) PROVE Register!Next
    <2>1. HeadIs(o, Launching) /\ Publish(o, Owned)
      BY <1>3 DEF ClaimLink, CAt, IInv, Reads, ReadOf, Unchanged
    <2> QED BY <2>1, Revisions, RegisterPublish
  <1>4. ASSUME NEW o \in Ops, GiveUpLink(o), Unchanged(o, crev[o]) PROVE Register!Next
    <2>1. HeadIs(o, Owned) BY <1>4 DEF GiveUpLink, IInv, LiveOwnerKeepsHandoff, Owning
    <2>2. PICK s \in {"terminal", "reconciliation_required"} :
            Publish(o, [Owned EXCEPT !.state = s])
      BY <1>4 DEF GiveUpLink
    <2>3. [Owned EXCEPT !.state = s] \in Revision /\ [Owned EXCEPT !.state = s].state = s
      BY Revisions DEF Owned
    <2> QED BY <2>1, <2>2, <2>3, RegisterPublish
  <1>5. ASSUME NEW t \in Takeovers, TakeoverLink(t), Unchanged(top[t], trev[t])
        PROVE  Register!Next
    <2>1. top[t] \in Ops BY <1>5 DEF TakeoverLink, IInv, Locked, TakingOver
    <2>2. HeadIs(top[t], Expected(top[t]))
      BY <1>5 DEF TakeoverLink, IInv, Reads, ReadOf, Unchanged
    <2>3. PICK e \in {Launching, Owned} : e = Expected(top[t]) BY DEF Expected
    <2>4. Publish(top[t], [e EXCEPT !.state = "terminal"])
      BY <1>5, <2>3 DEF TakeoverLink
    <2>5. /\ [e EXCEPT !.state = "terminal"] \in Revision
          /\ [e EXCEPT !.state = "terminal"].state = "terminal"
      BY Revisions DEF Owned, Launching
    <2>6. HeadIs(top[t], Launching) \/ HeadIs(top[t], Owned) BY <2>2, <2>3
    <2> QED BY <2>1, <2>4, <2>5, <2>6, RegisterPublish
  <1>6. ASSUME NEW o \in Ops, LaunchCheck(o) \/ ParentSteps(o) \/ ParentDies(o)
        PROVE  LaunchGenesis(o) \/ FailLink(o) \/ chain' = chain
    BY <1>6 DEF LaunchCheck, ParentSteps, ParentDies, SpawnRequested, SpawnRefused, Spawn,
                LaunchThrows, ReadyReceived, HandshakeFails, VerifyReady, VerifyFails,
                FailRead, FailLost, FailMark
  <1>7. ASSUME NEW o \in Ops, ChildSteps(o) \/ ChildDies(o)
        PROVE  ClaimLink(o) \/ (GiveUpLink(o) /\ Unchanged(o, crev[o])) \/ chain' = chain
    BY <1>7 DEF ChildSteps, ChildDies, ChildRead, ChildValidate, ClaimRead, SwapRead, ClaimLost,
                StartOwnership, StartedAppend, SendReady, AckReceived, SchedulerStops,
                FinishAppend, RetireRead, GiveUpLink, ChildFails, MarkRead, MarkSession, MarkSwap
  <1>8. ASSUME NEW t \in Takeovers, \/ TakeoverOpen(t) \/ TakeoverResume(t)
                                    \/ TakeoverSteps(t) \/ TakeoverFails(t)
        PROVE  (TakeoverLink(t) /\ Unchanged(top[t], trev[t])) \/ chain' = chain
    BY <1>8 DEF TakeoverOpen, TakeoverResume, TakeoverSteps, TakeoverFails, TakeoverAppend,
                TakeoverRead, TakeoverLink
  <1>9. Enqueue \/ Cancel \/ UNCHANGED vars => chain' = chain
    BY DEF Enqueue, Cancel, GraphTo, vars
  <1> QED BY <1>a, <1>1, <1>2, <1>3, <1>4, <1>5, <1>6, <1>7, <1>8, <1>9 DEF Next

\* The two-step compare-and-swap of the handoff record implements the register:
\* one authority at a time, handed over at most once, never taken back.
THEOREM ImplementsRegister == Spec => RegisterSpec
  <1>1. Init => Register!Init
    <2>1. ASSUME Init PROVE \A o \in Ops : chain[o] = <<>>
      <3>1. chain = [o \in Ops |-> <<>>] BY <2>1 DEF Init
      <3> QED BY <3>1
    <2>2. ASSUME Init PROVE \A o \in Ops : AuthorityOf(o) = "none" BY <2>1, <2>2, Authorities
    <2>3. ASSUME Init PROVE Register!Init BY <2>2, <2>3 DEF Register!Init
    <2> QED BY <2>3
  <1>2. IInv /\ [Next]_vars => [Register!Next]_([o \in Ops |-> AuthorityOf(o)])
    BY RegisterStep
  <1> QED BY <1>1, <1>2, HandoffInvariant, PTL DEF Spec, RegisterSpec, Register!Spec

\* Type correctness of the handoff: the chain of every operation holds handoff
\* revisions only, and no launch or takeover leaves the steps of its code.
THEOREM TypeCorrect == Spec => []TypeOK
  <1>1. IInv => TypeOK BY DEF IInv
  <1> QED BY <1>1, HandoffInvariant, PTL
=============================================================================
