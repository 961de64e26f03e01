-------------------------- MODULE ServerLocksProofs --------------------------
(***************************************************************************)
(* Proofs about the goroutines of one key/value server, for any number of  *)
(* handlers and commands.                                                  *)
(***************************************************************************)
EXTENDS ServerLocks, TLAPS

\* What the service holds in its hands.  A command it has received and not
\* applied is the one Raft sent last and follows the one applied last; when it
\* holds none, it has applied everything Raft sent.
InHand ==
  IF service = "received" /\ msg # 0
    THEN msg = LastApplied /\ LastApplied = applied + 1
    ELSE applied = LastApplied

IInv == TypeOK /\ InHand

-----------------------------------------------------------------------------
\* StartKVServer and Make start with nothing committed, sent or applied.
LEMMA InitInv == Init => IInv
<1> SUFFICES ASSUME Init PROVE IInv
  OBVIOUS
<1>1. TypeOK
  <2>1. handing \in BOOLEAN /\ Process \in BOOLEAN /\ stop \in BOOLEAN
    BY Zenon DEF Init
  <2>2. start \in [Handler -> {"none", "called", "leader", "returned"}]
    BY DEF Init
  <2>3. /\ CommitIndex \in 0 .. MaxCommit
        /\ LastApplied \in 0 .. CommitIndex
        /\ msg \in 0 .. LastApplied
        /\ applied \in 0 .. LastApplied
    BY LocksAssumption DEF Init
  <2> QED
    BY <2>1, <2>2, <2>3, Zenon DEF Init, TypeOK
<1>2. InHand
  BY DEF Init, InHand
<1> QED
  BY <1>1, <1>2 DEF IInv

\* No step of Raft's loop, of Start or of StartSnapshot leaves the invariant.
LEMMA RaftInv ==
  ASSUME IInv, LoopStep \/ (\E n \in 1 .. MaxCommit : Commit(n) \/ StartSnapshot(n))
                 \/ (\E h \in Handler : StartCalled(h) \/ StartAsks(h) \/ StartAppends(h))
  PROVE IInv'
<1> USE LocksAssumption DEF IInv, TypeOK, InHand, raftVars, serviceVars
<1>1. CASE LoopHead
  BY <1>1 DEF LoopHead
<1>2. CASE LoopSelect
  BY <1>2 DEF LoopSelect
<1>3. CASE LoopLocks
  BY <1>3 DEF LoopLocks
<1>4. CASE LoopSends
  BY <1>4 DEF LoopSends
<1>5. CASE \E n \in 1 .. MaxCommit : Commit(n)
  BY <1>5 DEF Commit
<1>6. CASE \E n \in 1 .. MaxCommit : StartSnapshot(n)
  BY <1>6 DEF StartSnapshot
<1>7. CASE \E h \in Handler : StartCalled(h)
  BY <1>7 DEF StartCalled
<1>8. CASE \E h \in Handler : StartAsks(h)
  BY <1>8 DEF StartAsks
<1>9. CASE \E h \in Handler : StartAppends(h)
  BY <1>9 DEF StartAppends
<1> QED
  BY <1>1, <1>2, <1>3, <1>4, <1>5, <1>6, <1>7, <1>8, <1>9 DEF LoopStep

\* Neither does a step of the service or of Kill.
LEMMA ServiceInv ==
  ASSUME IInv, ServiceStep \/ Kill \/ KillRaft \/ KillStops
  PROVE IInv'
<1> USE LocksAssumption DEF IInv, TypeOK, InHand, raftVars, serviceVars
<1>1. CASE ServiceHead
  BY <1>1 DEF ServiceHead
<1>2. CASE ServiceTakesSnapshot
  <2>1. handing' \in BOOLEAN
    BY <1>2, Zenon DEF ServiceTakesSnapshot
  <2>2. msg' \in 0 .. LastApplied'
    BY <1>2 DEF ServiceTakesSnapshot
  <2>3. TypeOK'
    BY <1>2, <2>1, <2>2, Zenon DEF ServiceTakesSnapshot
  <2>4. InHand'
    BY <1>2 DEF ServiceTakesSnapshot
  <2> QED
    BY <2>3, <2>4
<1>3. CASE ServiceApplies
  BY <1>3 DEF ServiceApplies
<1>4. CASE Kill
  BY <1>4 DEF Kill
<1>5. CASE KillRaft
  BY <1>5 DEF KillRaft
<1>6. CASE KillStops
  BY <1>6 DEF KillStops
<1> QED
  BY <1>1, <1>2, <1>3, <1>4, <1>5, <1>6 DEF ServiceStep

\* Hence no step of the server does, a step of others included.
LEMMA StepInv == IInv /\ [Next]_vars => IInv'
<1> SUFFICES ASSUME IInv, [Next]_vars PROVE IInv'
  OBVIOUS
<1>1. CASE Next
  BY <1>1, RaftInv, ServiceInv DEF Next
<1>2. CASE UNCHANGED vars
  BY <1>2 DEF IInv, TypeOK, InHand, vars, raftVars, serviceVars
<1> QED
  BY <1>1, <1>2

-----------------------------------------------------------------------------
\* The variables of the goroutines keep their types, and neither Raft nor the
\* service is ever ahead of the commit index, for any number of handlers.
THEOREM LocksTypeCorrect == Spec => []TypeOK
<1>1. IInv => TypeOK
  BY DEF IInv
<1> QED
  BY <1>1, InitInv, StepInv, PTL DEF Spec

\* Only ServiceApplies changes what is applied, and what it has in hand is the
\* next command.
LEMMA StepInOrder ==
  ASSUME IInv, [Next]_vars, applied' # applied
  PROVE applied' = applied + 1
<1>1. ServiceApplies
  BY DEF Next, LoopStep, ServiceStep, vars, raftVars, serviceVars, LoopHead, LoopSelect,
         LoopLocks, LoopSends, Commit, StartSnapshot, StartCalled, StartAsks,
         StartAppends, ServiceHead, ServiceTakesSnapshot, Kill, KillRaft, KillStops
<1> QED
  BY <1>1 DEF ServiceApplies, IInv, InHand, TypeOK

\* The service applies the commands Raft sends one by one and skips none, however
\* the loops of raft.go and server.go, Kill and the snapshots are interleaved.
THEOREM CommandsInOrder == Spec => InOrder
<1>1. IInv /\ [Next]_vars => [applied' # applied => applied' = applied + 1]_applied
  BY StepInOrder
<1> QED
  BY <1>1, InitInv, StepInv, PTL DEF Spec, InOrder
=============================================================================
