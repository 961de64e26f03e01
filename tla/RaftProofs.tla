----------------------------- MODULE RaftProofs -----------------------------
(***************************************************************************)
(* What holds of Raft for every cluster, every set of commands and every   *)
(* value of the bounds.                                                    *)
(***************************************************************************)
EXTENDS RaftServerProofs, RaftHandlerProofs

USE DEF At

-----------------------------------------------------------------------------
\* The callers, once their call has returned.

\* Stepping down on a higher term.
LEMMA StepDownType ==
  ASSUME IInv, NEW s \in Server, NEW term \in Nat, StepDown(s, term)
  PROVE  /\ State' \in [Server -> {"Follower", "Candidate", "Leader"}]
         /\ CurrentTerm' \in [Server -> Nat]
         /\ VotedFor' \in [Server -> Server \cup {Nil}]
         /\ Log' = Log
         /\ disk' \in [Server -> Stable]
         /\ \A t \in Server : Contiguous(disk'[t].Log, Base(disk'[t].Log))
         /\ Durable'
<1>1. /\ State' \in [Server -> {"Follower", "Candidate", "Leader"}]
      /\ CurrentTerm' \in [Server -> Nat]
      /\ VotedFor' \in [Server -> Server \cup {Nil}]
      /\ Log' = Log
      /\ \A t \in Server \ {s} : CurrentTerm'[t] = CurrentTerm[t] /\ VotedFor'[t] = VotedFor[t]
      /\ persist(s)
  BY DEF StepDown, IInv, TypeOK
<1> QED BY <1>1, PersistSameLog

\* The part all three have in common: either the server steps down, or nothing
\* durable changes, and the reply is consumed.
LEMMA ReturnType ==
  ASSUME IInv, NEW m \in net, NEW s \in Server, NEW term \in Nat, Consume(m),
         StepDown(s, term) \/ UNCHANGED <<State, CurrentTerm, VotedFor, Log, disk>>
  PROVE  /\ State' \in [Server -> {"Follower", "Candidate", "Leader"}]
         /\ CurrentTerm' \in [Server -> Nat]
         /\ VotedFor' \in [Server -> Server \cup {Nil}]
         /\ Log' = Log
         /\ disk' \in [Server -> Stable]
         /\ net' \subseteq Message
         /\ LogContiguous'
         /\ Durable'
<1>1. net' \subseteq net /\ net \subseteq Message
  BY DEF Consume, IInv, TypeOK
<1>2. CASE StepDown(s, term)
  <2>1. /\ Log' = Log
        /\ \A t \in Server : Contiguous(disk'[t].Log, Base(disk'[t].Log))
    BY <1>2, StepDownType
  <2>2. LogContiguous'
    BY <1>1, <2>1 DEF IInv, LogContiguous
  <2> QED BY <1>1, <1>2, <2>2, StepDownType
<1>3. CASE UNCHANGED <<State, CurrentTerm, VotedFor, Log, disk>>
  <2>1. LogContiguous' /\ Durable'
    BY <1>1, <1>3, SameLogs DEF IInv
  <2> QED BY <1>1, <1>3, <2>1 DEF IInv, TypeOK
<1> QED BY <1>2, <1>3

\* What the callers of RPCs do with a reply keeps the invariant.
LEMMA ReturnStepIInv ==
  ASSUME IInv, NEW m \in net, m.kind \notin Requests, Alive(m.caller), ReturnStep(m)
  PROVE  IInv'
<1> USE DEF serverVars, logVars, leaderVars, loopVars, diskVars, serviceVars
<1> DEFINE s == m.caller
           d == m.dst
<1>1. TypeOK /\ LogContiguous /\ Durable
  BY DEF IInv
<1>2. CASE RequestVoteReturns(m)
  <2>1. m \in VoteReply
    BY <1>1, <1>2, MessageKinds DEF RequestVoteReturns, TypeOK
  <2>2. s \in Server /\ m.Term \in Nat
    BY <2>1 DEF VoteReply
  <2>3. /\ Consume(m)
        /\ StepDown(s, m.Term) \/ UNCHANGED <<State, CurrentTerm, VotedFor, Log, disk>>
    BY <1>2 DEF RequestVoteReturns
  <2>4. Votes' \in [Server -> Nat]
    <3>1. /\ Votes \in [Server -> Nat]
          /\ \/ Votes' = [Votes EXCEPT ![s] = @ + 1]
             \/ Votes' = [Votes EXCEPT ![s] = @]
      BY <1>1, <1>2, ZenonT(30) DEF RequestVoteReturns, TypeOK
    <3> HIDE DEF s
    <3> QED BY <2>2, <3>1
  <2>5. TypeOK' /\ LogContiguous' /\ Durable'
    BY <1>1, <1>2, <2>2, <2>3, <2>4, ReturnType, ZenonT(30) DEF RequestVoteReturns, TypeOK
  <2> QED BY <2>5 DEF IInv
<1>3. CASE AppendEntriesReturns(m)
  <2>1. m \in AppendReply
    BY <1>1, <1>3, MessageKinds, ZenonT(30) DEF AppendEntriesReturns, TypeOK
  <2>2. /\ s \in Server /\ d \in Server /\ m.Term \in Nat
        /\ m.PrevLogIndex \in Nat /\ m.sent \in Nat /\ m.NextIndex \in Nat
    BY <2>1 DEF AppendReply
  <2>3. /\ Consume(m)
        /\ StepDown(s, m.Term) \/ UNCHANGED <<State, CurrentTerm, VotedFor, Log, disk>>
    BY <1>3 DEF AppendEntriesReturns
  <2>4. \/ UNCHANGED leaderVars
        \/ \E next \in Nat : /\ NextIndex' = [NextIndex EXCEPT ![s][d] = next]
                             /\ \/ MatchIndex' = MatchIndex
                                \/ /\ next - 1 \in Nat
                                   /\ MatchIndex' = [MatchIndex EXCEPT ![s][d] = next - 1]
    <3> DEFINE tmp == getIndexBeforeTerm(Log[s], m.PrevLogIndex)
               acked == m.PrevLogIndex + m.sent + 1
               next == IF NextIndex[s][d] < acked THEN acked ELSE NextIndex[s][d]
               back == IF tmp < m.NextIndex THEN tmp ELSE m.NextIndex
    <3>1. Base(Log[s]) \in Nat
      BY <2>2, RunningLog
    <3>2. tmp \in Nat
      BY <2>2, <3>1, IndexBeforeTerm
    <3>3. NextIndex[s][d] \in Nat
      <4>1. NextIndex \in [Server -> [Server -> Nat]]
        BY <1>1 DEF TypeOK
      <4> HIDE DEF s, d
      <4> QED BY <2>2, <4>1
    <3>4. next \in Nat /\ next - 1 \in Nat
      BY <2>2, <3>3
    <3> HIDE DEF tmp
    <3>5. back \in Nat
      BY <2>2, <3>2
    <3> HIDE DEF next, back
    <3>6. \/ UNCHANGED leaderVars
          \/ /\ NextIndex' = [NextIndex EXCEPT ![s][d] = next]
             /\ MatchIndex' = [MatchIndex EXCEPT ![s][d] = next - 1]
          \/ /\ NextIndex' = [NextIndex EXCEPT ![s][d] = back]
             /\ MatchIndex' = MatchIndex
      BY <1>3, ZenonT(30) DEF AppendEntriesReturns, next, back, tmp
    <3> QED BY <3>4, <3>5, <3>6, ZenonT(30)
  <2>5. /\ NextIndex' \in [Server -> [Server -> Nat]]
        /\ MatchIndex' \in [Server -> [Server -> Nat]]
    <3>1. /\ NextIndex \in [Server -> [Server -> Nat]]
          /\ MatchIndex \in [Server -> [Server -> Nat]]
      BY <1>1 DEF TypeOK
    <3> HIDE DEF s, d
    <3>2. \A v \in Nat : /\ [NextIndex EXCEPT ![s][d] = v] \in [Server -> [Server -> Nat]]
                         /\ [MatchIndex EXCEPT ![s][d] = v] \in [Server -> [Server -> Nat]]
      BY <2>2, <3>1, MatrixUpdate
    <3>3. CASE UNCHANGED leaderVars
      BY <3>1, <3>3
    <3>4. ASSUME NEW next \in Nat,
                 NextIndex' = [NextIndex EXCEPT ![s][d] = next],
                 \/ MatchIndex' = MatchIndex
                 \/ /\ next - 1 \in Nat
                    /\ MatchIndex' = [MatchIndex EXCEPT ![s][d] = next - 1]
          PROVE  /\ NextIndex' \in [Server -> [Server -> Nat]]
                 /\ MatchIndex' \in [Server -> [Server -> Nat]]
      <4>1. NextIndex' \in [Server -> [Server -> Nat]]
        BY <3>2, <3>4, Zenon
      <4>2. MatchIndex' \in [Server -> [Server -> Nat]]
        <5>1. CASE MatchIndex' = MatchIndex
          BY <3>1, <5>1, Zenon
        <5>2. CASE /\ next - 1 \in Nat
                   /\ MatchIndex' = [MatchIndex EXCEPT ![s][d] = next - 1]
          BY <3>2, <5>2, Zenon
        <5> QED BY <3>4, <5>1, <5>2, Zenon
      <4> QED BY <4>1, <4>2
    <3> QED BY <2>4, <3>3, <3>4
  <2>6. TypeOK' /\ LogContiguous' /\ Durable'
    BY <1>1, <1>3, <2>2, <2>3, <2>5, ReturnType, ZenonT(30) DEF AppendEntriesReturns, TypeOK
  <2> QED BY <2>6 DEF IInv
<1>4. CASE InstallSnapshotReturns(m)
  <2>1. m \in SnapshotReply
    BY <1>1, <1>4, MessageKinds DEF InstallSnapshotReturns, TypeOK
  <2>2. s \in Server /\ d \in Server /\ m.Term \in Nat /\ m.last \in Nat
    BY <2>1 DEF SnapshotReply
  <2>3. /\ Consume(m)
        /\ StepDown(s, m.Term) \/ UNCHANGED <<State, CurrentTerm, VotedFor, Log, disk>>
    BY <1>4 DEF InstallSnapshotReturns
  <2>4. \/ UNCHANGED leaderVars
        \/ /\ NextIndex' = [NextIndex EXCEPT ![s][d] = m.last + 1]
           /\ MatchIndex' = [MatchIndex EXCEPT ![s][d] = m.last]
    BY <1>4 DEF InstallSnapshotReturns
  <2>5. /\ NextIndex' \in [Server -> [Server -> Nat]]
        /\ MatchIndex' \in [Server -> [Server -> Nat]]
    <3>1. /\ NextIndex \in [Server -> [Server -> Nat]]
          /\ MatchIndex \in [Server -> [Server -> Nat]]
      BY <1>1 DEF TypeOK
    <3> HIDE DEF s, d
    <3>2. \A v \in Nat : /\ [NextIndex EXCEPT ![s][d] = v] \in [Server -> [Server -> Nat]]
                         /\ [MatchIndex EXCEPT ![s][d] = v] \in [Server -> [Server -> Nat]]
      BY <2>2, <3>1, MatrixUpdate
    <3>3. CASE UNCHANGED leaderVars
      BY <3>1, <3>3
    <3>4. CASE /\ NextIndex' = [NextIndex EXCEPT ![s][d] = m.last + 1]
               /\ MatchIndex' = [MatchIndex EXCEPT ![s][d] = m.last]
      <4>1. m.last + 1 \in Nat
        BY <2>2
      <4> QED BY <2>2, <3>2, <3>4, <4>1, Zenon
    <3> QED BY <2>4, <3>3, <3>4
  <2>6. TypeOK' /\ LogContiguous' /\ Durable'
    BY <1>1, <1>4, <2>2, <2>3, <2>5, ReturnType, ZenonT(30) DEF InstallSnapshotReturns, TypeOK
  <2> QED BY <2>6 DEF IInv
<1> QED BY <1>2, <1>3, <1>4 DEF ReturnStep

-----------------------------------------------------------------------------
\* The theorems.

\* Every step of every behaviour preserves the invariant.
LEMMA NextIInv == IInv /\ [Next]_vars => IInv'
<1> SUFFICES ASSUME IInv, [Next]_vars PROVE IInv'
  OBVIOUS
<1>1. ASSUME NEW s \in Server, Alive(s), ServerStep(s)
      PROVE  IInv'
  BY <1>1, ServerStepIInv
<1>2. ASSUME NEW m \in net, Alive(m.dst), HandlerStep(m)
      PROVE  IInv'
  BY <1>2, RequestVoteIInv, AppendEntriesRefusedIInv, AppendEntriesAcceptedIInv,
     InstallSnapshotIInv DEF HandlerStep
<1>3. ASSUME NEW m \in net, m.kind \notin Requests, Alive(m.caller), ReturnStep(m)
      PROVE  IInv'
  BY <1>3, ReturnStepIInv
<1>4. ASSUME NEW m \in net, Lose(m)
      PROVE  IInv'
  BY <1>4, SameLogs, ZenonT(30) DEF Lose, Consume, TypeOK, IInv, serverVars, logVars, leaderVars,
                        loopVars, diskVars, serviceVars
<1>5. CASE UNCHANGED vars
  BY <1>5, StutterIInv
<1> QED BY <1>1, <1>2, <1>3, <1>4, <1>5 DEF Next

\* The invariant holds in every reachable state.
LEMMA Invariance == Spec => []IInv
<1>1. Init => IInv
  BY InitIInv
<1>2. IInv /\ [Next]_vars => IInv'
  BY NextIInv
<1> QED BY <1>1, <1>2, PTL DEF Spec

\* Every variable of raft.go's servers keeps its type: in particular no index
\* computed from a log, sent in a request or answered to one is ever negative.
THEOREM TypeCorrect == Spec => []TypeOK
BY Invariance, PTL DEF IInv

\* Entry i of every log, in memory, on disk and in a request, has the index
\* calculateLocalIndex expects there, whatever is appended, cut, spliced, trimmed
\* by a snapshot or read back after a crash.
THEOREM LogsContiguous == Spec => []LogContiguous
BY Invariance, PTL DEF IInv

\* persist() is called on every path that changes the term or the log.
THEOREM DiskUpToDate == Spec => []Durable
BY Invariance, PTL DEF IInv
=============================================================================
