-------------------------- MODULE RaftSafetyProofs --------------------------
(***************************************************************************)
(* What follows from the invariant for the steps of Raft.                  *)
(***************************************************************************)
EXTENDS RaftProofs

USE DEF At

-----------------------------------------------------------------------------
\* Terms.

\* No step of a server, a handler or a caller lowers a term.  A restart does not
\* because the term is on the disk.
LEMMA TermStep ==
  ASSUME IInv, [Next]_vars, NEW t \in Server
  PROVE  CurrentTerm'[t] >= CurrentTerm[t]
<1> USE DEF serverVars, logVars, leaderVars, loopVars, diskVars, serviceVars
<1>1. CurrentTerm \in [Server -> Nat] /\ net \subseteq Message
  BY DEF IInv, TypeOK
<1>2. CASE CurrentTerm' = CurrentTerm
  BY <1>1, <1>2
<1>3. ASSUME NEW s \in Server, NEW term \in Nat, term >= CurrentTerm[s],
             CurrentTerm' = [CurrentTerm EXCEPT ![s] = term]
      PROVE  CurrentTerm'[t] >= CurrentTerm[t]
  BY <1>1, <1>3
<1>4. ASSUME NEW s \in Server, Alive(s), ServerStep(s), CurrentTerm' # CurrentTerm
      PROVE  CurrentTerm'[t] >= CurrentTerm[t]
  <2>1. CASE updateBeforeRequestVote(s)
    <3>1. /\ CurrentTerm[s] + 1 \in Nat
          /\ CurrentTerm[s] + 1 >= CurrentTerm[s]
          /\ CurrentTerm' = [CurrentTerm EXCEPT ![s] = CurrentTerm[s] + 1]
      BY <1>1, <2>1 DEF updateBeforeRequestVote
    <3> QED BY <1>3, <3>1, ZenonT(30)
  <2>2. CASE Restart(s)
    <3>1. CurrentTerm' = [CurrentTerm EXCEPT ![s] = CurrentTerm[s]]
      BY <2>2, ZenonT(30) DEF Restart, MakeFrom, IInv, Durable
    <3> QED BY <1>1, <3>1
  <2>3. ASSUME NEW i \in pending[s], CrashInStartSnapshot(s, i)
        PROVE  CurrentTerm'[t] >= CurrentTerm[t]
    BY <1>1, <2>3 DEF CrashInStartSnapshot, MakeFrom
  <2>4. CASE LoopStep(s) /\ ~updateBeforeRequestVote(s)
    BY <1>4, <2>4, ZenonT(30) DEF LoopStep, Apply, ReadState, FollowerHears, updateToFollower, Timeout,
                      FillArgs, broadcastRequestVote, testLeader, checkCommitIndex
  <2> QED
    BY <1>4, <2>1, <2>2, <2>3, <2>4, ZenonT(30)
       DEF ServerStep, SendRequestVote, SendAppendEntries, SendInstallSnapshot, StartAsks,
           StartAppends, StartSnapshot, ServiceReceives
<1>5. ASSUME NEW m \in net, Alive(m.dst), HandlerStep(m), CurrentTerm' # CurrentTerm
      PROVE  CurrentTerm'[t] >= CurrentTerm[t]
  <2>1. m.dst \in Server
    BY <1>1, MessageDst
  <2>2. CASE RequestVote(m)
    <3>1. m.Term \in Nat
      BY <1>1, <2>2, MessageKinds DEF RequestVote, VoteRequest
    <3>2. CurrentTerm' = [CurrentTerm EXCEPT ![m.dst] =
                            IF m.Term > CurrentTerm[m.dst] THEN m.Term ELSE @]
      BY <2>2 DEF RequestVote
    <3> QED BY <1>1, <2>1, <3>1, <3>2
  <2>3. CASE AppendEntriesAccepted(m)
    <3>1. m.Term \in Nat
      BY <1>1, <2>3, MessageKinds DEF AppendEntriesAccepted, AppendRequest
    <3>2. m.Term >= CurrentTerm[m.dst] /\ CurrentTerm' = [CurrentTerm EXCEPT ![m.dst] = m.Term]
      BY <1>1, <2>1, <2>3, <3>1 DEF AppendEntriesAccepted, OldTerm
    <3> QED BY <1>3, <2>1, <3>1, <3>2, ZenonT(30)
  <2>4. CASE CrashInInstallSnapshot(m)
    <3>1. CurrentTerm' = [CurrentTerm EXCEPT ![m.dst] = CurrentTerm[m.dst]]
      BY <2>1, <2>4, ZenonT(30) DEF CrashInInstallSnapshot, MakeFrom, IInv, Durable
    <3> QED BY <1>1, <3>1
  <2> QED
    BY <1>5, <2>2, <2>3, <2>4, ZenonT(30)
       DEF HandlerStep, AppendEntriesRefused, InstallSnapshotRefused, InstallSnapshotAccepted
<1>6. ASSUME NEW m \in net, m.kind \notin Requests, ReturnStep(m), CurrentTerm' # CurrentTerm
      PROVE  CurrentTerm'[t] >= CurrentTerm[t]
  <2>1. m.caller \in Server /\ m.Term \in Nat
    BY <1>1, <1>6, MessageKinds, ZenonT(30) DEF ReturnStep, RequestVoteReturns, AppendEntriesReturns,
         InstallSnapshotReturns, VoteReply, AppendReply, SnapshotReply
  <2>2. m.Term > CurrentTerm[m.caller] /\ StepDown(m.caller, m.Term)
    BY <1>6, ZenonT(30) DEF ReturnStep, RequestVoteReturns, AppendEntriesReturns, InstallSnapshotReturns
  <2>3. m.Term >= CurrentTerm[m.caller]
        /\ CurrentTerm' = [CurrentTerm EXCEPT ![m.caller] = m.Term]
    BY <1>1, <2>1, <2>2 DEF StepDown
  <2> QED BY <1>3, <2>1, <2>3, ZenonT(30)
<1>7. ASSUME NEW m \in net, Lose(m)
      PROVE  CurrentTerm' = CurrentTerm
  BY <1>7 DEF Lose
<1>8. CASE UNCHANGED vars
  BY <1>2, <1>8 DEF vars
<1> QED
  BY <1>2, <1>4, <1>5, <1>6, <1>7, <1>8 DEF Next

\* The term of a server never goes down, whoever sends what in which order and
\* wherever it crashes.
THEOREM TermsMonotonic == Spec => TermMonotonic
<1>1. IInv /\ [Next]_vars => [\A s \in Server : CurrentTerm'[s] >= CurrentTerm[s]]_vars
  BY TermStep
<1> QED BY <1>1, Invariance, PTL DEF Spec, TermMonotonic

-----------------------------------------------------------------------------
\* Refused requests.

\* A leader that handles a refusal sets NextIndex to the start of the term it was refused at.
LEMMA RetryStep ==
  ASSUME IInv, NEW s \in Server, NEW d \in Server, NEW m \in net, HandlesRefusal(s, d, m)
  PROVE  NextIndex'[s][d] <= m.PrevLogIndex
<1>1. /\ NextIndex \in [Server -> [Server -> Nat]]
      /\ net \subseteq Message
  BY ZenonT(30) DEF IInv, TypeOK
<1>2. /\ m.caller = s /\ m.dst = d /\ ~m.Success
      /\ m.kind = "AppendEntriesReply"
      /\ State'[s] = "Leader"
  BY ZenonT(30) DEF HandlesRefusal, AppendEntriesReturns
<1>3. m \in AppendReply
  BY <1>1, <1>2, MessageKinds
<1> DEFINE tmp == getIndexBeforeTerm(Log[s], m.PrevLogIndex)
<1>4. State \in [Server -> {"Follower", "Candidate", "Leader"}]
  BY ZenonT(30) DEF IInv, TypeOK
<1>5. NextIndex' = [NextIndex EXCEPT ![s][d] = IF tmp < m.NextIndex THEN tmp ELSE m.NextIndex]
  <2>1. ~StepDown(s, m.Term)
    BY <1>2, <1>4 DEF StepDown
  <2> QED BY <1>2, <2>1, ZenonT(30) DEF HandlesRefusal, AppendEntriesReturns
<1>6. m.PrevLogIndex \in Nat /\ m.NextIndex \in Nat
  BY <1>3 DEF AppendReply
<1>7. tmp \in Nat /\ tmp <= m.PrevLogIndex
  BY <1>6, RunningLog, IndexBeforeTerm, ZenonT(30) DEF HandlesRefusal
<1> HIDE DEF tmp
<1>8. NextIndex'[s][d] = IF tmp < m.NextIndex THEN tmp ELSE m.NextIndex
  BY <1>1, <1>5
<1> QED BY <1>6, <1>7, <1>8

\* Each refusal moves the retry loop of broadcastAppendEntries strictly back, for
\* any pair of logs.
THEOREM RetriesBackOff == Spec => RetryBacksOff
<1>1. IInv /\ [Next]_vars =>
        [\A s, d \in Server, m \in net \ net' :
           HandlesRefusal(s, d, m) => NextIndex'[s][d] <= m.PrevLogIndex]_vars
  BY RetryStep
<1> QED BY <1>1, Invariance, PTL DEF Spec, RetryBacksOff

-----------------------------------------------------------------------------
\* The commit index.

\* A step lowers a commit index only in the three ways CommitIndexAdvances allows.
LEMMA CommitStep ==
  ASSUME IInv, [Next]_vars, NEW t \in Server, CommitIndex'[t] < CommitIndex[t]
  PROVE  \/ crashes' > crashes
         \/ \E m \in net \ net' : m.kind = "InstallSnapshot" /\ m.dst = t
         \/ getLastCommandIndex(Log'[t]) < CommitIndex[t]
<1> USE DEF serverVars, logVars, leaderVars, loopVars, diskVars, serviceVars
<1>1. /\ CommitIndex \in [Server -> Nat]
      /\ MatchIndex \in [Server -> [Server -> Nat]]
      /\ crashes \in Nat
      /\ net \subseteq Message
  BY DEF IInv, TypeOK
<1>2. CommitIndex' # CommitIndex
  BY <1>1
<1>3. ASSUME NEW r, NEW dsk, NEW snap, NEW rpcs, MakeFrom(r, dsk, snap, rpcs)
      PROVE  crashes' > crashes
  BY <1>1, <1>3 DEF MakeFrom
<1>4. ASSUME NEW s \in Server, Alive(s), ServerStep(s)
      PROVE  crashes' > crashes
  <2>1. CASE checkCommitIndex(s)
    <3>1. PICK c \in {MatchIndex[s][p] : p \in Server} :
            CommitIndex' = [CommitIndex EXCEPT ![s] =
              IF /\ c > @
                 /\ At(Log[s], calculateLocalIndex(Log[s], c)).CommandTerm = CurrentTerm[s]
                THEN c ELSE @]
      BY <2>1, ZenonT(30) DEF checkCommitIndex
    <3>2. c \in Nat
      BY <1>1
    <3>3. CommitIndex'[t] >= CommitIndex[t]
      BY <1>1, <3>1, <3>2
    <3> QED BY <1>1, <3>1, <3>2, <3>3
  <2>2. CASE Restart(s)
    BY <1>3, <2>2 DEF Restart
  <2>3. ASSUME NEW i \in pending[s], CrashInStartSnapshot(s, i)
        PROVE  crashes' > crashes
    BY <1>3, <2>3 DEF CrashInStartSnapshot
  <2>4. CASE LoopStep(s) /\ ~checkCommitIndex(s)
    BY <1>2, <2>4, ZenonT(30) DEF LoopStep, Apply, ReadState, FollowerHears, updateToFollower, Timeout,
                      updateBeforeRequestVote, FillArgs, broadcastRequestVote, testLeader
  <2> QED
    BY <1>2, <1>4, <2>1, <2>2, <2>3, <2>4, ZenonT(30)
       DEF ServerStep, SendRequestVote, SendAppendEntries, SendInstallSnapshot, StartAsks,
           StartAppends, StartSnapshot, ServiceReceives
<1>5. ASSUME NEW m \in net, Alive(m.dst), HandlerStep(m)
      PROVE  \/ crashes' > crashes
             \/ \E n \in net \ net' : n.kind = "InstallSnapshot" /\ n.dst = t
             \/ getLastCommandIndex(Log'[t]) < CommitIndex[t]
  <2>1. m.dst \in Server
    BY <1>1, MessageDst
  <2>2. CASE CrashInInstallSnapshot(m)
    BY <1>3, <2>2 DEF CrashInInstallSnapshot
  <2>3. CASE InstallSnapshotAccepted(m)
    <3>1. t = m.dst
      <4>1. CommitIndex' = [CommitIndex EXCEPT ![m.dst] = m.LastSnapshotCommand.CommandIndex]
        BY <2>3, ZenonT(30) DEF InstallSnapshotAccepted
      <4> QED BY <1>1, <2>1, <4>1
    <3>2. m \notin net'
      <4>1. Reply(m, SnapshotAnswer(m, TRUE, 0)) /\ m.kind = "InstallSnapshot"
        BY <2>3, ZenonT(30) DEF InstallSnapshotAccepted
      <4>2. m # SnapshotAnswer(m, TRUE, 0)
        BY <4>1 DEF SnapshotAnswer
      <4> QED BY <4>1, <4>2, ZenonT(30) DEF Reply
    <3> QED BY <2>3, <3>1, <3>2 DEF InstallSnapshotAccepted
  <2>4. CASE AppendEntriesAccepted(m)
    <3> DEFINE last == getLastCommandIndex(Log'[m.dst])
    <3>1. m.LeaderCommit \in Nat
      BY <1>1, <2>4, MessageKinds DEF AppendEntriesAccepted, AppendRequest
    <3>2. CommitIndex' = [CommitIndex EXCEPT ![m.dst] = NewCommitIndex(@, m.LeaderCommit, last)]
      BY <2>4 DEF AppendEntriesAccepted
    <3> HIDE DEF last
    <3>3. t = m.dst /\ NewCommitIndex(CommitIndex[t], m.LeaderCommit, last) < CommitIndex[t]
      BY <1>1, <2>1, <3>2
    <3>4. last < CommitIndex[t]
      BY <1>1, <3>1, <3>3 DEF NewCommitIndex
    <3> QED BY <3>3, <3>4 DEF last
  <2> QED
    BY <1>2, <1>5, <2>2, <2>3, <2>4, ZenonT(30)
       DEF HandlerStep, RequestVote, AppendEntriesRefused, InstallSnapshotRefused
<1>6. ASSUME NEW m \in net, ReturnStep(m) \/ Lose(m)
      PROVE  FALSE
  BY <1>2, <1>6, ZenonT(30) DEF ReturnStep, RequestVoteReturns, AppendEntriesReturns,
                    InstallSnapshotReturns, Lose
<1>7. CASE UNCHANGED vars
  BY <1>2, <1>7 DEF vars
<1> QED
  BY <1>4, <1>5, <1>6, <1>7 DEF Next

\* AppendEntries never takes a commit index back on account of a leader that
\* knows less: only a restart, a snapshot or a log cut below it can.
THEOREM CommitIndicesAdvance == Spec => CommitIndexAdvances
<1>1. IInv /\ [Next]_vars =>
        [\A s \in Server :
           CommitIndex'[s] < CommitIndex[s] =>
             \/ crashes' > crashes
             \/ \E m \in net \ net' : m.kind = "InstallSnapshot" /\ m.dst = s
             \/ getLastCommandIndex(Log'[s]) < CommitIndex[s]]_vars
  BY CommitStep
<1> QED BY <1>1, Invariance, PTL DEF Spec, CommitIndexAdvances
=============================================================================
