------------------------- MODULE RaftSnapshotProofs -------------------------
(***************************************************************************)
(* What follows from the invariant for the snapshot on a disk that no crash*)
(* has torn.                                                               *)
(***************************************************************************)
EXTENDS RaftProofs

USE DEF At

-----------------------------------------------------------------------------
\* Snapshots.

\* What is inductive about SnapshotCoversBase: it speaks of the log in memory,
\* and of the snapshots on their way to other servers as well.
SnapshotFits ==
  ~torn =>
    /\ \A s \in Server : Alive(s) => snapshot[s] = Base(Log[s])
    /\ \A m \in net :
         m.kind = "InstallSnapshot" => m.SnapshotData = m.LastSnapshotCommand.CommandIndex

\* Without a snapshot, logs begin at index 0.
LEMMA InitSnapshotFits == Init => SnapshotFits
<1> SUFFICES ASSUME Init PROVE SnapshotFits
  OBVIOUS
<1>1. /\ net = {}
      /\ snapshot = [s \in Server |-> 0]
      /\ \A s \in Server : Log[s] = <<ZeroEntry>>
  BY DEF Init, InitFrom, NoDisk
<1>2. Base(<<ZeroEntry>>) = 0
  BY DEF Base, ZeroEntry
<1> QED BY <1>1, <1>2 DEF SnapshotFits

\* A step after which the running servers ran before, from the same first entry
\* and with the same snapshot, and which sends no snapshot.
LEMMA SnapshotKept ==
  ASSUME SnapshotFits, torn' = torn,
         \A s \in Server : Log'[s] # <<>> => /\ Log[s] # <<>>
                                             /\ Base(Log'[s]) = Base(Log[s])
                                             /\ snapshot'[s] = snapshot[s],
         \A m \in net' : m.kind = "InstallSnapshot" => m \in net
  PROVE  SnapshotFits'
BY DEF SnapshotFits, Alive

\* A step of a server keeps log and snapshot together, StartSnapshot and restarts included.
LEMMA ServerStepSnapshot ==
  ASSUME IInv, SnapshotFits, NEW s \in Server, Alive(s), ServerStep(s)
  PROVE  SnapshotFits'
<1> USE DEF serverVars, logVars, leaderVars, loopVars, diskVars, serviceVars
<1>1. /\ Log \in [Server -> Seq(Entry)]
      /\ snapshot \in [Server -> Nat]
      /\ net \subseteq Message
  BY DEF IInv, TypeOK
<1>2. CASE LoopStep(s)
  <2>1. torn' = torn /\ Log' = Log /\ snapshot' = snapshot /\ net' = net
    BY <1>2, ZenonT(30) DEF LoopStep, Apply, ReadState, FollowerHears, updateToFollower, Timeout,
                updateBeforeRequestVote, FillArgs, broadcastRequestVote, testLeader,
                checkCommitIndex
  <2> QED BY <2>1, SnapshotKept
<1>3. ASSUME NEW d \in Server, SendRequestVote(s, d) \/ SendAppendEntries(s, d)
      PROVE  SnapshotFits'
  <2>1. torn' = torn /\ Log' = Log /\ snapshot' = snapshot
    BY <1>3 DEF SendRequestVote, SendAppendEntries
  <2>2. \A m \in net' : m.kind = "InstallSnapshot" => m \in net
    BY <1>3 DEF SendRequestVote, SendAppendEntries, Call
  <2> QED BY <2>1, <2>2, SnapshotKept
<1>4. ASSUME NEW d \in Server, SendInstallSnapshot(s, d)
      PROVE  SnapshotFits'
  <2>1. torn' = torn /\ Log' = Log /\ snapshot' = snapshot
    BY <1>4 DEF SendInstallSnapshot
  <2>2. ASSUME NEW m \in net', m \notin net
        PROVE  m.SnapshotData = snapshot[s] /\ m.LastSnapshotCommand = Log[s][1]
    BY <1>4, <2>2, SMTT(30) DEF SendInstallSnapshot, Call
  <2> QED BY <2>1, <2>2 DEF SnapshotFits, Alive, Base
<1>5. ASSUME NEW term \in starting[s], NEW v \in Value, StartAppends(s, term, v)
      PROVE  SnapshotFits'
  <2> DEFINE e == [CommandIndex |-> getLastCommandIndex(Log[s]) + 1,
                   CommandTerm |-> term, Command |-> v]
  <2>1. Log' = [Log EXCEPT ![s] = Append(Log[s], e)]
    BY <1>5 DEF StartAppends
  <2>2. torn' = torn /\ snapshot' = snapshot /\ net' = net
    BY <1>5 DEF StartAppends
  <2>3. Base(Append(Log[s], e)) = Base(Log[s])
    <3>1. Log[s] \in Seq(Entry) /\ 1 \in 1 .. Len(Log[s])
      BY <1>1, RunningLog
    <3>2. term \in Nat /\ getLastCommandIndex(Log[s]) \in Nat
      BY RunningLog, ZenonT(30) DEF IInv, TypeOK
    <3>3. e \in Entry
      BY <3>2, SMTT(30) DEF Entry
    <3> HIDE DEF e
    <3> QED BY <3>1, <3>3, AppendProperties DEF Base
  <2> HIDE DEF e
  <2>4. \A t \in Server : Log'[t] # <<>> => /\ Log[t] # <<>>
                                            /\ Base(Log'[t]) = Base(Log[t])
                                            /\ snapshot'[t] = snapshot[t]
    BY <1>1, <2>1, <2>2, <2>3 DEF Alive
  <2> QED BY <2>2, <2>4, SnapshotKept
<1>6. ASSUME NEW i \in pending[s], StartSnapshot(s, i)
      PROVE  SnapshotFits'
  <2>1. torn' = torn /\ net' = net
    BY <1>6 DEF StartSnapshot
  <2>2. CASE CanTrim(s, i)
    <3>1. Base(Trimmed(s, i)) = i
      BY <2>2, TrimmedIsLog
    <3>2. /\ Log' = [Log EXCEPT ![s] = Trimmed(s, i)]
          /\ snapshot' = [snapshot EXCEPT ![s] = i]
      BY <1>6, <2>2 DEF StartSnapshot
    <3>3. \A t \in Server :
            t = s \/ snapshot[t] = Base(Log[t]) => snapshot'[t] = Base(Log'[t])
      BY <1>1, <3>1, <3>2
    <3>4. \A t \in Server \ {s} : Log'[t] = Log[t]
      BY <1>1, <3>2
    <3> QED BY <2>1, <3>3, <3>4 DEF SnapshotFits, Alive
  <2>3. CASE ~CanTrim(s, i)
    <3>1. Log' = Log /\ snapshot' = snapshot
      BY <1>6, <2>3 DEF StartSnapshot
    <3> QED BY <2>1, <3>1, SnapshotKept
  <2> QED BY <2>2, <2>3
<1>7. ASSUME NEW i \in pending[s], CrashInStartSnapshot(s, i)
      PROVE  SnapshotFits'
  BY <1>7 DEF CrashInStartSnapshot, SnapshotFits
<1>8. CASE Restart(s)
  <2>1. /\ Log' = [Log EXCEPT ![s] = Log[s]]
        /\ snapshot' = [snapshot EXCEPT ![s] = snapshot[s]]
        /\ torn' = torn
        /\ net' = Orphan(s, net)
    BY <1>8, ZenonT(30) DEF Restart, MakeFrom, IInv, Durable
  <2>2. Log' = Log /\ snapshot' = snapshot
    BY <1>1, <2>1
  <2>3. ASSUME NEW n \in net', n.kind = "InstallSnapshot", ~torn
        PROVE  n.SnapshotData = n.LastSnapshotCommand.CommandIndex
    <3>1. PICK m \in net : n = IF m.caller = s THEN [m EXCEPT !.caller = Nil] ELSE m
      BY <2>1 DEF Orphan
    <3>2. m \in Message
      BY <1>1
    <3>3. n.kind = m.kind
      BY <3>1, <3>2 DEF Message, VoteRequest, VoteReply, AppendRequest, AppendReply,
                        SnapshotRequest, SnapshotReply
    <3>4. m \in SnapshotRequest
      BY <2>3, <3>2, <3>3, MessageKinds
    <3>5. n.SnapshotData = m.SnapshotData /\ n.LastSnapshotCommand = m.LastSnapshotCommand
      BY <3>1, <3>4 DEF SnapshotRequest
    <3> QED BY <2>3, <3>3, <3>5 DEF SnapshotFits
  <2> QED BY <2>1, <2>2, <2>3 DEF SnapshotFits, Alive
<1>9. CASE StartAsks(s) \/ \E i \in snapMsgs[s] : ServiceReceives(s, i)
  <2>1. torn' = torn /\ Log' = Log /\ snapshot' = snapshot /\ net' = net
    BY <1>9 DEF StartAsks, ServiceReceives
  <2> QED BY <2>1, SnapshotKept
<1> QED
  BY <1>2, <1>3, <1>4, <1>5, <1>6, <1>7, <1>8, <1>9 DEF ServerStep

\* A handler keeps log and snapshot together, InstallSnapshot included.
LEMMA HandlerStepSnapshot ==
  ASSUME IInv, SnapshotFits, NEW m \in net, Alive(m.dst), HandlerStep(m)
  PROVE  SnapshotFits'
<1> USE DEF serverVars, logVars, leaderVars, loopVars, diskVars, serviceVars
<1> DEFINE s == m.dst
<1>1. /\ Log \in [Server -> Seq(Entry)]
      /\ snapshot \in [Server -> Nat]
      /\ net \subseteq Message
  BY DEF IInv, TypeOK
<1>2. s \in Server
  BY <1>1, MessageDst
<1>3. ASSUME NEW r, Reply(m, r), r.kind # "InstallSnapshot"
      PROVE  \A n \in net' : n.kind = "InstallSnapshot" => n \in net
  BY <1>3 DEF Reply
<1>4. CASE RequestVote(m) \/ InstallSnapshotRefused(m)
  <2>1. torn' = torn /\ Log' = Log /\ snapshot' = snapshot
    BY <1>4, ZenonT(30) DEF RequestVote, InstallSnapshotRefused
  <2>2. \A n \in net' : n.kind = "InstallSnapshot" => n \in net
    BY <1>4, SMTT(30) DEF RequestVote, InstallSnapshotRefused, SnapshotAnswer, Reply
  <2> QED BY <2>1, <2>2, SnapshotKept
<1>5. CASE AppendEntriesRefused(m)
  <2>1. torn' = torn /\ snapshot' = snapshot
    BY <1>5 DEF AppendEntriesRefused
  <2>2. \A n \in net' : n.kind = "InstallSnapshot" => n \in net
    BY <1>5, SMTT(30) DEF AppendEntriesRefused, AppendAnswer, Reply
  <2>3. CASE Log' = Log
    BY <2>1, <2>2, <2>3, SnapshotKept
  <2>4. CASE Log' # Log
    <3> DEFINE k == calculateLocalIndex(Log[s], m.PrevLogIndex)
    <3>1. /\ ~TooShort(s, m)
          /\ Unmatched(s, m)
          /\ Log' = [Log EXCEPT ![s] = UpTo(Log[s], k)]
      <4>1. /\ ~TooShort(s, m)
            /\ Unmatched(s, m)
            /\ Log' = [Log EXCEPT ![s] = UpTo(@, calculateLocalIndex(@, m.PrevLogIndex))]
        BY <1>5, <2>4, ZenonT(30) DEF AppendEntriesRefused
      <4> HIDE DEF s
      <4> QED BY <1>1, <1>2, <4>1
    <3>2. m.PrevLogIndex \in Nat
      BY <1>1, <1>5, MessageKinds DEF AppendEntriesRefused, AppendRequest
    <3>3. /\ Log[s] \in Seq(Entry)
          /\ Len(Log[s]) \in Nat
          /\ Base(Log[s]) \in Nat
          /\ getLastCommandIndex(Log[s]) = Base(Log[s]) + Len(Log[s]) - 1
      BY <1>1, <1>2, RunningLog
    <3>4. k \in Nat /\ k \in 0 .. Len(Log[s])
      BY <3>1, <3>2, <3>3 DEF TooShort, Unmatched, calculateLocalIndex
    <3> HIDE DEF k
    <3>5. /\ UpTo(Log[s], k) \in Seq(Entry)
          /\ Len(UpTo(Log[s], k)) = k
          /\ \A i \in 1 .. k : UpTo(Log[s], k)[i] = Log[s][i]
      <4> HIDE DEF s
      <4>1. Log[s] \in Seq(Entry)
        BY <3>3
      <4> QED BY <3>4, <4>1, Slices
    <3>6. UpTo(Log[s], k) # <<>> => Base(UpTo(Log[s], k)) = Base(Log[s])
      <4> SUFFICES ASSUME UpTo(Log[s], k) # <<>> PROVE UpTo(Log[s], k)[1] = Log[s][1]
        BY DEF Base
      <4>1. k # 0
        BY <3>5, EmptySeq
      <4>2. 1 \in 1 .. k
        BY <3>4, <4>1
      <4> QED BY <3>5, <4>2
    <3>7. \A t \in Server : Log'[t] # <<>> => /\ Log[t] # <<>>
                                              /\ Base(Log'[t]) = Base(Log[t])
                                              /\ snapshot'[t] = snapshot[t]
      BY <1>1, <1>2, <2>1, <3>1, <3>6 DEF Alive
    <3> QED BY <2>1, <2>2, <3>7, SnapshotKept
  <2> QED BY <2>3, <2>4
<1>6. CASE AppendEntriesAccepted(m)
  <2>1. torn' = torn /\ snapshot' = snapshot
    BY <1>6 DEF AppendEntriesAccepted
  <2>2. \A n \in net' : n.kind = "InstallSnapshot" => n \in net
    BY <1>6 DEF AppendEntriesAccepted, AppendAnswer, Reply
  <2>3. CASE IsStale(s, m)
    <3>1. Log' = Log
      BY <1>6, <2>3 DEF AppendEntriesAccepted
    <3> QED BY <2>1, <2>2, <3>1, SnapshotKept
  <2>4. CASE ~IsStale(s, m)
    <3> DEFINE new == Spliced(Log[s], m.PrevLogIndex, m.Entries)
    <3>1. ~TooShort(s, m) /\ Log' = [Log EXCEPT ![s] = new]
      BY <1>1, <1>2, <1>6, <2>4 DEF AppendEntriesAccepted
    <3>2. m \in AppendRequest
      BY <1>1, <1>6, MessageKinds, ZenonT(30) DEF AppendEntriesAccepted
    <3>3. m.PrevLogIndex \in Nat /\ m.Entries \in Seq(Entry)
      BY <3>2 DEF AppendRequest
    <3>4. IsLog(Log[s], Entry) /\ getLastCommandIndex(Log[s]) \in Nat
      BY <1>2, RunningLog, ZenonT(30)
    <3>5. m.PrevLogIndex <= getLastCommandIndex(Log[s])
      BY <3>1, <3>3, <3>4 DEF TooShort
    <3>6. AreEntries(m.Entries, m.PrevLogIndex + 1, Entry)
      BY <1>6, <3>3, ZenonT(30) DEF IInv, LogContiguous, Contiguous, AreEntries, AppendEntriesAccepted
    <3>7. Base(new) = Base(Log[s])
      <4>1. ~ /\ m.PrevLogIndex + Len(m.Entries) <= getLastCommandIndex(Log[s])
              /\ testStaleRPC(Log[s], m.PrevLogIndex, m.PrevLogTerm, m.Entries)
        BY <2>4 DEF IsStale
      <4> HIDE DEF s
      <4> QED BY <3>3, <3>4, <3>5, <3>6, <4>1, EntryIsEntry, SplicedIsLog
    <3> HIDE DEF new
    <3>8. \A t \in Server : Log'[t] # <<>> => /\ Log[t] # <<>>
                                              /\ Base(Log'[t]) = Base(Log[t])
                                              /\ snapshot'[t] = snapshot[t]
      BY <1>1, <1>2, <2>1, <3>1, <3>7 DEF Alive
    <3> QED BY <2>1, <2>2, <3>8, SnapshotKept
  <2> QED BY <2>3, <2>4
<1>7. CASE InstallSnapshotAccepted(m)
  <2>1. /\ torn' = torn
        /\ Log' = [Log EXCEPT ![s] = <<m.LastSnapshotCommand>>]
        /\ snapshot' = [snapshot EXCEPT ![s] = m.SnapshotData]
        /\ m.kind = "InstallSnapshot"
    BY <1>7 DEF InstallSnapshotAccepted
  <2>2. \A n \in net' : n.kind = "InstallSnapshot" => n \in net
    <3>1. Reply(m, SnapshotAnswer(m, TRUE, 0))
      BY <1>7, ZenonT(30) DEF InstallSnapshotAccepted
    <3>2. SnapshotAnswer(m, TRUE, 0).kind # "InstallSnapshot"
      BY DEF SnapshotAnswer
    <3> QED BY <1>3, <3>1, <3>2, ZenonT(30)
  <2>3. ASSUME ~torn, NEW t \in Server, Log'[t] # <<>>
        PROVE  snapshot'[t] = Base(Log'[t])
    <3>1. CASE t = s
      BY <1>1, <1>2, <2>1, <2>3, <3>1 DEF SnapshotFits, Base
    <3>2. CASE t # s
      BY <1>1, <1>2, <2>1, <2>3, <3>2 DEF SnapshotFits, Alive
    <3> QED BY <3>1, <3>2
  <2> QED BY <2>1, <2>2, <2>3 DEF SnapshotFits, Alive
<1>8. CASE CrashInInstallSnapshot(m)
  BY <1>8 DEF CrashInInstallSnapshot, SnapshotFits
<1> QED
  BY <1>4, <1>5, <1>6, <1>7, <1>8 DEF HandlerStep

\* Every step keeps log and snapshot together.
LEMMA NextSnapshotFits == IInv /\ SnapshotFits /\ [Next]_vars => SnapshotFits'
<1> USE DEF serverVars, logVars, leaderVars, loopVars, diskVars, serviceVars
<1> SUFFICES ASSUME IInv, SnapshotFits, [Next]_vars PROVE SnapshotFits'
  OBVIOUS
<1>1. ASSUME NEW m \in net, ReturnStep(m) \/ Lose(m)
      PROVE  SnapshotFits'
  <2>1. torn' = torn /\ Log' = Log /\ snapshot' = snapshot /\ net' \subseteq net
    BY <1>1, ZenonT(30) DEF ReturnStep, RequestVoteReturns, AppendEntriesReturns,
                InstallSnapshotReturns, StepDown, Lose, Consume
  <2> QED BY <2>1, SnapshotKept
<1>2. CASE UNCHANGED vars
  BY <1>2, ZenonT(30) DEF vars, SnapshotFits, Alive
<1> QED
  BY <1>1, <1>2, ServerStepSnapshot, HandlerStepSnapshot DEF Next

\* As long as no crash falls between the two saves of a snapshot, the snapshot on
\* every disk reaches exactly to the first entry of the log beside it, through
\* any number of snapshots taken, sent, installed and read back.
THEOREM SnapshotsCoverBase == Spec => []SnapshotCoversBase
<1>1. IInv /\ SnapshotFits => SnapshotCoversBase
  BY DEF IInv, Durable, SnapshotFits, SnapshotCoversBase
<1> QED
  BY <1>1, Invariance, InitSnapshotFits, NextSnapshotFits, PTL DEF Spec
=============================================================================
