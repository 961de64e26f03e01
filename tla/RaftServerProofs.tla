-------------------------- MODULE RaftServerProofs --------------------------
(***************************************************************************)
(* The steps a server takes by itself preserve the invariant: the main loop,*)
(* the goroutines that send, Start, snapshots, crashes and restarts.       *)
(***************************************************************************)
EXTENDS RaftInvariant

USE DEF At

-----------------------------------------------------------------------------
\* The main loop.

\* The main loop of Make keeps the invariant.
LEMMA LoopStepIInv ==
  ASSUME IInv, NEW s \in Server, Alive(s), LoopStep(s)
  PROVE  IInv'
<1> USE DEF serverVars, logVars, leaderVars, loopVars, diskVars, serviceVars, Goto, LoopPlace
<1>1. TypeOK /\ LogContiguous /\ Durable
  BY DEF IInv
<1>2. CASE Apply(s)
  <2>1. LogContiguous' /\ Durable'
    BY <1>1, <1>2, SameLogs DEF Apply
  <2>2. CASE CommitIndex[s] > LastApplied[s]
    <3> DEFINE first == calculateLocalIndex(Log[s], LastApplied[s]) + 1
               last == calculateLocalIndex(Log[s], CommitIndex[s])
               entries == {At(Log[s], i) : i \in first .. last}
    <3>1. /\ first \in 0 .. Len(Log[s]) - 1
          /\ last \in 0 .. Len(Log[s]) - 1
      <4>1. Base(Log[s]) \in Nat /\ LastApplied[s] \in Nat
        BY <1>1, RunningLog DEF TypeOK
      <4>2. InLog(Log[s], LastApplied[s] + 1) /\ InLog(Log[s], CommitIndex[s])
        BY <1>2, <2>2 DEF Apply
      <4> QED BY <4>1, <4>2 DEF InLog, calculateLocalIndex
    <3>2. Len(Log[s]) \in Nat /\ \A i \in 1 .. Len(Log[s]) : Log[s][i] \in Entry
      BY <1>1, LenProperties, ElementOfSeq DEF TypeOK
    <3>3. entries \subseteq Entry /\ At(Log[s], last) \in Entry
      <4> HIDE DEF first, last
      <4> QED BY <3>1, <3>2, SMTT(30)
    <3> HIDE DEF first, last, entries
    <3>4. \A e \in Entry : e.CommandIndex \in Nat /\ e.Command \in Value \cup {Nil}
      BY DEF Entry
    <3>5. /\ delivered' = delivered \cup {<<e.CommandIndex, e.Command>> : e \in entries}
          /\ svc' = [svc EXCEPT ![s] = At(Log[s], last).CommandIndex]
          /\ pending' = [pending EXCEPT ![s] =
               IF TakeSnapshots THEN @ \cup {e.CommandIndex : e \in entries} ELSE @]
          /\ LastApplied' = [LastApplied EXCEPT ![s] = CommitIndex[s]]
      BY <1>2, <2>2 DEF Apply, first, last, entries
    <3>6. delivered' \subseteq Nat \X (Value \cup {Nil})
      BY <1>1, <3>3, <3>4, <3>5 DEF TypeOK
    <3>7. svc' \in [Server -> Nat] /\ LastApplied' \in [Server -> Nat]
      BY <1>1, <3>3, <3>4, <3>5 DEF TypeOK
    <3>8. pending' \in [Server -> SUBSET Nat]
      <4>1. {e.CommandIndex : e \in entries} \subseteq Nat
        BY <3>3, <3>4
      <4> QED BY <1>1, <3>5, <4>1, ZenonT(30) DEF TypeOK
    <3> QED BY <1>1, <1>2, <2>1, <3>6, <3>7, <3>8, ZenonT(30) DEF Apply, TypeOK, IInv
  <2>3. CASE ~(CommitIndex[s] > LastApplied[s])
    BY <1>1, <1>2, <2>1, <2>3, ZenonT(30) DEF Apply, TypeOK, IInv
  <2> QED BY <2>2, <2>3
<1>3. CASE ReadState(s)
  BY <1>1, <1>3, SameLogs, ZenonT(30) DEF ReadState, TypeOK, IInv
<1>4. CASE FollowerHears(s)
  BY <1>1, <1>4, SameLogs, ZenonT(30) DEF FollowerHears, ReceiveAppendEntry, TypeOK, IInv
<1>5. CASE updateToFollower(s)
  BY <1>1, <1>5, SameLogs DEF updateToFollower, ReceiveAppendEntry, TypeOK, IInv
<1>6. CASE Timeout(s)
  BY <1>1, <1>6, SameLogs, ZenonT(30) DEF Timeout, TypeOK, IInv
<1>7. CASE updateBeforeRequestVote(s)
  <2>1. /\ CurrentTerm' \in [Server -> Nat]
        /\ VotedFor' \in [Server -> Server \cup {Nil}]
        /\ Votes' \in [Server -> Nat]
        /\ Log' = Log
        /\ net' = net
        /\ \A t \in Server \ {s} : CurrentTerm'[t] = CurrentTerm[t] /\ VotedFor'[t] = VotedFor[t]
    BY <1>1, <1>7 DEF updateBeforeRequestVote, TypeOK
  <2>2. /\ disk' \in [Server -> Stable]
        /\ \A t \in Server : Contiguous(disk'[t].Log, Base(disk'[t].Log))
        /\ Durable'
    BY <1>7, <2>1, PersistSameLog, ZenonT(30) DEF updateBeforeRequestVote
  <2>3. TypeOK'
    BY <1>1, <1>7, <2>1, <2>2, ZenonT(30) DEF updateBeforeRequestVote, TypeOK
  <2>4. LogContiguous'
    BY <1>1, <2>1, <2>2, ZenonT(30) DEF LogContiguous
  <2> QED BY <2>2, <2>3, <2>4 DEF IInv
<1>8. CASE FillArgs(s)
  <2>1. [Term |-> CurrentTerm[s], LastLogIndex |-> getLastCommandIndex(Log[s]),
         LastLogTerm |-> getLastCommandTerm(Log[s]), term |-> 0, unsent |-> {}] \in Election
    BY <1>1, RunningLog, ZenonT(30) DEF Election, TypeOK
  <2> QED BY <1>1, <1>8, <2>1, SameLogs, ZenonT(30) DEF FillArgs, TypeOK, IInv
<1>9. CASE broadcastRequestVote(s)
  <2>1. election' \in [Server -> Election]
    <3>1. election[s] \in Election /\ CurrentTerm[s] \in Nat /\ Peers(s) \subseteq Server
      BY <1>1 DEF TypeOK, Peers
    <3>2. [election[s] EXCEPT !.term = CurrentTerm[s], !.unsent = Peers(s)] \in Election
      BY <3>1, ZenonT(30) DEF Election
    <3> QED BY <1>1, <1>9, <3>2 DEF broadcastRequestVote, TypeOK
  <2> QED BY <1>1, <1>9, <2>1, SameLogs, ZenonT(30) DEF broadcastRequestVote, TypeOK, IInv
<1>10. CASE testLeader(s)
  <2>1. getLastCommandIndex(Log[s]) + 1 \in Nat
    <3>1. getLastCommandIndex(Log[s]) \in Nat
      BY RunningLog, ZenonT(30)
    <3> QED BY <3>1
  <2>2. NextIndex' \in [Server -> [Server -> Nat]] /\ MatchIndex' \in [Server -> [Server -> Nat]]
    <3>1. /\ [p \in Server |-> getLastCommandIndex(Log[s]) + 1] \in [Server -> Nat]
          /\ [p \in Server |-> 0] \in [Server -> Nat]
      BY <2>1
    <3>2. NextIndex \in [Server -> [Server -> Nat]] /\ MatchIndex \in [Server -> [Server -> Nat]]
      BY <1>1 DEF TypeOK
    <3>3. \/ UNCHANGED leaderVars
          \/ /\ NextIndex' = [NextIndex EXCEPT ![s] =
                  [p \in Server |-> getLastCommandIndex(Log[s]) + 1]]
             /\ MatchIndex' = [MatchIndex EXCEPT ![s] = [p \in Server |-> 0]]
      BY <1>10 DEF testLeader
    <3> QED BY <3>1, <3>2, <3>3, ZenonT(30)
  <2>3. State' \in [Server -> {"Follower", "Candidate", "Leader"}]
    BY <1>1, <1>10, ZenonT(30) DEF testLeader, TypeOK
  <2> QED BY <1>1, <1>10, <2>2, <2>3, SameLogs, ZenonT(30) DEF testLeader, TypeOK, IInv
<1>11. CASE checkCommitIndex(s)
  <2>1. PICK c \in {MatchIndex[s][p] : p \in Server} :
          CommitIndex' = [CommitIndex EXCEPT ![s] =
            IF /\ c > @
               /\ At(Log[s], calculateLocalIndex(Log[s], c)).CommandTerm = CurrentTerm[s]
              THEN c ELSE @]
    BY <1>11, ZenonT(30) DEF checkCommitIndex
  <2>2. c \in Nat
    BY <1>1, SMTT(30) DEF TypeOK
  <2>3. CommitIndex' \in [Server -> Nat]
    BY <1>1, <2>1, <2>2 DEF TypeOK
  <2> QED BY <1>1, <1>11, <2>3, SameLogs, ZenonT(30) DEF checkCommitIndex, TypeOK, IInv
<1> QED
  BY <1>2, <1>3, <1>4, <1>5, <1>6, <1>7, <1>8, <1>9, <1>10, <1>11 DEF LoopStep

-----------------------------------------------------------------------------
\* The goroutines that send, Start and StartSnapshot.

\* Sending an RPC keeps the invariant: entries taken from the log are contiguous.
LEMMA SendIInv ==
  ASSUME IInv, NEW s \in Server, Alive(s), NEW d \in Server,
         SendRequestVote(s, d) \/ SendAppendEntries(s, d) \/ SendInstallSnapshot(s, d)
  PROVE  IInv'
<1> USE DEF serverVars, logVars, leaderVars, loopVars, diskVars, serviceVars
<1>1. TypeOK /\ LogContiguous /\ Durable
  BY DEF IInv
<1>2. CASE SendRequestVote(s, d)
  <2> DEFINE m == [kind |-> "RequestVote", caller |-> s, dst |-> d, term |-> election[s].term,
                   Term |-> election[s].Term, CandidateId |-> s,
                   LastLogIndex |-> election[s].LastLogIndex,
                   LastLogTerm |-> election[s].LastLogTerm]
  <2>1. election[s] \in Election
    BY <1>1 DEF TypeOK
  <2>2. m \in Message /\ m.kind # "AppendEntries"
    BY <2>1, ZenonT(30) DEF Message, VoteRequest, Election
  <2>3. Call(m)
    BY <1>2 DEF SendRequestVote
  <2> HIDE DEF m
  <2>4. /\ net' \subseteq Message
        /\ \A n \in net' :
             n.kind = "AppendEntries" => Contiguous(n.Entries, n.PrevLogIndex + 1)
    BY <2>2, <2>3, CallType
  <2>5. election' \in [Server -> Election]
    <3>1. [election[s] EXCEPT !.unsent = @ \ {d}] \in Election
      BY <2>1 DEF Election
    <3> QED BY <1>1, <1>2, <3>1, ZenonT(30) DEF SendRequestVote, TypeOK
  <2>6. TypeOK'
    BY <1>1, <1>2, <2>4, <2>5, ZenonT(30) DEF SendRequestVote, TypeOK
  <2>7. LogContiguous'
    BY <1>1, <1>2, <2>4 DEF SendRequestVote, LogContiguous
  <2>8. Durable'
    BY <1>1, <1>2 DEF SendRequestVote, Durable
  <2> QED BY <2>6, <2>7, <2>8 DEF IInv
<1>3. CASE SendAppendEntries(s, d)
  <2> DEFINE prev == NextIndex[s][d] - 1
             k == calculateLocalIndex(Log[s], prev)
             m == [kind |-> "AppendEntries", caller |-> s, dst |-> d, Term |-> CurrentTerm[s],
                   PrevLogIndex |-> prev, PrevLogTerm |-> At(Log[s], k).CommandTerm,
                   Entries |-> From(Log[s], k + 1), LeaderCommit |-> CommitIndex[s]]
  <2>1. NextIndex[s][d] \in Nat /\ CommitIndex[s] \in Nat /\ CurrentTerm[s] \in Nat
    BY <1>1 DEF TypeOK
  <2>2. /\ IsLog(Log[s], Entry)
        /\ Base(Log[s]) \in Nat
        /\ getLastCommandIndex(Log[s]) = Base(Log[s]) + Len(Log[s]) - 1
        /\ Len(Log[s]) \in Nat
    BY RunningLog
  <2>3. NextIndex[s][d] > Base(Log[s]) /\ InLog(Log[s], prev)
    BY <1>3, ZenonT(30) DEF SendAppendEntries
  <2>4. prev \in Nat /\ prev >= Base(Log[s]) /\ prev <= getLastCommandIndex(Log[s])
    BY <2>1, <2>2, <2>3 DEF InLog, calculateLocalIndex
  <2>5. Call(m)
    BY <1>3, ZenonT(30) DEF SendAppendEntries
  <2> HIDE DEF prev
  <2>6. At(Log[s], k) \in Entry
    BY <2>2, <2>4, EntryIsEntry, CutLog, ZenonT(30)
  <2>7. AreEntries(From(Log[s], k + 1), prev + 1, Entry)
    BY <2>2, <2>3, <2>4, EntryIsEntry, EntriesAfter
  <2> HIDE DEF k
  <2>8. m \in Message
    BY <2>1, <2>4, <2>6, <2>7, ZenonT(30) DEF Message, AppendRequest, AreEntries, Entry
  <2>9. Contiguous(m.Entries, m.PrevLogIndex + 1)
    BY <2>7, ZenonT(30) DEF AreEntries, Contiguous
  <2> HIDE DEF m
  <2>10. /\ net' \subseteq Message
         /\ \A n \in net' :
              n.kind = "AppendEntries" => Contiguous(n.Entries, n.PrevLogIndex + 1)
    BY <2>5, <2>8, <2>9, CallType
  <2>11. TypeOK'
    BY <1>1, <1>3, <2>10, ZenonT(30) DEF SendAppendEntries, TypeOK
  <2>12. LogContiguous'
    BY <1>1, <1>3, <2>10, ZenonT(30) DEF SendAppendEntries, LogContiguous
  <2>13. Durable'
    BY <1>1, <1>3, ZenonT(30) DEF SendAppendEntries, Durable
  <2> QED BY <2>11, <2>12, <2>13 DEF IInv
<1>4. CASE SendInstallSnapshot(s, d)
  <2> DEFINE m == [kind |-> "InstallSnapshot", caller |-> s, dst |-> d,
                   Term |-> CurrentTerm[s], SnapshotIndex |-> 0,
                   SnapshotData |-> snapshot[s], LastSnapshotCommand |-> Log[s][1]]
  <2>1. CurrentTerm[s] \in Nat /\ snapshot[s] \in Nat /\ Log[s][1] \in Entry
    BY <1>1, RunningLog DEF TypeOK
  <2>2. m \in Message /\ m.kind # "AppendEntries"
    BY <2>1, ZenonT(30) DEF Message, SnapshotRequest
  <2>3. Call(m)
    BY <1>4, ZenonT(30) DEF SendInstallSnapshot
  <2> HIDE DEF m
  <2>4. /\ net' \subseteq Message
        /\ \A n \in net' :
             n.kind = "AppendEntries" => Contiguous(n.Entries, n.PrevLogIndex + 1)
    BY <2>2, <2>3, CallType
  <2>5. TypeOK'
    BY <1>1, <1>4, <2>4, ZenonT(30) DEF SendInstallSnapshot, TypeOK
  <2>6. LogContiguous'
    BY <1>1, <1>4, <2>4, ZenonT(30) DEF SendInstallSnapshot, LogContiguous
  <2>7. Durable'
    BY <1>1, <1>4, ZenonT(30) DEF SendInstallSnapshot, Durable
  <2> QED BY <2>5, <2>6, <2>7 DEF IInv
<1> QED BY <1>2, <1>3, <1>4

\* Start keeps the invariant: the entry it appends has the next index and is saved.
LEMMA StartIInv ==
  ASSUME IInv, NEW s \in Server, Alive(s), NEW term \in starting[s], NEW v \in Value,
         StartAppends(s, term, v)
  PROVE  IInv'
<1> USE DEF serverVars, logVars, leaderVars, loopVars, diskVars, serviceVars
<1> DEFINE index == getLastCommandIndex(Log[s]) + 1
           e == [CommandIndex |-> index, CommandTerm |-> term, Command |-> v]
<1>1. TypeOK /\ LogContiguous /\ Durable
  BY ZenonT(30) DEF IInv
<1>2. IsLog(Log[s], Entry) /\ index \in Nat
  BY RunningLog, SMTT(30)
<1>3. term \in Nat
  BY <1>1 DEF TypeOK
<1>4. e \in Entry /\ e.CommandIndex = getLastCommandIndex(Log[s]) + 1
  BY <1>2, <1>3 DEF Entry
<1>5. /\ Log' = [Log EXCEPT ![s] = Append(@, e)]
      /\ starting' = [starting EXCEPT ![s] = @ \ {term}]
      /\ NextIndex' = [NextIndex EXCEPT ![s][s] = index + 1]
      /\ MatchIndex' = [MatchIndex EXCEPT ![s][s] = index]
      /\ persist(s)
  BY DEF StartAppends
<1> HIDE DEF e, index
<1>6. IsLog(Append(Log[s], e), Entry)
  BY <1>2, <1>4, EntryIsEntry, AppendToLog
<1>7. /\ Log' \in [Server -> Seq(Entry)]
      /\ Contiguous(Log'[s], Base(Log'[s]))
      /\ \A t \in Server \ {s} : Log'[t] = Log[t]
  BY <1>1, <1>5, <1>6, ZenonT(30) DEF TypeOK, IsLog, Contiguous
<1>8. /\ NextIndex' \in [Server -> [Server -> Nat]]
      /\ MatchIndex' \in [Server -> [Server -> Nat]]
  <2>1. NextIndex \in [Server -> [Server -> Nat]] /\ MatchIndex \in [Server -> [Server -> Nat]]
    BY <1>1 DEF TypeOK
  <2>2. index + 1 \in Nat
    BY <1>2, SMTT(30)
  <2>3. [NextIndex EXCEPT ![s][s] = index + 1] \in [Server -> [Server -> Nat]]
    BY <2>1, <2>2, MatrixUpdate
  <2>4. [MatchIndex EXCEPT ![s][s] = index] \in [Server -> [Server -> Nat]]
    BY <1>2, <2>1, MatrixUpdate
  <2> QED BY <1>5, <2>3, <2>4, Zenon
<1>9. starting' \in [Server -> SUBSET Nat]
  BY <1>1, <1>5, ZenonT(30) DEF TypeOK
<1>10. CurrentTerm' = CurrentTerm /\ VotedFor' = VotedFor /\ net' = net
  BY DEF StartAppends
<1>11. /\ disk' \in [Server -> Stable]
       /\ \A t \in Server : Contiguous(Log'[t], Base(Log'[t]))
       /\ \A t \in Server : Contiguous(disk'[t].Log, Base(disk'[t].Log))
       /\ Durable'
  BY <1>1, <1>5, <1>7, <1>10, PersistType, ZenonT(30) DEF TypeOK
<1>12. TypeOK'
  BY <1>1, <1>7, <1>8, <1>9, <1>11, ZenonT(30) DEF StartAppends, TypeOK
<1>13. LogContiguous'
  BY <1>1, <1>10, <1>11, ZenonT(30) DEF LogContiguous
<1> QED BY <1>11, <1>12, <1>13, ZenonT(30) DEF IInv

\* What StartSnapshot keeps of a log.
LEMMA TrimmedIsLog ==
  ASSUME IInv, NEW s \in Server, Alive(s), NEW i \in pending[s], CanTrim(s, i)
  PROVE  /\ i \in Nat
         /\ IsLog(Trimmed(s, i), Entry)
         /\ Base(Trimmed(s, i)) = i
<1>1. i \in Nat
  BY DEF IInv, TypeOK
<1>2. IsLog(Log[s], Entry) /\ Base(Log[s]) \in Nat /\ getLastCommandIndex(Log[s]) \in Nat
  BY RunningLog
<1>3. i >= Base(Log[s]) /\ i <= getLastCommandIndex(Log[s])
  BY <1>1, <1>2 DEF CanTrim
<1> QED BY <1>1, <1>2, <1>3, EntryIsEntry, CutLog, SMTT(30) DEF Trimmed

\* StartSnapshot keeps the invariant: the cut log still has consecutive indices and is saved.
LEMMA StartSnapshotIInv ==
  ASSUME IInv, NEW s \in Server, Alive(s), NEW i \in pending[s], StartSnapshot(s, i)
  PROVE  IInv'
<1> USE DEF serverVars, logVars, leaderVars, loopVars, diskVars, serviceVars
<1>1. TypeOK /\ LogContiguous /\ Durable
  BY DEF IInv
<1>2. pending' \in [Server -> SUBSET Nat] /\ CurrentTerm' = CurrentTerm
      /\ VotedFor' = VotedFor /\ net' = net
  BY <1>1 DEF StartSnapshot, TypeOK
<1>3. CASE CanTrim(s, i)
  <2>1. /\ i \in Nat
        /\ IsLog(Trimmed(s, i), Entry)
    BY <1>3, TrimmedIsLog
  <2>2. /\ Log' = [Log EXCEPT ![s] = Trimmed(s, i)]
        /\ snapshot' = [snapshot EXCEPT ![s] = i]
        /\ persist(s)
    BY <1>3 DEF StartSnapshot
  <2>3. /\ Log' \in [Server -> Seq(Entry)]
        /\ Contiguous(Log'[s], Base(Log'[s]))
        /\ \A t \in Server \ {s} : Log'[t] = Log[t]
    BY <1>1, <2>1, <2>2, ZenonT(30) DEF TypeOK, IsLog, Contiguous
  <2>4. /\ disk' \in [Server -> Stable]
        /\ \A t \in Server : Contiguous(Log'[t], Base(Log'[t]))
        /\ \A t \in Server : Contiguous(disk'[t].Log, Base(disk'[t].Log))
        /\ Durable'
    BY <1>1, <1>2, <2>2, <2>3, PersistType, ZenonT(30) DEF TypeOK
  <2>5. snapshot' \in [Server -> Nat]
    BY <1>1, <2>1, <2>2 DEF TypeOK
  <2>6. TypeOK'
    BY <1>1, <1>2, <1>3, <2>3, <2>4, <2>5, ZenonT(30) DEF StartSnapshot, TypeOK
  <2>7. LogContiguous'
    BY <1>1, <1>2, <2>4, ZenonT(30) DEF LogContiguous
  <2> QED BY <2>4, <2>6, <2>7 DEF IInv
<1>4. CASE ~CanTrim(s, i)
  BY <1>1, <1>2, <1>4, SameLogs, ZenonT(30) DEF StartSnapshot, TypeOK, IInv
<1> QED BY <1>3, <1>4

\* A crash between the two saves of StartSnapshot keeps the invariant.
LEMMA CrashInStartSnapshotIInv ==
  ASSUME IInv, NEW s \in Server, Alive(s), NEW i \in pending[s], CrashInStartSnapshot(s, i)
  PROVE  IInv'
<1> DEFINE d == [CurrentTerm |-> CurrentTerm[s], VotedFor |-> VotedFor[s], Log |-> Trimmed(s, i)]
<1>1. snapshot[s] \in Nat /\ torn' \in BOOLEAN
  BY DEF IInv, TypeOK, CrashInStartSnapshot
<1>2. IsLog(Trimmed(s, i), Entry)
  BY TrimmedIsLog, ZenonT(30) DEF CrashInStartSnapshot
<1>3. d \in Stable /\ IsLog(d.Log, Entry)
  BY <1>2, ZenonT(30) DEF IInv, TypeOK, Stable, IsLog
<1>4. MakeFrom(s, d, snapshot[s], net)
  BY DEF CrashInStartSnapshot
<1> HIDE DEF d
<1> QED BY <1>1, <1>3, <1>4, MakeFromIInv, ZenonT(30)

\* Every step a server takes by itself keeps the invariant.
LEMMA ServerStepIInv ==
  ASSUME IInv, NEW s \in Server, Alive(s), ServerStep(s)
  PROVE  IInv'
<1> USE DEF serverVars, logVars, leaderVars, loopVars, diskVars, serviceVars
<1>1. TypeOK /\ LogContiguous /\ Durable
  BY DEF IInv
<1>2. CASE StartAsks(s)
  BY <1>1, <1>2, SameLogs, ZenonT(30) DEF StartAsks, TypeOK, IInv
<1>3. ASSUME NEW i \in snapMsgs[s], ServiceReceives(s, i)
      PROVE  IInv'
  BY <1>1, <1>3, SameLogs, ZenonT(30) DEF ServiceReceives, TypeOK, IInv
<1> QED
  BY <1>2, <1>3, LoopStepIInv, SendIInv, StartIInv, StartSnapshotIInv,
     CrashInStartSnapshotIInv, RestartIInv, ZenonT(30) DEF ServerStep
=============================================================================
