------------------------- MODULE RaftHandlerProofs --------------------------
(***************************************************************************)
(* The RPC handlers preserve the invariant.                                *)
(***************************************************************************)
EXTENDS RaftInvariant

USE DEF At

-----------------------------------------------------------------------------
\* The handlers.

\* The handler of RequestVote keeps the invariant: a vote it grants is saved.
LEMMA RequestVoteIInv ==
  ASSUME IInv, NEW m \in net, Alive(m.dst), RequestVote(m)
  PROVE  IInv'
<1> USE DEF serverVars, logVars, leaderVars, loopVars, diskVars, serviceVars
<1> DEFINE s == m.dst
           newTerm == m.Term > CurrentTerm[s]
           vote == IF newTerm THEN Nil ELSE VotedFor[s]
           refused == OldTerm(s, m) \/ LogBehind(s, m)
           granted == ~refused /\ vote = Nil
           r == [kind |-> "RequestVoteReply", caller |-> m.caller, dst |-> s,
                 term |-> m.term, VoteGranted |-> granted,
                 Term |-> IF refused THEN CurrentTerm'[s] ELSE 0]
<1>1. TypeOK /\ LogContiguous /\ Durable
  BY DEF IInv
<1>2. m \in VoteRequest
  BY <1>1, MessageKinds DEF RequestVote, TypeOK
<1>3. s \in Server /\ m.Term \in Nat /\ m.CandidateId \in Server /\ m.term \in Nat
      /\ m.caller \in Server \cup {Nil}
  BY <1>2 DEF VoteRequest
<1>4. granted \in BOOLEAN
  OBVIOUS
<1>5. /\ CurrentTerm' = [CurrentTerm EXCEPT ![s] = IF newTerm THEN m.Term ELSE @]
      /\ State' = [State EXCEPT ![s] = IF newTerm THEN "Follower" ELSE @]
      /\ VotedFor' = [VotedFor EXCEPT ![s] = IF granted THEN m.CandidateId ELSE vote]
      /\ Log' = Log
      /\ persist(s)
      /\ Reply(m, r)
  BY DEF RequestVote
<1> HIDE DEF s, granted, refused
<1>6. /\ CurrentTerm' \in [Server -> Nat]
      /\ State' \in [Server -> {"Follower", "Candidate", "Leader"}]
      /\ VotedFor' \in [Server -> Server \cup {Nil}]
      /\ \A t \in Server \ {s} : CurrentTerm'[t] = CurrentTerm[t] /\ VotedFor'[t] = VotedFor[t]
  BY <1>1, <1>3, <1>5, ZenonT(30) DEF TypeOK
<1> HIDE DEF newTerm, vote
<1>7. m.caller # Nil => r \in Message /\ r.kind # "AppendEntries"
  BY <1>3, <1>4, <1>6 DEF Message, VoteReply
<1> HIDE DEF r
<1>8. /\ net' \subseteq Message
      /\ \A n \in net' :
           n.kind = "AppendEntries" => Contiguous(n.Entries, n.PrevLogIndex + 1)
  BY <1>5, <1>7, ReplyType
<1>9. /\ disk' \in [Server -> Stable]
      /\ \A t \in Server : Contiguous(disk'[t].Log, Base(disk'[t].Log))
      /\ Durable'
  BY <1>3, <1>5, <1>6, PersistSameLog
<1>10. TypeOK'
  BY <1>1, <1>5, <1>6, <1>8, <1>9, ZenonT(30) DEF RequestVote, TypeOK
<1>11. LogContiguous'
  BY <1>1, <1>5, <1>8, <1>9 DEF LogContiguous
<1> QED BY <1>9, <1>10, <1>11 DEF IInv

\* The answer to an AppendEntries request.
LEMMA AppendAnswerType ==
  ASSUME NEW m \in AppendRequest, m.caller # Nil, NEW success \in BOOLEAN,
         NEW term \in Nat, NEW next \in Nat
  PROVE  /\ AppendAnswer(m, success, term, next) \in Message
         /\ AppendAnswer(m, success, term, next).kind # "AppendEntries"
<1>1. Len(m.Entries) \in Nat
  BY LenProperties DEF AppendRequest
<1> QED BY <1>1 DEF AppendRequest, AppendAnswer, AppendReply, Message

\* A running server's log, cut before an index it holds.
LEMMA LogCut ==
  ASSUME IInv, NEW s \in Server, Alive(s), NEW real \in Nat,
         real >= Base(Log[s]), real <= getLastCommandIndex(Log[s])
  PROVE  LET k == calculateLocalIndex(Log[s], real)
         IN  /\ UpTo(Log[s], k) \in Seq(Entry)
             /\ Contiguous(UpTo(Log[s], k), Base(UpTo(Log[s], k)))
<1> DEFINE k == calculateLocalIndex(Log[s], real)
<1>1. IsLog(Log[s], Entry)
  BY RunningLog
<1>2. /\ UpTo(Log[s], k) \in Seq(Entry)
      /\ \A i \in 1 .. Len(UpTo(Log[s], k)) :
           UpTo(Log[s], k)[i].CommandIndex = Base(UpTo(Log[s], k)) + i - 1
  BY <1>1, EntryIsEntry, CutLog, SMTT(30)
<1> QED BY <1>2 DEF Contiguous

\* AppendEntries keeps the invariant when it refuses, also when it has cut the log.
LEMMA AppendEntriesRefusedIInv ==
  ASSUME IInv, NEW m \in net, Alive(m.dst), AppendEntriesRefused(m)
  PROVE  IInv'
<1> USE DEF serverVars, logVars, leaderVars, loopVars, diskVars, serviceVars
<1> DEFINE s == m.dst
<1>1. TypeOK /\ LogContiguous /\ Durable
  BY DEF IInv
<1>2. m \in AppendRequest
  BY <1>1, MessageKinds DEF AppendEntriesRefused, TypeOK
<1>3. s \in Server /\ m.PrevLogIndex \in Nat
  BY <1>2 DEF AppendRequest
<1>4. CurrentTerm' = CurrentTerm /\ VotedFor' = VotedFor /\ persist(s) /\ CurrentTerm[s] \in Nat
  BY <1>1, <1>3 DEF AppendEntriesRefused, TypeOK
<1>5. /\ IsLog(Log[s], Entry)
      /\ Base(Log[s]) \in Nat
      /\ getLastCommandIndex(Log[s]) \in Nat
  BY <1>3, RunningLog
<1>6. /\ Log' \in [Server -> Seq(Entry)]
      /\ \A t \in Server \ {s} : Log'[t] = Log[t]
      /\ Contiguous(Log'[s], Base(Log'[s]))
      /\ \E term, next \in Nat : Reply(m, AppendAnswer(m, FALSE, term, next))
  <2>1. CASE OldTerm(s, m)
    BY <1>1, <1>3, <1>4, <2>1, ZenonT(30) DEF AppendEntriesRefused, TypeOK, LogContiguous
  <2>2. CASE ~OldTerm(s, m) /\ TooShort(s, m)
    BY <1>1, <1>3, <1>5, <2>2, ZenonT(30) DEF AppendEntriesRefused, TypeOK, LogContiguous
  <2>3. CASE ~OldTerm(s, m) /\ ~TooShort(s, m)
    <3> DEFINE k == calculateLocalIndex(Log[s], m.PrevLogIndex)
               next == getIndexBeforeTerm(Log[s], m.PrevLogIndex)
    <3>1. /\ Unmatched(s, m)
          /\ Log' = [Log EXCEPT ![s] = UpTo(@, calculateLocalIndex(@, m.PrevLogIndex))]
          /\ Reply(m, AppendAnswer(m, FALSE, 0, next))
      BY <2>3, ZenonT(30) DEF AppendEntriesRefused
    <3>2. m.PrevLogIndex >= Base(Log[s]) /\ m.PrevLogIndex <= getLastCommandIndex(Log[s])
      <4> HIDE DEF s
      <4>1. m.PrevLogIndex - Base(Log[s]) >= 0
        <5>1. calculateLocalIndex(Log[s], m.PrevLogIndex) > -1
          BY <3>1 DEF Unmatched
        <5>2. m.PrevLogIndex - Base(Log[s]) > -1
          BY <5>1 DEF calculateLocalIndex
        <5>3. m.PrevLogIndex - Base(Log[s]) \in Int
          BY <1>3, <1>5
        <5> QED BY <5>2, <5>3
      <4>2. ~(getLastCommandIndex(Log[s]) < m.PrevLogIndex)
        BY <2>3 DEF TooShort
      <4>3. \A p, b, l \in Nat : p - b >= 0 /\ ~(l < p) => p >= b /\ p <= l
        OBVIOUS
      <4> QED BY <1>3, <1>5, <4>1, <4>2, <4>3, Zenon
    <3>3. /\ UpTo(Log[s], k) \in Seq(Entry)
          /\ Contiguous(UpTo(Log[s], k), Base(UpTo(Log[s], k)))
      BY <1>3, <3>2, LogCut
    <3>4. next \in Nat
      BY <1>3, <1>5, IndexBeforeTerm
    <3>5. Log' = [Log EXCEPT ![s] = UpTo(Log[s], k)]
      BY <1>1, <1>3, <3>1 DEF TypeOK
    <3> HIDE DEF k, next
    <3>6. Log \in [Server -> Seq(Entry)]
      BY <1>1 DEF TypeOK
    <3> HIDE DEF s
    <3>7. /\ Log' \in [Server -> Seq(Entry)]
          /\ \A t \in Server \ {s} : Log'[t] = Log[t]
          /\ Log'[s] = UpTo(Log[s], k)
      BY <1>3, <3>3, <3>5, <3>6
    <3>8. \E term, nxt \in Nat : Reply(m, AppendAnswer(m, FALSE, term, nxt))
      BY <3>1, <3>4, ZenonT(30)
    <3> QED BY <3>3, <3>7, <3>8, ZenonT(30)
  <2> QED BY <2>1, <2>2, <2>3, ZenonT(30)
<1>7. /\ net' \subseteq Message
      /\ \A n \in net' :
           n.kind = "AppendEntries" => Contiguous(n.Entries, n.PrevLogIndex + 1)
  <2>1. PICK term \in Nat, next \in Nat : Reply(m, AppendAnswer(m, FALSE, term, next))
    BY <1>6, ZenonT(30)
  <2>2. m.caller # Nil => /\ AppendAnswer(m, FALSE, term, next) \in Message
                          /\ AppendAnswer(m, FALSE, term, next).kind # "AppendEntries"
    BY <1>2, AppendAnswerType, ZenonT(30)
  <2> QED BY <2>1, <2>2, ReplyType, ZenonT(30)
<1>8. /\ disk' \in [Server -> Stable]
      /\ \A t \in Server : Contiguous(Log'[t], Base(Log'[t]))
      /\ \A t \in Server : Contiguous(disk'[t].Log, Base(disk'[t].Log))
      /\ Durable'
  BY <1>1, <1>3, <1>4, <1>6, PersistType, ZenonT(30) DEF TypeOK
<1>9. TypeOK'
  BY <1>1, <1>4, <1>6, <1>7, <1>8, ZenonT(30) DEF AppendEntriesRefused, TypeOK
<1>10. LogContiguous'
  BY <1>7, <1>8 DEF LogContiguous
<1> QED BY <1>8, <1>9, <1>10 DEF IInv

\* AppendEntries keeps the invariant when it accepts: the spliced log is contiguous and saved.
LEMMA AppendEntriesAcceptedIInv ==
  ASSUME IInv, NEW m \in net, Alive(m.dst), AppendEntriesAccepted(m)
  PROVE  IInv'
<1> USE DEF serverVars, logVars, leaderVars, loopVars, diskVars, serviceVars
<1> DEFINE s == m.dst
<1>1. TypeOK /\ LogContiguous /\ Durable
  BY DEF IInv
<1>2. m \in AppendRequest
  BY <1>1, MessageKinds, ZenonT(30) DEF AppendEntriesAccepted, TypeOK
<1>3. /\ s \in Server
      /\ m.PrevLogIndex \in Nat
      /\ m.Term \in Nat
      /\ m.LeaderCommit \in Nat
      /\ m.Entries \in Seq(Entry)
  BY <1>2 DEF AppendRequest
<1>4. /\ CurrentTerm' = [CurrentTerm EXCEPT ![s] = m.Term]
      /\ VotedFor' = VotedFor
      /\ persist(s)
      /\ AppendEntryCh' = [AppendEntryCh EXCEPT ![s] = TRUE]
      /\ Reply(m, AppendAnswer(m, TRUE, 0, 0))
  BY ZenonT(30) DEF AppendEntriesAccepted, SignalAppendEntry
<1>5. IsLog(Log[s], Entry) /\ getLastCommandIndex(Log[s]) \in Nat
  BY <1>3, RunningLog
<1>6. /\ Log' \in [Server -> Seq(Entry)]
      /\ \A t \in Server \ {s} : Log'[t] = Log[t]
      /\ IsLog(Log'[s], Entry)
  <2>1. CASE IsStale(s, m)
    BY <1>1, <1>3, <1>5, <2>1 DEF AppendEntriesAccepted, TypeOK
  <2>2. CASE ~IsStale(s, m)
    <3>1. /\ ~TooShort(s, m)
          /\ Log' = [Log EXCEPT ![s] = Spliced(@, m.PrevLogIndex, m.Entries)]
      BY <2>2 DEF AppendEntriesAccepted
    <3>2. m.PrevLogIndex <= getLastCommandIndex(Log[s])
      BY <1>3, <1>5, <3>1 DEF TooShort
    <3>3. AreEntries(m.Entries, m.PrevLogIndex + 1, Entry)
      BY <1>1, <1>3, ZenonT(30) DEF LogContiguous, Contiguous, AreEntries, AppendEntriesAccepted
    <3>4. IsLog(Spliced(Log[s], m.PrevLogIndex, m.Entries), Entry)
      BY <1>3, <1>5, <2>2, <3>2, <3>3, EntryIsEntry, SplicedIsLog, ZenonT(30) DEF IsStale
    <3>5. Spliced(Log[s], m.PrevLogIndex, m.Entries) \in Seq(Entry)
      BY <3>4 DEF IsLog
    <3> QED BY <1>1, <1>3, <3>1, <3>4, <3>5, ZenonT(30) DEF TypeOK
  <2> QED BY <2>1, <2>2
<1>7. Contiguous(Log'[s], Base(Log'[s])) /\ getLastCommandIndex(Log'[s]) \in Nat
  BY <1>6, EntryIsEntry, LastOfLog DEF IsLog, Contiguous
<1>8. CommitIndex' \in [Server -> Nat]
  <2>1. CommitIndex' = [CommitIndex EXCEPT ![s] =
          NewCommitIndex(@, m.LeaderCommit, getLastCommandIndex(Log'[s]))]
    BY DEF AppendEntriesAccepted
  <2>2. NewCommitIndex(CommitIndex[s], m.LeaderCommit, getLastCommandIndex(Log'[s])) \in Nat
    BY <1>1, <1>3, <1>7 DEF NewCommitIndex, TypeOK
  <2> QED BY <1>1, <1>3, <2>1, <2>2 DEF TypeOK
<1>9. /\ CurrentTerm' \in [Server -> Nat]
      /\ VotedFor' \in [Server -> Server \cup {Nil}]
      /\ \A t \in Server \ {s} : CurrentTerm'[t] = CurrentTerm[t] /\ VotedFor'[t] = VotedFor[t]
      /\ AppendEntryCh' \in [Server -> BOOLEAN]
  BY <1>1, <1>3, <1>4, ZenonT(30) DEF TypeOK
<1>10. /\ net' \subseteq Message
       /\ \A n \in net' :
            n.kind = "AppendEntries" => Contiguous(n.Entries, n.PrevLogIndex + 1)
  <2>1. m.caller # Nil => /\ AppendAnswer(m, TRUE, 0, 0) \in Message
                          /\ AppendAnswer(m, TRUE, 0, 0).kind # "AppendEntries"
    BY <1>2, AppendAnswerType, ZenonT(30)
  <2> QED BY <1>4, <2>1, ReplyType, ZenonT(30)
<1>11. /\ disk' \in [Server -> Stable]
       /\ \A t \in Server : Contiguous(Log'[t], Base(Log'[t]))
       /\ \A t \in Server : Contiguous(disk'[t].Log, Base(disk'[t].Log))
       /\ Durable'
  BY <1>3, <1>4, <1>6, <1>7, <1>9, PersistType, ZenonT(30)
<1>12. TypeOK'
  BY <1>1, <1>6, <1>8, <1>9, <1>10, <1>11, ZenonT(30) DEF AppendEntriesAccepted, TypeOK
<1>13. LogContiguous'
  BY <1>10, <1>11 DEF LogContiguous
<1> QED BY <1>11, <1>12, <1>13 DEF IInv

\* The answer to an InstallSnapshot request.
LEMMA SnapshotAnswerType ==
  ASSUME NEW m \in SnapshotRequest, m.caller # Nil, NEW success \in BOOLEAN, NEW term \in Nat
  PROVE  /\ SnapshotAnswer(m, success, term) \in Message
         /\ SnapshotAnswer(m, success, term).kind # "AppendEntries"
BY ZenonT(30) DEF SnapshotRequest, SnapshotAnswer, SnapshotReply, Message, Entry

\* InstallSnapshot keeps the invariant: the log that begins at the snapshot is contiguous and saved.
LEMMA InstallSnapshotIInv ==
  ASSUME IInv, NEW m \in net, Alive(m.dst),
         \/ InstallSnapshotRefused(m)
         \/ InstallSnapshotAccepted(m)
         \/ CrashInInstallSnapshot(m)
  PROVE  IInv'
<1> USE DEF serverVars, logVars, leaderVars, loopVars, diskVars, serviceVars
<1> DEFINE s == m.dst
           e == m.LastSnapshotCommand
<1>1. TypeOK /\ LogContiguous /\ Durable
  BY DEF IInv
<1>2. m \in SnapshotRequest
  BY <1>1, MessageKinds, ZenonT(30) DEF InstallSnapshotRefused, InstallSnapshotAccepted,
                            CrashInInstallSnapshot, TypeOK
<1>3. s \in Server /\ m.SnapshotData \in Nat /\ e \in Entry /\ e.CommandIndex \in Nat
  BY <1>2 DEF SnapshotRequest, Entry
<1>4. ASSUME NEW success \in BOOLEAN, NEW term \in Nat, Reply(m, SnapshotAnswer(m, success, term))
      PROVE  /\ net' \subseteq Message
             /\ \A n \in net' :
                  n.kind = "AppendEntries" => Contiguous(n.Entries, n.PrevLogIndex + 1)
  <2>1. m.caller # Nil => /\ SnapshotAnswer(m, success, term) \in Message
                          /\ SnapshotAnswer(m, success, term).kind # "AppendEntries"
    BY <1>2, SnapshotAnswerType
  <2> QED BY <1>4, <2>1, ReplyType
<1>5. CASE InstallSnapshotRefused(m)
  <2>1. \E term \in Nat : Reply(m, SnapshotAnswer(m, FALSE, term))
    BY <1>1, <1>3, <1>5, ZenonT(30) DEF InstallSnapshotRefused, TypeOK
  <2>2. /\ net' \subseteq Message
        /\ \A n \in net' :
             n.kind = "AppendEntries" => Contiguous(n.Entries, n.PrevLogIndex + 1)
    BY <1>4, <2>1, ZenonT(30)
  <2>3. TypeOK'
    BY <1>1, <1>5, <2>2, ZenonT(30) DEF InstallSnapshotRefused, TypeOK
  <2>4. LogContiguous'
    BY <1>1, <1>5, <2>2, ZenonT(30) DEF InstallSnapshotRefused, LogContiguous
  <2>5. Durable'
    BY <1>1, <1>5, ZenonT(30) DEF InstallSnapshotRefused, Durable
  <2> QED BY <2>3, <2>4, <2>5 DEF IInv
<1>6. CASE InstallSnapshotAccepted(m)
  <2>1. <<e>> \in Seq(Entry) /\ Contiguous(<<e>>, Base(<<e>>))
    BY <1>3 DEF Contiguous, Base
  <2>2. /\ CurrentTerm' = CurrentTerm /\ VotedFor' = VotedFor /\ persist(s)
        /\ Log' = [Log EXCEPT ![s] = <<e>>]
        /\ snapshot' = [snapshot EXCEPT ![s] = m.SnapshotData]
        /\ LastApplied' = [LastApplied EXCEPT ![s] = e.CommandIndex]
        /\ CommitIndex' = [CommitIndex EXCEPT ![s] = e.CommandIndex]
        /\ snapMsgs' = [snapMsgs EXCEPT ![s] = @ \cup {m.SnapshotData}]
        /\ AppendEntryCh' = [AppendEntryCh EXCEPT ![s] = TRUE]
        /\ Reply(m, SnapshotAnswer(m, TRUE, 0))
    BY <1>6, ZenonT(30) DEF InstallSnapshotAccepted, SignalAppendEntry
  <2> HIDE DEF e
  <2>3. /\ Log' \in [Server -> Seq(Entry)]
        /\ \A t \in Server \ {s} : Log'[t] = Log[t]
        /\ Contiguous(Log'[s], Base(Log'[s]))
    BY <1>1, <1>3, <2>1, <2>2, ZenonT(30) DEF TypeOK
  <2>4. /\ disk' \in [Server -> Stable]
        /\ \A t \in Server : Contiguous(Log'[t], Base(Log'[t]))
        /\ \A t \in Server : Contiguous(disk'[t].Log, Base(disk'[t].Log))
        /\ Durable'
    BY <1>1, <1>3, <2>2, <2>3, PersistType, ZenonT(30) DEF TypeOK
  <2>5. /\ net' \subseteq Message
        /\ \A n \in net' :
             n.kind = "AppendEntries" => Contiguous(n.Entries, n.PrevLogIndex + 1)
    BY <1>4, <2>2, ZenonT(30)
  <2>6. /\ snapshot' \in [Server -> Nat]
        /\ LastApplied' \in [Server -> Nat]
        /\ CommitIndex' \in [Server -> Nat]
        /\ snapMsgs' \in [Server -> SUBSET Nat]
        /\ AppendEntryCh' \in [Server -> BOOLEAN]
    BY <1>1, <1>3, <2>2 DEF TypeOK
  <2>7. TypeOK'
    BY <1>1, <1>6, <2>3, <2>4, <2>5, <2>6, ZenonT(30) DEF InstallSnapshotAccepted, TypeOK
  <2>8. LogContiguous'
    BY <2>4, <2>5, ZenonT(30) DEF LogContiguous
  <2> QED BY <2>4, <2>7, <2>8, ZenonT(30) DEF IInv
<1>7. CASE CrashInInstallSnapshot(m)
  <2>1. MakeFrom(s, disk[s], m.SnapshotData, net \ {m}) /\ torn' \in BOOLEAN
    BY <1>7, ZenonT(30) DEF CrashInInstallSnapshot
  <2>2. disk[s] \in Stable /\ IsLog(disk[s].Log, Entry)
    BY <1>3, DiskOfRunning, ZenonT(30)
  <2> QED BY <1>3, <2>1, <2>2, MakeFromIInv, ZenonT(30)
<1> QED BY <1>5, <1>6, <1>7
=============================================================================
