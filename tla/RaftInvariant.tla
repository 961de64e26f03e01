--------------------------- MODULE RaftInvariant ----------------------------
(***************************************************************************)
(* The invariant of Raft that its steps preserve, that it holds at first,  *)
(* and what the proofs about single steps have in common.                  *)
(***************************************************************************)
EXTENDS Raft, RaftLogProofs

USE DEF At

\* Entries have an index and a term.
LEMMA EntryIsEntry == IsEntrySet(Entry)
BY DEF IsEntrySet, Entry

\* The kind of a message says which record it is.
LEMMA MessageKinds ==
  ASSUME NEW m \in Message
  PROVE  /\ m.kind = "RequestVote" => m \in VoteRequest
         /\ m.kind = "RequestVoteReply" => m \in VoteReply
         /\ m.kind = "AppendEntries" => m \in AppendRequest
         /\ m.kind = "AppendEntriesReply" => m \in AppendReply
         /\ m.kind = "InstallSnapshot" => m \in SnapshotRequest
         /\ m.kind = "InstallSnapshotReply" => m \in SnapshotReply
BY DEF Message, VoteRequest, VoteReply, AppendRequest, AppendReply, SnapshotRequest,
       SnapshotReply

\* Every message has a receiver.
LEMMA MessageDst ==
  ASSUME NEW m \in Message
  PROVE  m.dst \in Server
BY DEF Message, VoteRequest, VoteReply, AppendRequest, AppendReply, SnapshotRequest,
       SnapshotReply

\* The invariant that is inductive: an index computed from a log is a natural
\* number because logs are consecutive, logs stay consecutive because the types
\* hold, and a restart preserves both because the disk holds the log.
IInv == TypeOK /\ LogContiguous /\ Durable

\* What IInv says of the log of a server that runs.
LEMMA RunningLog ==
  ASSUME IInv, NEW s \in Server, Alive(s)
  PROVE  /\ IsLog(Log[s], Entry)
         /\ Len(Log[s]) \in Nat \ {0}
         /\ Base(Log[s]) \in Nat
         /\ Log[s][1] \in Entry
         /\ getLastCommandIndex(Log[s]) = Base(Log[s]) + Len(Log[s]) - 1
         /\ getLastCommandIndex(Log[s]) \in Nat
         /\ getLastCommandTerm(Log[s]) \in Nat
<1>1. IsLog(Log[s], Entry)
  BY ZenonT(30) DEF IInv, TypeOK, LogContiguous, Contiguous, IsLog, Alive
<1> QED
  BY <1>1, EntryIsEntry, LastOfLog

\* Make on an empty disk establishes the invariant.
LEMMA InitIInv == Init => IInv
<1> SUFFICES ASSUME Init PROVE IInv
  OBVIOUS
<1>1. ZeroEntry \in Entry /\ <<ZeroEntry>> \in Seq(Entry)
  BY DEF Entry, ZeroEntry
<1>2. Base(<<ZeroEntry>>) = 0
  BY DEF Base, ZeroEntry
<1>3. TypeOK
  <2>1. NoDisk \in Stable
    BY <1>1 DEF Stable, NoDisk
  <2>2. NoElection \in Election
    BY DEF Election, NoElection
  <2>3. /\ NoDisk.CurrentTerm = 0
        /\ NoDisk.VotedFor = Nil
        /\ NoDisk.Log = <<ZeroEntry>>
    BY DEF NoDisk
  <2>4. /\ CurrentTerm \in [Server -> Nat]
        /\ VotedFor \in [Server -> Server \cup {Nil}]
        /\ Log \in [Server -> Seq(Entry)]
        /\ CommitIndex \in [Server -> Nat]
        /\ LastApplied \in [Server -> Nat]
        /\ disk \in [Server -> Stable]
    <3> DEFINE d == [s \in Server |-> NoDisk]
    <3>1. \A s \in Server : d[s] = NoDisk
      OBVIOUS
    <3>2. /\ disk = d
          /\ CurrentTerm = [s \in Server |-> d[s].CurrentTerm]
          /\ VotedFor = [s \in Server |-> d[s].VotedFor]
          /\ Log = [s \in Server |-> d[s].Log]
          /\ CommitIndex = [s \in Server |-> Base(d[s].Log)]
          /\ LastApplied = [s \in Server |-> Base(d[s].Log)]
      BY DEF Init, InitFrom
    <3>3. disk \in [Server -> Stable]
      BY <2>1, <3>2
    <3> HIDE DEF d
    <3>4. CurrentTerm \in [Server -> Nat] /\ VotedFor \in [Server -> Server \cup {Nil}]
      BY <2>3, <3>1, <3>2
    <3>5. Log \in [Server -> Seq(Entry)]
      BY <1>1, <2>3, <3>1, <3>2, ZenonT(30)
    <3>6. CommitIndex \in [Server -> Nat] /\ LastApplied \in [Server -> Nat]
      BY <1>2, <2>3, <3>1, <3>2
    <3> QED BY <3>3, <3>4, <3>5, <3>6
  <2>5. /\ State \in [Server -> {"Follower", "Candidate", "Leader"}]
        /\ Votes \in [Server -> Nat]
        /\ NextIndex \in [Server -> [Server -> Nat]]
        /\ MatchIndex \in [Server -> [Server -> Nat]]
        /\ AppendEntryCh \in [Server -> BOOLEAN]
        /\ loop \in [Server -> LoopPlace]
        /\ election \in [Server -> Election]
        /\ starting \in [Server -> SUBSET Nat]
    BY <2>2 DEF Init, InitFrom, LoopPlace
  <2>6. /\ snapshot \in [Server -> Nat]
        /\ torn \in BOOLEAN
        /\ snapMsgs \in [Server -> SUBSET Nat]
        /\ pending \in [Server -> SUBSET Nat]
        /\ svc \in [Server -> Nat]
        /\ delivered \subseteq Nat \X (Value \cup {Nil})
        /\ net \subseteq Message
        /\ crashes \in Nat
    BY ZenonT(30) DEF Init, InitFrom
  <2> QED
    BY <2>4, <2>5, <2>6, ZenonT(30) DEF TypeOK
<1>4. LogContiguous
  BY DEF LogContiguous, Contiguous, Base, Init, InitFrom, NoDisk, ZeroEntry
<1>5. Durable
  BY DEF Durable, Init, InitFrom, NoDisk
<1> QED BY <1>3, <1>4, <1>5 DEF IInv

-----------------------------------------------------------------------------
\* What the building blocks of the actions preserve.

\* A step that changes nothing durable and sends nothing; it may forget a vote.
LEMMA SameLogs ==
  ASSUME LogContiguous, Durable, CurrentTerm' = CurrentTerm, Log' = Log, disk' = disk,
         \A t \in Server : VotedFor'[t] \in {Nil, VotedFor[t]},
         net' \subseteq net
  PROVE  LogContiguous' /\ Durable'
<1>1. LogContiguous'
  BY DEF LogContiguous, Contiguous
<1>2. Durable'
  BY DEF Durable
<1> QED BY <1>1, <1>2

\* A step that unchanges everything.
LEMMA StutterIInv ==
  ASSUME IInv, UNCHANGED vars
  PROVE  IInv'
<1>1. TypeOK'
  BY ZenonT(30) DEF IInv, TypeOK, vars, serverVars, logVars, leaderVars, loopVars, diskVars, serviceVars
<1>2. LogContiguous' /\ Durable'
  BY SameLogs DEF IInv, vars, serverVars, logVars, diskVars
<1> QED BY <1>1, <1>2 DEF IInv

\* persist() writes a well-formed state to the disk, and the disk is up to date.
LEMMA PersistType ==
  ASSUME IInv, NEW s \in Server,
         CurrentTerm' \in [Server -> Nat],
         VotedFor' \in [Server -> Server \cup {Nil}],
         Log' \in [Server -> Seq(Entry)],
         \A t \in Server \ {s} : /\ CurrentTerm'[t] = CurrentTerm[t]
                                  /\ VotedFor'[t] = VotedFor[t]
                                  /\ Log'[t] = Log[t],
         Contiguous(Log'[s], Base(Log'[s])),
         persist(s)
  PROVE  /\ disk' \in [Server -> Stable]
         /\ \A t \in Server : Contiguous(Log'[t], Base(Log'[t]))
         /\ \A t \in Server : Contiguous(disk'[t].Log, Base(disk'[t].Log))
         /\ Durable'
<1> DEFINE new == [CurrentTerm |-> CurrentTerm'[s], VotedFor |-> VotedFor'[s], Log |-> Log'[s]]
<1>1. /\ new \in Stable
      /\ new.CurrentTerm = CurrentTerm'[s]
      /\ new.VotedFor = VotedFor'[s]
      /\ new.Log = Log'[s]
  BY DEF Stable
<1>2. disk \in [Server -> Stable] /\ disk' = [disk EXCEPT ![s] = new]
  BY DEF IInv, TypeOK, persist
<1> HIDE DEF new
<1>3. \A t \in Server : disk'[t] = IF t = s THEN new ELSE disk[t]
  BY <1>2
<1>4. /\ \A t \in Server : Contiguous(Log[t], Base(Log[t]))
      /\ \A t \in Server : Contiguous(disk[t].Log, Base(disk[t].Log))
  BY DEF IInv, LogContiguous
<1>5. Durable'
  BY <1>1, <1>3, ZenonT(30) DEF IInv, Durable
<1> QED
  BY <1>1, <1>2, <1>3, <1>4, <1>5, ZenonT(30)

\* persist() after a change of the term or the vote only.
LEMMA PersistSameLog ==
  ASSUME IInv, NEW s \in Server,
         CurrentTerm' \in [Server -> Nat],
         VotedFor' \in [Server -> Server \cup {Nil}],
         Log' = Log,
         \A t \in Server \ {s} : CurrentTerm'[t] = CurrentTerm[t] /\ VotedFor'[t] = VotedFor[t],
         persist(s)
  PROVE  /\ disk' \in [Server -> Stable]
         /\ \A t \in Server : Contiguous(disk'[t].Log, Base(disk'[t].Log))
         /\ Durable'
<1>1. Log' \in [Server -> Seq(Entry)]
  BY DEF IInv, TypeOK
<1>2. Contiguous(Log'[s], Base(Log'[s]))
  BY DEF IInv, LogContiguous
<1>3. \A t \in Server \ {s} : Log'[t] = Log[t]
  OBVIOUS
<1> QED BY <1>1, <1>2, <1>3, PersistType, ZenonT(30)

\* A request is put on the network.
LEMMA CallType ==
  ASSUME IInv, NEW m \in Message, Call(m),
         m.kind = "AppendEntries" => Contiguous(m.Entries, m.PrevLogIndex + 1)
  PROVE  /\ net' \subseteq Message
         /\ \A n \in net' :
              n.kind = "AppendEntries" => Contiguous(n.Entries, n.PrevLogIndex + 1)
BY DEF IInv, TypeOK, LogContiguous, Call

\* A handler's answer is a message, and no request.
LEMMA ReplyType ==
  ASSUME IInv, NEW m \in net, NEW r, Reply(m, r),
         m.caller # Nil => r \in Message /\ r.kind # "AppendEntries"
  PROVE  /\ net' \subseteq Message
         /\ \A n \in net' :
              n.kind = "AppendEntries" => Contiguous(n.Entries, n.PrevLogIndex + 1)
<1>1. net \subseteq Message
  BY DEF IInv, TypeOK
<1>2. \A n \in net :
        n.kind = "AppendEntries" => Contiguous(n.Entries, n.PrevLogIndex + 1)
  BY DEF IInv, LogContiguous
<1> QED
  BY <1>1, <1>2 DEF Reply

\* NextIndex[server] or MatchIndex[server] is assigned.
LEMMA MatrixUpdate ==
  ASSUME NEW f \in [Server -> [Server -> Nat]], NEW s \in Server, NEW d \in Server, NEW v \in Nat
  PROVE  [f EXCEPT ![s][d] = v] \in [Server -> [Server -> Nat]]
<1>1. [f[s] EXCEPT ![d] = v] \in [Server -> Nat]
  OBVIOUS
<1> QED BY <1>1

-----------------------------------------------------------------------------
\* Crashes.

\* The requests of a crashed server stay requests.
LEMMA OrphanType ==
  ASSUME IInv, NEW s \in Server, NEW rpcs \in SUBSET net
  PROVE  /\ Orphan(s, rpcs) \subseteq Message
         /\ \A n \in Orphan(s, rpcs) :
              n.kind = "AppendEntries" => Contiguous(n.Entries, n.PrevLogIndex + 1)
<1> SUFFICES ASSUME NEW m \in rpcs, ~(m.caller = s /\ m.kind \notin Requests),
                    NEW n, n = IF m.caller = s THEN [m EXCEPT !.caller = Nil] ELSE m
             PROVE  /\ n \in Message
                    /\ n.kind = "AppendEntries" => Contiguous(n.Entries, n.PrevLogIndex + 1)
  BY DEF Orphan
<1>1. /\ m \in Message
      /\ m.kind = "AppendEntries" => Contiguous(m.Entries, m.PrevLogIndex + 1)
  BY DEF IInv, TypeOK, LogContiguous
<1>2. CASE m.caller # s
  BY <1>1, <1>2
<1>3. CASE m.caller = s
  <2>1. m.kind \in Requests /\ n = [m EXCEPT !.caller = Nil]
    BY <1>3
  <2>2. CASE m.kind = "RequestVote"
    <3>1. m \in VoteRequest
      BY <1>1, <2>2, MessageKinds
    <3>2. n \in VoteRequest /\ n.kind = "RequestVote"
      BY <2>1, <3>1 DEF VoteRequest
    <3> QED BY <3>2 DEF Message
  <2>3. CASE m.kind = "AppendEntries"
    <3>1. m \in AppendRequest
      BY <1>1, <2>3, MessageKinds
    <3>2. n \in AppendRequest /\ n.Entries = m.Entries /\ n.PrevLogIndex = m.PrevLogIndex
      BY <2>1, <3>1 DEF AppendRequest
    <3> QED BY <1>1, <2>3, <3>2 DEF Message
  <2>4. CASE m.kind = "InstallSnapshot"
    <3>1. m \in SnapshotRequest
      BY <1>1, <2>4, MessageKinds
    <3>2. n \in SnapshotRequest /\ n.kind = "InstallSnapshot"
      BY <2>1, <3>1 DEF SnapshotRequest
    <3> QED BY <3>2 DEF Message
  <2> QED BY <2>1, <2>2, <2>3, <2>4 DEF Requests
<1> QED BY <1>2, <1>3

\* Make restores a well-formed state from a well-formed disk.
LEMMA MakeFromIInv ==
  ASSUME IInv, NEW s \in Server, NEW d \in Stable, IsLog(d.Log, Entry), NEW snap \in Nat,
         NEW rpcs \in SUBSET net, MakeFrom(s, d, snap, rpcs), torn' \in BOOLEAN
  PROVE  IInv'
<1>1. TypeOK /\ LogContiguous /\ Durable
  BY DEF IInv
<1>2. Base(d.Log) \in Nat
  BY EntryIsEntry, LastOfLog
<1>3. d.CurrentTerm \in Nat /\ d.VotedFor \in Server \cup {Nil} /\ d.Log \in Seq(Entry)
  BY DEF Stable
<1>4. /\ net' \subseteq Message
      /\ \A n \in net' :
           n.kind = "AppendEntries" => Contiguous(n.Entries, n.PrevLogIndex + 1)
  BY OrphanType DEF MakeFrom
<1>5. NoElection \in Election
  BY DEF NoElection, Election
<1>6. /\ State' \in [Server -> {"Follower", "Candidate", "Leader"}]
      /\ CurrentTerm' \in [Server -> Nat]
      /\ VotedFor' \in [Server -> Server \cup {Nil}]
      /\ Votes' \in [Server -> Nat]
      /\ Log' \in [Server -> Seq(Entry)]
      /\ CommitIndex' \in [Server -> Nat]
      /\ LastApplied' \in [Server -> Nat]
      /\ disk' \in [Server -> Stable]
      /\ snapshot' \in [Server -> Nat]
  BY <1>1, <1>2, <1>3, ZenonT(30) DEF MakeFrom, TypeOK
<1>7. /\ NextIndex' \in [Server -> [Server -> Nat]]
      /\ MatchIndex' \in [Server -> [Server -> Nat]]
  <2>1. [p \in Server |-> 1] \in [Server -> Nat] /\ [p \in Server |-> 0] \in [Server -> Nat]
    OBVIOUS
  <2> QED BY <1>1, <2>1 DEF MakeFrom, TypeOK
<1>8. /\ AppendEntryCh' \in [Server -> BOOLEAN]
      /\ loop' \in [Server -> LoopPlace]
      /\ election' \in [Server -> Election]
      /\ starting' \in [Server -> SUBSET Nat]
      /\ pending' \in [Server -> SUBSET Nat]
      /\ snapMsgs' \in [Server -> SUBSET Nat]
      /\ svc' \in [Server -> Nat]
      /\ delivered' = delivered
      /\ crashes' \in Nat
  BY <1>1, <1>5 DEF MakeFrom, TypeOK, LoopPlace
<1>9. TypeOK'
  BY <1>1, <1>4, <1>6, <1>7, <1>8, ZenonT(30) DEF TypeOK
<1>10. \A t \in Server : /\ disk'[t] = IF t = s THEN d ELSE disk[t]
                         /\ Log'[t] = IF t = s THEN d.Log ELSE Log[t]
                         /\ CurrentTerm'[t] = IF t = s THEN d.CurrentTerm ELSE CurrentTerm[t]
                         /\ VotedFor'[t] = IF t = s THEN d.VotedFor ELSE VotedFor[t]
  BY <1>1, ZenonT(30) DEF MakeFrom, TypeOK
<1>11. LogContiguous'
  <2>1. Contiguous(d.Log, Base(d.Log))
    BY DEF IsLog, Contiguous
  <2> QED BY <1>1, <1>4, <1>10, <2>1, ZenonT(30) DEF LogContiguous
<1>12. Durable'
  BY <1>1, <1>10 DEF Durable
<1> QED BY <1>9, <1>11, <1>12 DEF IInv

\* The disk of a server that runs.
LEMMA DiskOfRunning ==
  ASSUME IInv, NEW s \in Server, Alive(s)
  PROVE  disk[s] \in Stable /\ IsLog(disk[s].Log, Entry)
BY RunningLog, ZenonT(30) DEF IInv, TypeOK, Durable

\* A crash followed by Make on what was saved keeps the invariant.
LEMMA RestartIInv ==
  ASSUME IInv, NEW s \in Server, Alive(s), Restart(s)
  PROVE  IInv'
<1>1. snapshot[s] \in Nat /\ torn' \in BOOLEAN
  BY DEF IInv, TypeOK, Restart
<1> QED BY <1>1, DiskOfRunning, MakeFromIInv, ZenonT(30) DEF Restart
=============================================================================
