-------------------------------- MODULE Raft --------------------------------
(***************************************************************************)
(* The replicated log of src/src/raft/raft.go: a cluster of Raft servers,  *)
(* the goroutines each of them runs, the lossy network between them        *)
(* (src/src/labrpc) and the disk each of them restarts from                *)
(* (src/src/raft/persister.go).                                            *)
(*                                                                         *)
(* One action is one critical section of rf.mu, the unit between which     *)
(* goroutines interleave.  The main loop of Make is a process with a       *)
(* program counter, loop; a call that takes the lock several times (Start, *)
(* updateToCandidate) takes as many steps.  An RPC handler holds the lock  *)
(* from its first to its last line and is one action.  Time is absent: a   *)
(* timer may fire whenever the select that listens to it runs.  Where the  *)
(* code would index a slice out of range the step is not enabled: the      *)
(* process is gone, and what it leaves behind is what Restart finds.       *)
(***************************************************************************)
EXTENDS RaftLog

CONSTANTS
  Server,         \* the indices of rf.peers
  Value,          \* the commands clients start
  Nil,            \* VotedFor = -1, and the command of the zero entry
  TakeSnapshots,  \* does the service snapshot (maxraftstate # -1)?
  Timers,         \* bound: the servers whose election timer ever fires
  MaxTerm,        \* bound: no election beyond this term
  MaxIndex,       \* bound: no Start beyond this index
  MaxInFlight,    \* bound: RPCs on their way at one time
  MaxCrashes      \* bound: crashes in a behaviour

ASSUME ServerAssumption == IsFiniteSet(Server) /\ Server # {} /\ Nil \notin Server
ASSUME ValueAssumption == Nil \notin Value
ASSUME SnapshotAssumption == TakeSnapshots \in BOOLEAN
ASSUME BoundsAssumption ==
  /\ Timers \subseteq Server
  /\ MaxTerm \in Nat
  /\ MaxIndex \in Nat
  /\ MaxInFlight \in Nat
  /\ MaxCrashes \in Nat

VARIABLES
  State,          \* "Follower", "Candidate" or "Leader"
  CurrentTerm,
  VotedFor,
  Votes,          \* votes counted in the running election
  Log,
  CommitIndex,
  LastApplied,
  NextIndex,
  MatchIndex,
  AppendEntryCh,  \* is a goroutine waiting to signal an accepted RPC?
  loop,           \* where the main loop of Make stands
  election,       \* the arguments and goroutines of the last broadcast
  starting,       \* terms of the Start calls between their two sections
  disk,           \* persister.raftstate: CurrentTerm, VotedFor, Log
  snapshot,       \* persister.snapshot: the index it covers, 0 for none
  torn,           \* has a crash separated the two saves of a snapshot?
  snapMsgs,       \* snapshots on their way to the service over ApplyCh
  pending,        \* applied indices whose StartSnapshot has not run
  svc,            \* the index the state of the service has reached
  delivered,      \* every <<index, command>> ever handed to a service
  net,            \* RPC requests and replies on their way
  crashes

serverVars == <<State, CurrentTerm, VotedFor, Votes>>
logVars == <<Log, CommitIndex, LastApplied>>
leaderVars == <<NextIndex, MatchIndex>>
loopVars == <<AppendEntryCh, loop, election, starting>>
diskVars == <<disk, snapshot, torn, crashes>>
serviceVars == <<snapMsgs, pending, svc, delivered>>
vars == <<serverVars, logVars, leaderVars, loopVars, diskVars, serviceVars, net>>

-----------------------------------------------------------------------------
\* Types.

Entry == [CommandIndex : Nat, CommandTerm : Nat, Command : Value \cup {Nil}]

\* rf.Log[0] of a server that has no state: Command{CommandIndex: 0}.
ZeroEntry == [CommandIndex |-> 0, CommandTerm |-> 0, Command |-> Nil]

\* The place in the main loop: the locked section that applies, the getState
\* that picks a branch, the select of each branch, and the three sections of
\* updateToCandidate after setState.
LoopPlace ==
  {"apply", "state", "follower", "candidate", "leader", "elect", "args", "broadcast"}

Stable == [CurrentTerm : Nat, VotedFor : Server \cup {Nil}, Log : Seq(Entry)]

Election ==
  [Term : Nat, LastLogIndex : Nat, LastLogTerm : Nat,  \* RequestVoteArgs
   term : Nat,                                         \* the goroutines' term
   unsent : SUBSET Server]                             \* those not yet run

NoElection ==
  [Term |-> 0, LastLogIndex |-> 0, LastLogTerm |-> 0, term |-> 0, unsent |-> {}]

\* caller is the goroutine waiting for the answer; Nil once its server has
\* crashed.  term is the term the calling goroutine works for.
VoteRequest ==
  [kind : {"RequestVote"}, caller : Server \cup {Nil}, dst : Server, term : Nat,
   Term : Nat, CandidateId : Server, LastLogIndex : Nat, LastLogTerm : Nat]
VoteReply ==
  [kind : {"RequestVoteReply"}, caller : Server, dst : Server, term : Nat,
   Term : Nat, VoteGranted : BOOLEAN]
AppendRequest ==
  [kind : {"AppendEntries"}, caller : Server \cup {Nil}, dst : Server, Term : Nat,
   PrevLogIndex : Nat, PrevLogTerm : Nat, Entries : Seq(Entry), LeaderCommit : Nat]
AppendReply ==
  [kind : {"AppendEntriesReply"}, caller : Server, dst : Server, term : Nat,
   PrevLogIndex : Nat, sent : Nat, Term : Nat, Success : BOOLEAN, NextIndex : Nat]
SnapshotRequest ==
  [kind : {"InstallSnapshot"}, caller : Server \cup {Nil}, dst : Server, Term : Nat,
   SnapshotIndex : Nat, SnapshotData : Nat, LastSnapshotCommand : Entry]
SnapshotReply ==
  [kind : {"InstallSnapshotReply"}, caller : Server, dst : Server, term : Nat,
   last : Nat, Term : Nat, Success : BOOLEAN]

Message ==
  VoteRequest \cup VoteReply \cup AppendRequest \cup AppendReply
    \cup SnapshotRequest \cup SnapshotReply

Requests == {"RequestVote", "AppendEntries", "InstallSnapshot"}

-----------------------------------------------------------------------------
\* Helpers.

Peers(s) == Server \ {s}

\* Mutant: the log is not encoded.
persistNoLog(s) ==
  disk' = [disk EXCEPT ![s].CurrentTerm = CurrentTerm'[s], ![s].VotedFor = VotedFor'[s]]

\* persist(): the three durable fields as the step leaves them.
persist(s) ==
  disk' = [disk EXCEPT ![s] = [CurrentTerm |-> CurrentTerm'[s],
                               VotedFor |-> VotedFor'[s],
                               Log |-> Log'[s]]]

\* Call() puts a request on the network.
Call(m) ==
  /\ Cardinality(net) < MaxInFlight
  /\ net' = net \cup {m}

\* The handler of m returned r; nobody waits for it after a crash of the caller.
Reply(m, r) == net' = (net \ {m}) \cup (IF m.caller = Nil THEN {} ELSE {r})

Consume(m) == net' = net \ {m}

\* go func() { rf.AppendEntryCh <- struct{}{} }()
SignalAppendEntry(s) == AppendEntryCh' = [AppendEntryCh EXCEPT ![s] = TRUE]

\* <-rf.AppendEntryCh: other goroutines may still be waiting behind this one.
ReceiveAppendEntry(s) ==
  /\ AppendEntryCh[s]
  /\ \E more \in BOOLEAN : AppendEntryCh' = [AppendEntryCh EXCEPT ![s] = more]

Goto(s, place) == loop' = [loop EXCEPT ![s] = place]

\* Mutant: handlers do not look at the term.
OldTermIgnored(s, m) == FALSE

\* The first test of every handler: the caller is behind.
OldTerm(s, m) == m.Term < CurrentTerm[s]

\* Mutant: only the state is checked.
StillCandidateAnyTerm(s, term) == State[s] = "Candidate"

\* What a goroutine checks after its call: did its server move on meanwhile?
StillCandidate(s, term) == State[s] = "Candidate" /\ CurrentTerm[s] = term

StillLeader(s, term) == State[s] = "Leader" /\ CurrentTerm[s] = term

\* A process whose log slice is empty panics at its next use of rf.Log[0].
Alive(s) == Log[s] # <<>>

-----------------------------------------------------------------------------
(***************************************************************************)
(* The main loop of Make.                                                  *)
(***************************************************************************)

\* The locked section at the end of an iteration: the committed entries that
\* are not applied yet go to the service over applyCh, one by one.
Apply(s) ==
  LET first == calculateLocalIndex(Log[s], LastApplied[s]) + 1
      last == calculateLocalIndex(Log[s], CommitIndex[s])
      entries == {At(Log[s], i) : i \in first .. last}
  IN  /\ loop[s] = "apply"
      /\ IF CommitIndex[s] > LastApplied[s]
           THEN /\ InLog(Log[s], LastApplied[s] + 1)
                /\ InLog(Log[s], CommitIndex[s])
                /\ delivered' = delivered \cup {<<e.CommandIndex, e.Command>> : e \in entries}
                /\ svc' = [svc EXCEPT ![s] = At(Log[s], last).CommandIndex]
                /\ pending' = [pending EXCEPT ![s] =
                     IF TakeSnapshots THEN @ \cup {e.CommandIndex : e \in entries} ELSE @]
                /\ LastApplied' = [LastApplied EXCEPT ![s] = CommitIndex[s]]
           ELSE UNCHANGED <<delivered, svc, pending, LastApplied>>
      /\ Goto(s, "state")
      /\ UNCHANGED <<serverVars, Log, CommitIndex, leaderVars, AppendEntryCh, election,
                     starting, diskVars, snapMsgs, net>>

\* switch rf.getState()
ReadState(s) ==
  /\ loop[s] = "state"
  /\ Goto(s, CASE State[s] = "Follower" -> "follower"
               [] State[s] = "Candidate" -> "candidate"
               [] OTHER -> "leader")
  /\ UNCHANGED <<serverVars, logVars, leaderVars, AppendEntryCh, election, starting,
                 diskVars, serviceVars, net>>

\* A follower told of a leader only resets its timer.  (A signal on
\* RequestVoteCh does the same; with nothing newly committed it changes nothing.)
FollowerHears(s) ==
  /\ loop[s] = "follower"
  /\ ReceiveAppendEntry(s)
  /\ Goto(s, "apply")
  /\ UNCHANGED <<serverVars, logVars, leaderVars, election, starting, diskVars,
                 serviceVars, net>>

\* A candidate or leader told of a leader: updateToFollower, which neither
\* looks at the term nor persists the cleared vote.
updateToFollower(s) ==
  /\ loop[s] \in {"candidate", "leader"}
  /\ ReceiveAppendEntry(s)
  /\ State' = [State EXCEPT ![s] = "Follower"]
  /\ VotedFor' = [VotedFor EXCEPT ![s] = Nil]
  /\ Goto(s, "apply")
  /\ UNCHANGED <<CurrentTerm, Votes, logVars, leaderVars, election, starting, diskVars,
                 serviceVars, net>>

\* The election timer fires; updateToCandidate begins with setState(Candidate).
Timeout(s) ==
  /\ s \in Timers /\ CurrentTerm[s] < MaxTerm
  /\ loop[s] \in {"follower", "candidate"}
  /\ State' = [State EXCEPT ![s] = "Candidate"]
  /\ Goto(s, "elect")
  /\ UNCHANGED <<CurrentTerm, VotedFor, Votes, logVars, leaderVars, AppendEntryCh,
                 election, starting, diskVars, serviceVars, net>>

\* updateBeforeRequestVote, whatever a handler did to State in between.
updateBeforeRequestVote(s) ==
  /\ loop[s] = "elect"
  /\ CurrentTerm[s] < MaxTerm
  /\ CurrentTerm' = [CurrentTerm EXCEPT ![s] = @ + 1]
  /\ VotedFor' = [VotedFor EXCEPT ![s] = s]
  /\ Votes' = [Votes EXCEPT ![s] = 1]
  /\ Log' = Log
  /\ persist(s)
  /\ Goto(s, "args")
  /\ UNCHANGED <<State, CommitIndex, LastApplied, leaderVars, AppendEntryCh, election,
                 starting, snapshot, torn, crashes, serviceVars, net>>

\* updateToCandidate fills in the RequestVote arguments.
FillArgs(s) ==
  /\ loop[s] = "args"
  /\ election' = [election EXCEPT ![s] =
       [Term |-> CurrentTerm[s],
        LastLogIndex |-> getLastCommandIndex(Log[s]),
        LastLogTerm |-> getLastCommandTerm(Log[s]),
        term |-> 0,
        unsent |-> {}]]
  /\ Goto(s, "broadcast")
  /\ UNCHANGED <<serverVars, logVars, leaderVars, AppendEntryCh, starting, diskVars,
                 serviceVars, net>>

\* broadcastRequestVote reads the term again and starts one goroutine per peer.
broadcastRequestVote(s) ==
  /\ loop[s] = "broadcast"
  /\ election' = [election EXCEPT ![s] =
       [@ EXCEPT !.term = CurrentTerm[s], !.unsent = Peers(s)]]
  /\ Goto(s, "apply")
  /\ UNCHANGED <<serverVars, logVars, leaderVars, AppendEntryCh, starting, diskVars,
                 serviceVars, net>>

\* Mutant: the guess about the followers' logs is taken for knowledge.
testLeaderGuesses(s) ==
  /\ loop[s] = "candidate"
  /\ IF Votes[s] > Cardinality(Server) \div 2
       THEN /\ State' = [State EXCEPT ![s] = "Leader"]
            /\ NextIndex' = [NextIndex EXCEPT ![s] =
                 [p \in Server |-> getLastCommandIndex(Log[s]) + 1]]
            /\ MatchIndex' = [MatchIndex EXCEPT ![s] =
                 [p \in Server |-> getLastCommandIndex(Log[s])]]
       ELSE UNCHANGED <<State, leaderVars>>
  /\ Goto(s, "apply")
  /\ UNCHANGED <<CurrentTerm, VotedFor, Votes, logVars, AppendEntryCh, election, starting,
                 diskVars, serviceVars, net>>

\* testLeader, with initNextIndexAndMatchIndex.
testLeader(s) ==
  /\ loop[s] = "candidate"
  /\ IF Votes[s] > Cardinality(Server) \div 2
       THEN /\ State' = [State EXCEPT ![s] = "Leader"]
            /\ NextIndex' = [NextIndex EXCEPT ![s] =
                 [p \in Server |-> getLastCommandIndex(Log[s]) + 1]]
            /\ MatchIndex' = [MatchIndex EXCEPT ![s] = [p \in Server |-> 0]]
       ELSE UNCHANGED <<State, leaderVars>>
  /\ Goto(s, "apply")
  /\ UNCHANGED <<CurrentTerm, VotedFor, Votes, logVars, AppendEntryCh, election, starting,
                 diskVars, serviceVars, net>>

\* The default branch of a leader ends with checkCommitIndex, which looks
\* neither at State nor at the term of the broadcast before it.
checkCommitIndex(s) ==
  /\ loop[s] = "leader"
  /\ \E c \in {MatchIndex[s][p] : p \in Server} :
       /\ findMajority(MatchIndex[s], c)
       /\ c > CommitIndex[s] => InLog(Log[s], c)
       /\ CommitIndex' = [CommitIndex EXCEPT ![s] =
            IF /\ c > @
               /\ At(Log[s], calculateLocalIndex(Log[s], c)).CommandTerm = CurrentTerm[s]
              THEN c ELSE @]
  /\ Goto(s, "apply")
  /\ UNCHANGED <<serverVars, Log, LastApplied, leaderVars, AppendEntryCh, election,
                 starting, diskVars, serviceVars, net>>

-----------------------------------------------------------------------------
(***************************************************************************)
(* RequestVote.                                                            *)
(***************************************************************************)

\* sendSingleRequestVote up to the call.  A goroutine that finds the state or
\* the term changed returns; one that has not run yet may still find them right.
SendRequestVote(s, d) ==
  /\ d \in election[s].unsent
  /\ StillCandidate(s, election[s].term)
  /\ Call([kind |-> "RequestVote", caller |-> s, dst |-> d, term |-> election[s].term,
           Term |-> election[s].Term, CandidateId |-> s,
           LastLogIndex |-> election[s].LastLogIndex,
           LastLogTerm |-> election[s].LastLogTerm])
  /\ election' = [election EXCEPT ![s].unsent = @ \ {d}]
  /\ UNCHANGED <<serverVars, logVars, leaderVars, AppendEntryCh, loop, starting, diskVars,
                 serviceVars>>

\* Is the candidate's log behind this server's?
LogBehind(s, m) ==
  \/ m.LastLogTerm < getLastCommandTerm(Log[s])
  \/ /\ m.LastLogTerm = getLastCommandTerm(Log[s])
     /\ m.LastLogIndex < getLastCommandIndex(Log[s])

\* The handler.  A granted vote also signals RequestVoteCh (see FollowerHears).
RequestVote(m) ==
  LET s == m.dst
      newTerm == m.Term > CurrentTerm[s]
      vote == IF newTerm THEN Nil ELSE VotedFor[s]
      refused == OldTerm(s, m) \/ LogBehind(s, m)
      granted == ~refused /\ vote = Nil
  IN  /\ m.kind = "RequestVote"
      /\ CurrentTerm' = [CurrentTerm EXCEPT ![s] = IF newTerm THEN m.Term ELSE @]
      /\ State' = [State EXCEPT ![s] = IF newTerm THEN "Follower" ELSE @]
      /\ VotedFor' = [VotedFor EXCEPT ![s] = IF granted THEN m.CandidateId ELSE vote]
      /\ Log' = Log
      /\ persist(s)
      /\ Reply(m, [kind |-> "RequestVoteReply", caller |-> m.caller, dst |-> s,
                   term |-> m.term, VoteGranted |-> granted,
                   Term |-> IF refused THEN CurrentTerm'[s] ELSE 0])
      /\ UNCHANGED <<Votes, CommitIndex, LastApplied, leaderVars, loopVars, snapshot, torn,
                     crashes, serviceVars>>

\* A caller learns of a higher term: the vote is cleared and both are saved.
StepDown(s, term) ==
  /\ CurrentTerm' = [CurrentTerm EXCEPT ![s] = term]
  /\ State' = [State EXCEPT ![s] = "Follower"]
  /\ VotedFor' = [VotedFor EXCEPT ![s] = Nil]
  /\ Log' = Log
  /\ persist(s)

\* sendSingleRequestVote after the call.
RequestVoteReturns(m) ==
  LET s == m.caller
      current == StillCandidate(s, m.term)
  IN  /\ m.kind = "RequestVoteReply"
      /\ IF current /\ ~m.VoteGranted /\ m.Term > CurrentTerm[s]
           THEN StepDown(s, m.Term)
           ELSE UNCHANGED <<State, CurrentTerm, VotedFor, Log, disk>>
      /\ Votes' = [Votes EXCEPT ![s] = IF current /\ m.VoteGranted THEN @ + 1 ELSE @]
      /\ Consume(m)
      /\ UNCHANGED <<CommitIndex, LastApplied, leaderVars, loopVars, snapshot, torn,
                     crashes, serviceVars>>

-----------------------------------------------------------------------------
(***************************************************************************)
(* AppendEntries.                                                          *)
(***************************************************************************)

\* sendSingleAppendEntries up to the call.  broadcastAppendEntries starts its
\* goroutines from the loop of a leader and from every Start; each works only
\* while its server is still leader in the term the broadcast read.
SendAppendEntries(s, d) ==
  LET prev == NextIndex[s][d] - 1
  IN  /\ State[s] = "Leader"
      /\ d # s
      /\ NextIndex[s][d] > Base(Log[s])
      /\ InLog(Log[s], prev)
      /\ Call([kind |-> "AppendEntries", caller |-> s, dst |-> d, Term |-> CurrentTerm[s],
               PrevLogIndex |-> prev,
               PrevLogTerm |-> At(Log[s], calculateLocalIndex(Log[s], prev)).CommandTerm,
               Entries |-> From(Log[s], calculateLocalIndex(Log[s], prev) + 1),
               LeaderCommit |-> CommitIndex[s]])
      /\ UNCHANGED <<serverVars, logVars, leaderVars, loopVars, diskVars, serviceVars>>

\* Mutant: the index to retry from is one too low.
AppendAnswerLow(m, success, term, next) ==
  [kind |-> "AppendEntriesReply", caller |-> m.caller, dst |-> m.dst, term |-> m.Term,
   PrevLogIndex |-> m.PrevLogIndex, sent |-> Len(m.Entries),
   Success |-> success, Term |-> term, NextIndex |-> next - 1]

AppendAnswer(m, success, term, next) ==
  [kind |-> "AppendEntriesReply", caller |-> m.caller, dst |-> m.dst, term |-> m.Term,
   PrevLogIndex |-> m.PrevLogIndex, sent |-> Len(m.Entries),
   Success |-> success, Term |-> term, NextIndex |-> next]

\* Mutant: the leader's commit index is taken whether it is news or not.
NewCommitIndexAlways(commit, leaderCommit, last) ==
  IF leaderCommit > last THEN last ELSE leaderCommit

\* The commit index after an accepted request, last being the log's last index.
NewCommitIndex(commit, leaderCommit, last) ==
  IF leaderCommit > commit
    THEN IF leaderCommit > last THEN last ELSE leaderCommit
    ELSE commit

\* "check if the RPC is a stale RPC": everything sent is in the log already.
IsStale(s, m) ==
  /\ m.PrevLogIndex + Len(m.Entries) <= getLastCommandIndex(Log[s])
  /\ testStaleRPC(Log[s], m.PrevLogIndex, m.PrevLogTerm, m.Entries)

TooShort(s, m) == getLastCommandIndex(Log[s]) < m.PrevLogIndex

Unmatched(s, m) ==
  LET matchIndex == calculateLocalIndex(Log[s], m.PrevLogIndex)
  IN  matchIndex > -1 /\ At(Log[s], matchIndex).CommandTerm # m.PrevLogTerm

\* Refused: an old term, a log that is too short, or one that does not match,
\* which is cut.  Neither the term nor the main loop hears of the last two.
AppendEntriesRefused(m) ==
  LET s == m.dst
  IN  /\ m.kind = "AppendEntries"
      /\ \/ /\ OldTerm(s, m)
            /\ Log' = Log
            /\ Reply(m, AppendAnswer(m, FALSE, CurrentTerm[s], 0))
         \/ /\ ~OldTerm(s, m)
            /\ ~IsStale(s, m)
            /\ TooShort(s, m)
            /\ Log' = Log
            /\ Reply(m, AppendAnswer(m, FALSE, 0, getLastCommandIndex(Log[s])))
         \/ /\ ~OldTerm(s, m)
            /\ ~IsStale(s, m)
            /\ ~TooShort(s, m)
            /\ Unmatched(s, m)
            /\ Log' = [Log EXCEPT ![s] = UpTo(@, calculateLocalIndex(@, m.PrevLogIndex))]
            /\ Reply(m, AppendAnswer(m, FALSE, 0, getIndexBeforeTerm(Log[s], m.PrevLogIndex)))
      /\ UNCHANGED serverVars
      /\ persist(s)
      /\ UNCHANGED <<CommitIndex, LastApplied, leaderVars, loopVars, snapshot, torn,
                     crashes, serviceVars>>

\* Accepted, because it is stale or because the log matches at PrevLogIndex.
\* The receiver takes the sender's term and keeps its State and its vote.
AppendEntriesAccepted(m) ==
  LET s == m.dst
  IN  /\ m.kind = "AppendEntries"
      /\ ~OldTerm(s, m)
      /\ \/ /\ IsStale(s, m)
            /\ Log' = Log
         \/ /\ ~IsStale(s, m)
            /\ ~TooShort(s, m)
            /\ ~Unmatched(s, m)
            /\ Log' = [Log EXCEPT ![s] = Spliced(@, m.PrevLogIndex, m.Entries)]
      /\ CommitIndex' = [CommitIndex EXCEPT ![s] =
           NewCommitIndex(@, m.LeaderCommit, getLastCommandIndex(Log'[s]))]
      /\ CurrentTerm' = [CurrentTerm EXCEPT ![s] = m.Term]
      /\ UNCHANGED <<State, VotedFor, Votes>>
      /\ persist(s)
      /\ SignalAppendEntry(s)
      /\ Reply(m, AppendAnswer(m, TRUE, 0, 0))
      /\ UNCHANGED <<LastApplied, leaderVars, loop, election, starting, snapshot, torn,
                     crashes, serviceVars>>

\* sendSingleAppendEntries after the call.  A refusal backs NextIndex off (and
\* the goroutine sends again), an acceptance advances it, never moving it back.
AppendEntriesReturns(m) ==
  LET s == m.caller
      d == m.dst
      current == StillLeader(s, m.term)
      tmp == getIndexBeforeTerm(Log[s], m.PrevLogIndex)
      acked == m.PrevLogIndex + m.sent + 1
      next == IF NextIndex[s][d] < acked THEN acked ELSE NextIndex[s][d]
  IN  /\ m.kind = "AppendEntriesReply"
      /\ Consume(m)
      /\ \/ /\ ~current
            /\ UNCHANGED <<State, CurrentTerm, VotedFor, Log, disk, leaderVars>>
         \/ /\ current
            /\ m.Success
            /\ NextIndex' = [NextIndex EXCEPT ![s][d] = next]
            /\ MatchIndex' = [MatchIndex EXCEPT ![s][d] = next - 1]
            /\ UNCHANGED <<State, CurrentTerm, VotedFor, Log, disk>>
         \/ /\ current
            /\ ~m.Success
            /\ m.Term > CurrentTerm[s]
            /\ StepDown(s, m.Term)
            /\ UNCHANGED leaderVars
         \/ /\ current
            /\ ~m.Success
            /\ m.Term <= CurrentTerm[s]
            /\ calculateLocalIndex(Log[s], m.PrevLogIndex) < Len(Log[s])
            /\ NextIndex' = [NextIndex EXCEPT ![s][d] =
                 IF tmp < m.NextIndex THEN tmp ELSE m.NextIndex]
            /\ UNCHANGED <<State, CurrentTerm, VotedFor, Log, disk, MatchIndex>>
      /\ UNCHANGED <<Votes, CommitIndex, LastApplied, loopVars, snapshot, torn, crashes,
                     serviceVars>>

-----------------------------------------------------------------------------
(***************************************************************************)
(* Start.                                                                  *)
(***************************************************************************)

\* Start asks GetState, and gives the lock back.
StartAsks(s) ==
  /\ State[s] = "Leader"
  /\ starting' = [starting EXCEPT ![s] = @ \cup {CurrentTerm[s]}]
  /\ getLastCommandIndex(Log[s]) < MaxIndex
  /\ UNCHANGED <<serverVars, logVars, leaderVars, AppendEntryCh, loop, election, diskVars,
                 serviceVars, net>>

\* Start appends under the term it was told, without asking again.
StartAppends(s, term, v) ==
  LET index == getLastCommandIndex(Log[s]) + 1
  IN  /\ term \in starting[s]
      /\ index <= MaxIndex
      /\ starting' = [starting EXCEPT ![s] = @ \ {term}]
      /\ Log' = [Log EXCEPT ![s] = Append(@,
           [CommandIndex |-> index, CommandTerm |-> term, Command |-> v])]
      /\ UNCHANGED serverVars
      /\ persist(s)
      /\ NextIndex' = [NextIndex EXCEPT ![s][s] = index + 1]
      /\ MatchIndex' = [MatchIndex EXCEPT ![s][s] = index]
      /\ UNCHANGED <<CommitIndex, LastApplied, AppendEntryCh, loop, election, snapshot,
                     torn, crashes, serviceVars, net>>

-----------------------------------------------------------------------------
(***************************************************************************)
(* Snapshots.                                                              *)
(***************************************************************************)

\* The range test of StartSnapshot.
CanTrim(s, i) == i > Base(Log[s]) /\ i <= getLastCommandIndex(Log[s])

\* Mutant: the entry before the one the snapshot ends with is kept.
TrimmedLess(s, i) == From(Log[s], calculateLocalIndex(Log[s], i) - 1)

Trimmed(s, i) == From(Log[s], calculateLocalIndex(Log[s], i))

\* StartSnapshot, in the goroutine the service started after applying i: the
\* log is cut and saved, then the snapshot is saved.
StartSnapshot(s, i) ==
  /\ i \in pending[s]
  /\ pending' = [pending EXCEPT ![s] = @ \ {i}]
  /\ IF CanTrim(s, i)
       THEN /\ Log' = [Log EXCEPT ![s] = Trimmed(s, i)]
            /\ UNCHANGED serverVars
            /\ persist(s)
            /\ snapshot' = [snapshot EXCEPT ![s] = i]
       ELSE UNCHANGED <<serverVars, Log, disk, snapshot>>
  /\ UNCHANGED <<CommitIndex, LastApplied, leaderVars, loopVars, torn, crashes, snapMsgs,
                 svc, delivered, net>>

\* sendSingleAppendEntries and sendSingleInstallSnapshot up to the call, for a
\* peer whose next entry is gone from the log.  SnapshotIndex is never filled in.
SendInstallSnapshot(s, d) ==
  /\ State[s] = "Leader"
  /\ d # s
  /\ NextIndex[s][d] <= Base(Log[s])
  /\ Call([kind |-> "InstallSnapshot", caller |-> s, dst |-> d, Term |-> CurrentTerm[s],
           SnapshotIndex |-> 0, SnapshotData |-> snapshot[s],
           LastSnapshotCommand |-> Log[s][1]])
  /\ UNCHANGED <<serverVars, logVars, leaderVars, loopVars, diskVars, serviceVars>>

SnapshotAnswer(m, success, term) ==
  [kind |-> "InstallSnapshotReply", caller |-> m.caller, dst |-> m.dst, term |-> m.Term,
   last |-> m.LastSnapshotCommand.CommandIndex, Success |-> success, Term |-> term]

\* The two early returns of the handler.
InstallSnapshotRefused(m) ==
  LET s == m.dst
  IN  /\ m.kind = "InstallSnapshot"
      /\ \/ /\ OldTerm(s, m)
            /\ Reply(m, SnapshotAnswer(m, FALSE, CurrentTerm[s]))
         \/ /\ ~OldTerm(s, m)
            /\ m.SnapshotIndex < Base(Log[s])
            /\ Reply(m, SnapshotAnswer(m, FALSE, 0))
      /\ UNCHANGED <<serverVars, logVars, leaderVars, loopVars, diskVars, serviceVars>>

\* The rest of it: the snapshot is saved, the log becomes the one entry the
\* snapshot ends with, and a goroutine hands the snapshot to the service.
InstallSnapshotAccepted(m) ==
  LET s == m.dst
      last == m.LastSnapshotCommand.CommandIndex
  IN  /\ m.kind = "InstallSnapshot"
      /\ ~OldTerm(s, m)
      /\ m.SnapshotIndex >= Base(Log[s])
      /\ SignalAppendEntry(s)
      /\ snapshot' = [snapshot EXCEPT ![s] = m.SnapshotData]
      /\ Log' = [Log EXCEPT ![s] = <<m.LastSnapshotCommand>>]
      /\ LastApplied' = [LastApplied EXCEPT ![s] = last]
      /\ CommitIndex' = [CommitIndex EXCEPT ![s] = last]
      /\ UNCHANGED serverVars
      /\ persist(s)
      /\ snapMsgs' = [snapMsgs EXCEPT ![s] = @ \cup {m.SnapshotData}]
      /\ Reply(m, SnapshotAnswer(m, TRUE, 0))
      /\ UNCHANGED <<leaderVars, loop, election, starting, torn, crashes, pending, svc,
                     delivered>>

\* sendSingleInstallSnapshot after the call.
InstallSnapshotReturns(m) ==
  LET s == m.caller
      d == m.dst
      current == StillLeader(s, m.term)
  IN  /\ m.kind = "InstallSnapshotReply"
      /\ Consume(m)
      /\ IF current /\ m.Success
           THEN /\ NextIndex' = [NextIndex EXCEPT ![s][d] = m.last + 1]
                /\ MatchIndex' = [MatchIndex EXCEPT ![s][d] = m.last]
           ELSE UNCHANGED leaderVars
      /\ IF current /\ ~m.Success /\ m.Term > CurrentTerm[s]
           THEN StepDown(s, m.Term)
           ELSE UNCHANGED <<State, CurrentTerm, VotedFor, Log, disk>>
      /\ UNCHANGED <<Votes, CommitIndex, LastApplied, loopVars, snapshot, torn, crashes,
                     serviceVars>>

\* The service receives a snapshot from ApplyCh and replaces its state.
ServiceReceives(s, i) ==
  /\ i \in snapMsgs[s]
  /\ snapMsgs' = [snapMsgs EXCEPT ![s] = @ \ {i}]
  /\ svc' = [svc EXCEPT ![s] = i]
  /\ UNCHANGED <<serverVars, logVars, leaderVars, loopVars, diskVars, pending, delivered, net>>

-----------------------------------------------------------------------------
(***************************************************************************)
(* Crashes and the network.                                                *)
(***************************************************************************)

\* What becomes of the RPCs when s crashes: replies to it are lost, nobody
\* waits for the answers to its requests any more.
Orphan(s, rpcs) ==
  {IF m.caller = s THEN [m EXCEPT !.caller = Nil] ELSE m :
     m \in {n \in rpcs : ~(n.caller = s /\ n.kind \notin Requests)}}

\* Make on a server that finds d and snap on its disk, and rpcs on the network:
\* NextIndex and MatchIndex are set before readPersist, from the empty log.
MakeFrom(s, d, snap, rpcs) ==
  /\ crashes < MaxCrashes
  /\ crashes' = crashes + 1
  /\ disk' = [disk EXCEPT ![s] = d]
  /\ snapshot' = [snapshot EXCEPT ![s] = snap]
  /\ State' = [State EXCEPT ![s] = "Follower"]
  /\ CurrentTerm' = [CurrentTerm EXCEPT ![s] = d.CurrentTerm]
  /\ VotedFor' = [VotedFor EXCEPT ![s] = d.VotedFor]
  /\ Votes' = [Votes EXCEPT ![s] = 0]
  /\ Log' = [Log EXCEPT ![s] = d.Log]
  /\ CommitIndex' = [CommitIndex EXCEPT ![s] = Base(d.Log)]
  /\ LastApplied' = [LastApplied EXCEPT ![s] = Base(d.Log)]
  /\ NextIndex' = [NextIndex EXCEPT ![s] = [p \in Server |-> 1]]
  /\ MatchIndex' = [MatchIndex EXCEPT ![s] = [p \in Server |-> 0]]
  /\ AppendEntryCh' = [AppendEntryCh EXCEPT ![s] = FALSE]
  /\ loop' = [loop EXCEPT ![s] = "state"]
  /\ election' = [election EXCEPT ![s] = NoElection]
  /\ starting' = [starting EXCEPT ![s] = {}]
  /\ snapMsgs' = [snapMsgs EXCEPT ![s] = IF snap = 0 THEN {} ELSE {snap}]
  /\ pending' = [pending EXCEPT ![s] = {}]
  /\ svc' = [svc EXCEPT ![s] = 0]
  /\ net' = Orphan(s, rpcs)
  /\ UNCHANGED delivered

\* A crash while nobody holds the lock, and the restart after it.
Restart(s) ==
  /\ MakeFrom(s, disk[s], snapshot[s], net)
  /\ UNCHANGED torn

\* A crash in StartSnapshot, after persist and before SaveSnapshot.
CrashInStartSnapshot(s, i) ==
  /\ i \in pending[s]
  /\ CanTrim(s, i)
  /\ MakeFrom(s, [CurrentTerm |-> CurrentTerm[s], VotedFor |-> VotedFor[s],
                  Log |-> Trimmed(s, i)], snapshot[s], net)
  /\ torn' = TRUE

\* A crash in InstallSnapshot, after SaveSnapshot and before persist.
CrashInInstallSnapshot(m) ==
  /\ m.kind = "InstallSnapshot"
  /\ ~OldTerm(m.dst, m)
  /\ m.SnapshotIndex >= Base(Log[m.dst])
  /\ MakeFrom(m.dst, disk[m.dst], m.SnapshotData, net \ {m})
  /\ torn' = TRUE

\* labrpc drops a request or a reply.
Lose(m) ==
  /\ Consume(m)
  /\ UNCHANGED <<serverVars, logVars, leaderVars, loopVars, diskVars, serviceVars>>

-----------------------------------------------------------------------------
\* Make on every server, each finding d[s] and snap[s] on its disk.
InitFrom(d, snap) ==
  /\ State = [s \in Server |-> "Follower"]
  /\ CurrentTerm = [s \in Server |-> d[s].CurrentTerm]
  /\ VotedFor = [s \in Server |-> d[s].VotedFor]
  /\ Votes = [s \in Server |-> 0]
  /\ Log = [s \in Server |-> d[s].Log]
  /\ CommitIndex = [s \in Server |-> Base(d[s].Log)]
  /\ LastApplied = [s \in Server |-> Base(d[s].Log)]
  /\ NextIndex = [s \in Server |-> [p \in Server |-> 1]]
  /\ MatchIndex = [s \in Server |-> [p \in Server |-> 0]]
  /\ AppendEntryCh = [s \in Server |-> FALSE]
  /\ loop = [s \in Server |-> "state"]
  /\ election = [s \in Server |-> NoElection]
  /\ starting = [s \in Server |-> {}]
  /\ disk = d
  /\ snapshot = snap
  /\ torn = FALSE
  /\ snapMsgs = [s \in Server |-> IF snap[s] = 0 THEN {} ELSE {snap[s]}]
  /\ pending = [s \in Server |-> {}]
  /\ svc = [s \in Server |-> 0]
  /\ delivered = {}
  /\ net = {}
  /\ crashes = 0

NoDisk == [CurrentTerm |-> 0, VotedFor |-> Nil, Log |-> <<ZeroEntry>>]

Init == InitFrom([s \in Server |-> NoDisk], [s \in Server |-> 0])

LoopStep(s) ==
  \/ Apply(s)
  \/ ReadState(s)
  \/ FollowerHears(s)
  \/ updateToFollower(s)
  \/ Timeout(s)
  \/ updateBeforeRequestVote(s)
  \/ FillArgs(s)
  \/ broadcastRequestVote(s)
  \/ testLeader(s)
  \/ checkCommitIndex(s)

ServerStep(s) ==
  \/ LoopStep(s)
  \/ \E d \in Server : SendRequestVote(s, d)
  \/ \E d \in Server : SendAppendEntries(s, d)
  \/ \E d \in Server : SendInstallSnapshot(s, d)
  \/ StartAsks(s)
  \/ \E term \in starting[s], v \in Value : StartAppends(s, term, v)
  \/ \E i \in pending[s] : StartSnapshot(s, i)
  \/ \E i \in pending[s] : CrashInStartSnapshot(s, i)
  \/ \E i \in snapMsgs[s] : ServiceReceives(s, i)
  \/ Restart(s)

HandlerStep(m) ==
  \/ RequestVote(m)
  \/ AppendEntriesRefused(m)
  \/ AppendEntriesAccepted(m)
  \/ InstallSnapshotRefused(m)
  \/ InstallSnapshotAccepted(m)
  \/ CrashInInstallSnapshot(m)

ReturnStep(m) ==
  \/ RequestVoteReturns(m)
  \/ AppendEntriesReturns(m)
  \/ InstallSnapshotReturns(m)

Next ==
  \/ \E s \in Server : Alive(s) /\ ServerStep(s)
  \/ \E m \in net : Alive(m.dst) /\ HandlerStep(m)
  \/ \E m \in net : m.kind \notin Requests /\ Alive(m.caller) /\ ReturnStep(m)
  \/ \E m \in net : Lose(m)

Spec == Init /\ [][Next]_vars

-----------------------------------------------------------------------------
(***************************************************************************)
(* Properties.                                                             *)
(***************************************************************************)

\* Every variable has its type.
TypeOK ==
  /\ State \in [Server -> {"Follower", "Candidate", "Leader"}]
  /\ CurrentTerm \in [Server -> Nat]
  /\ VotedFor \in [Server -> Server \cup {Nil}]
  /\ Votes \in [Server -> Nat]
  /\ Log \in [Server -> Seq(Entry)]
  /\ CommitIndex \in [Server -> Nat]
  /\ LastApplied \in [Server -> Nat]
  /\ NextIndex \in [Server -> [Server -> Nat]]
  /\ MatchIndex \in [Server -> [Server -> Nat]]
  /\ AppendEntryCh \in [Server -> BOOLEAN]
  /\ loop \in [Server -> LoopPlace]
  /\ election \in [Server -> Election]
  /\ starting \in [Server -> SUBSET Nat]
  /\ disk \in [Server -> Stable]
  /\ snapshot \in [Server -> Nat]
  /\ torn \in BOOLEAN
  /\ snapMsgs \in [Server -> SUBSET Nat]
  /\ pending \in [Server -> SUBSET Nat]
  /\ svc \in [Server -> Nat]
  /\ delivered \subseteq Nat \X (Value \cup {Nil})
  /\ net \subseteq Message
  /\ crashes \in Nat

\* persist() is called wherever it must be: whenever the lock is free, the disk
\* holds the current term and log, and the vote except where updateToFollower
\* has cleared it in memory only.
Durable ==
  \A s \in Server :
    /\ disk[s].CurrentTerm = CurrentTerm[s]
    /\ disk[s].Log = Log[s]
    /\ VotedFor[s] \in {Nil, disk[s].VotedFor}

\* The i-th of these entries has index first + i - 1, as checkIndx demands: the
\* arithmetic of calculateLocalIndex depends on it.
Contiguous(entries, first) ==
  \A i \in 1 .. Len(entries) : entries[i].CommandIndex = first + i - 1

\* Every entry is where calculateLocalIndex looks for it, in memory, on disk and
\* in a request, however appends, cuts, splices and crashes interleave.
LogContiguous ==
  /\ \A s \in Server : Contiguous(Log[s], Base(Log[s]))
  /\ \A s \in Server : Contiguous(disk[s].Log, Base(disk[s].Log))
  /\ \A m \in net : m.kind = "AppendEntries" => Contiguous(m.Entries, m.PrevLogIndex + 1)

\* A candidate never counts more votes than there are servers: no reply to an
\* earlier election reaches the counter of a later one.
VotesCounted == \A s \in Server : Votes[s] <= Cardinality(Server)

\* The commit index of a server moves back only with a restart, with a snapshot,
\* or when its log no longer reaches it: requests that arrive late or twice, or
\* from a leader that knows less, leave it where it is.
CommitIndexAdvances ==
  [][\A s \in Server :
       CommitIndex'[s] < CommitIndex[s] =>
         \/ crashes' > crashes
         \/ \E m \in net \ net' : m.kind = "InstallSnapshot" /\ m.dst = s
         \/ getLastCommandIndex(Log'[s]) < CommitIndex[s]]_vars

\* Unless a crash fell between the two saves of a snapshot, the saved snapshot
\* covers exactly what the saved log has dropped; a restart misses nothing.
SnapshotCoversBase ==
  ~torn => \A s \in Server : Alive(s) => snapshot[s] = Base(disk[s].Log)

\* No step lowers the term of a server, a crash and restart included.
TermMonotonic == [][\A s \in Server : CurrentTerm'[s] >= CurrentTerm[s]]_vars

\* Is m a reply by which d told s, in the current term, that it holds index i?
Acknowledges(m, s, d, i) ==
  /\ m.caller = s
  /\ m.dst = d
  /\ \/ m.kind = "AppendEntriesReply" /\ m.Success /\ m.PrevLogIndex + m.sent >= i
     \/ m.kind = "InstallSnapshotReply" /\ m.Success /\ m.last >= i
  /\ m.term = CurrentTerm[s]

\* A leader raises MatchIndex[d] only to what the reply it handles says d holds,
\* although it is computed from NextIndex, which starts out as a guess.
MatchAcked ==
  [][\A s, d \in Server :
       s # d /\ MatchIndex'[s][d] > MatchIndex[s][d] =>
         \E m \in net \ net' : Acknowledges(m, s, d, MatchIndex'[s][d])]_vars

\* Does s, which stays leader, handle a refusal by d?
HandlesRefusal(s, d, m) ==
  /\ m.caller = s
  /\ m.dst = d
  /\ Alive(s)
  /\ AppendEntriesReturns(m)
  /\ ~m.Success
  /\ StillLeader(s, m.term)
  /\ State'[s] = "Leader"

\* After a refusal the request that is sent again starts strictly before the
\* refused one, so that the retry loop of broadcastAppendEntries cannot spin.
RetryBacksOff ==
  [][\A s, d \in Server, m \in net \ net' :
       HandlesRefusal(s, d, m) => NextIndex'[s][d] <= m.PrevLogIndex]_vars

-----------------------------------------------------------------------------
(***************************************************************************)
(* What comments, tests and assertions of the repository say and the code  *)
(* does not do.                                                            *)
(***************************************************************************)

\* "term %d has %d (>1) leaders" is fatal in checkOneLeader of raft/config.go.
OneLeaderPerTerm ==
  \A s, t \in Server :
    /\ State[s] = "Leader"
    /\ State[t] = "Leader"
    /\ CurrentTerm[s] = CurrentTerm[t]
    => s = t

\* No two services get different commands for one index: the applier of
\* raft/config.go ends a test where "some server has already committed a
\* different value for this entry!".
CommittedAgree == \A x, y \in delivered : x[1] = y[1] => x[2] = y[2]

\* "return the index which the majority of servers have appended to local log",
\* says findMajority, by which a leader commits.
MajorityHasAppended ==
  \A s, q \in Server :
    LET c == MatchIndex[s][q]
    IN  State[s] = "Leader" /\ findMajority(MatchIndex[s], c)
          => Cardinality({p \in Server : getLastCommandIndex(Log[p]) >= c}) > Cardinality(Server) \div 2

\* A service that has received every snapshot sent to it is where LastApplied
\* says it is; "server %v apply out of order %v" is fatal in raft/config.go.
ServiceInOrder ==
  ~torn => \A s \in Server : snapMsgs[s] = {} => svc[s] = LastApplied[s]

\* The snapshot and the state that refers to it are saved together: kvraft "should
\* call persister.SaveStateAndSnapshot() to atomically save" both.
SnapshotSavedAtomically == \A s \in Server : snapshot[s] = Base(disk[s].Log)

\* "if this server isn't the leader, returns false": Start appends to the log of
\* a leader only, under the term it leads.
StartIsByLeader ==
  [][\A s \in Server : \A term \in starting[s] :
       term \notin starting'[s] /\ Log'[s] # Log[s]
         => StillLeader(s, term)]_vars
=============================================================================
