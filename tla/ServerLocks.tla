----------------------------- MODULE ServerLocks -----------------------------
(***************************************************************************)
(* The goroutines of one key/value server and who waits for whom: the main *)
(* loop of Raft sends on the unbuffered applyCh while it holds rf.mu, the  *)
(* loop of StartKVServer receives and then takes kv.mu, Kill takes kv.mu   *)
(* and then rf.mu, RPC handlers call Start, and StartSnapshot runs in      *)
(* goroutines of its own.  Data is left out but for the indexes.           *)
(*                                                                         *)
(* Only two critical sections wait inside: Raft's loop in "send" (rf.mu)   *)
(* and Kill (kv.mu).  The others are one step, possible when the mutex is  *)
(* free.                                                                   *)
(***************************************************************************)
EXTENDS Naturals

CONSTANTS
  Handler,    \* RPC handlers, each of which calls Start once
  MaxCommit,  \* bound: the commit index
  TooBig      \* the indexes after which the Raft state is found too big

ASSUME LocksAssumption == MaxCommit \in Nat /\ TooBig \subseteq Nat \ {0}

VARIABLES
  loop,         \* where Raft's main loop is
  CommitIndex, LastApplied,
  Process,      \* rf.Process
  service,      \* where the loop of StartKVServer is
  msg,          \* the index it received, 0 for a snapshot
  applied,      \* the last index it applied
  stop,         \* kv.stop
  kill,         \* where Kill is
  trimming,     \* StartSnapshot goroutines, by index
  start,        \* where each handler is in Start
  handing       \* does the goroutine of readSnapshot wait to send?

raftVars == <<loop, CommitIndex, LastApplied, Process>>
serviceVars == <<service, msg, applied, stop>>
vars == <<raftVars, serviceVars, kill, trimming, start, handing>>

\* Every variable has its type.
TypeOK ==
  /\ loop \in {"head", "select", "apply", "send", "exit"}
  /\ LastApplied \in 0 .. CommitIndex
  /\ CommitIndex \in 0 .. MaxCommit
  /\ Process \in BOOLEAN
  /\ service \in {"head", "receive", "received", "exit"}
  /\ msg \in 0 .. LastApplied
  /\ applied \in 0 .. LastApplied
  /\ stop \in BOOLEAN
  /\ kill \in {"none", "locked", "marked", "done"}
  /\ trimming \subseteq 1 .. MaxCommit
  /\ start \in [Handler -> {"none", "called", "leader", "returned"}]
  /\ handing \in BOOLEAN

rfmuFree == loop # "send"
kvmuFree == kill \notin {"locked", "marked"}

-----------------------------------------------------------------------------
(***************************************************************************)
(* Raft.                                                                   *)
(***************************************************************************)

LoopHead ==
  /\ loop = "head"
  /\ loop' = IF Process THEN "exit" ELSE "select"
  /\ UNCHANGED <<CommitIndex, LastApplied, Process, serviceVars, kill, trimming, start, handing>>

\* The switch on the state, which comes to an end: a follower has its timer.
LoopSelect ==
  /\ loop = "select"
  /\ loop' = "apply"
  /\ UNCHANGED <<CommitIndex, LastApplied, Process, serviceVars, kill, trimming, start, handing>>

\* Mutant: the mutex is kept when there is nothing to apply.
LoopLocksForever ==
  /\ loop = "apply"
  /\ loop' = "send"
  /\ UNCHANGED <<CommitIndex, LastApplied, Process, serviceVars, kill, trimming, start, handing>>

\* rf.mu.Lock; without anything to apply, it is unlocked again.
LoopLocks ==
  /\ loop = "apply"
  /\ loop' = IF CommitIndex > LastApplied THEN "send" ELSE "head"
  /\ UNCHANGED <<CommitIndex, LastApplied, Process, serviceVars, kill, trimming, start, handing>>

\* Mutant: the loop runs once too often.
LoopSendsBeyond ==
  /\ loop = "send"
  /\ service = "receive"
  /\ LastApplied' = LastApplied + 1
  /\ msg' = LastApplied'
  /\ service' = "received"
  /\ loop' = IF LastApplied' > CommitIndex THEN "head" ELSE "send"
  /\ UNCHANGED <<CommitIndex, Process, applied, stop, kill, trimming, start, handing>>

\* Mutant: only the last command of the batch is sent.
LoopSendsLast ==
  /\ loop = "send"
  /\ service = "receive"
  /\ LastApplied' = CommitIndex
  /\ msg' = LastApplied'
  /\ service' = "received"
  /\ loop' = "head"
  /\ UNCHANGED <<CommitIndex, Process, applied, stop, kill, trimming, start, handing>>

\* "applyCh <- msg" meets the receiver; after the last command, rf.mu.Unlock.
LoopSends ==
  /\ loop = "send"
  /\ LastApplied < CommitIndex
  /\ service = "receive"
  /\ LastApplied' = LastApplied + 1
  /\ msg' = LastApplied'
  /\ service' = "received"
  /\ loop' = IF LastApplied' = CommitIndex THEN "head" ELSE "send"
  /\ UNCHANGED <<CommitIndex, Process, applied, stop, kill, trimming, start, handing>>

\* AppendEntries or checkCommitIndex, for one entry or for several.
Commit(n) ==
  /\ rfmuFree
  /\ n > CommitIndex
  /\ CommitIndex' = n
  /\ UNCHANGED <<loop, LastApplied, Process, serviceVars, kill, trimming, start, handing>>

\* Start: a handler calls it, it asks GetState, and it appends.
StartCalled(h) ==
  /\ start[h] = "none"
  /\ start' = [start EXCEPT ![h] = "called"]
  /\ UNCHANGED <<raftVars, serviceVars, kill, trimming, handing>>

StartAsks(h) ==
  /\ start[h] = "called"
  /\ rfmuFree
  /\ \E place \in {"leader", "returned"} : start' = [start EXCEPT ![h] = place]
  /\ UNCHANGED <<raftVars, serviceVars, kill, trimming, handing>>

StartAppends(h) ==
  /\ start[h] = "leader"
  /\ rfmuFree
  /\ start' = [start EXCEPT ![h] = "returned"]
  /\ UNCHANGED <<raftVars, serviceVars, kill, trimming, handing>>

StartSnapshot(n) ==
  /\ n \in trimming
  /\ rfmuFree
  /\ trimming' = trimming \ {n}
  /\ UNCHANGED <<raftVars, serviceVars, kill, start, handing>>

-----------------------------------------------------------------------------
(***************************************************************************)
(* The service.                                                            *)
(***************************************************************************)

ServiceHead ==
  /\ service = "head"
  /\ service' = IF stop THEN "exit" ELSE "receive"
  /\ UNCHANGED <<raftVars, msg, applied, stop, kill, trimming, start, handing>>

\* The goroutine of readSnapshot meets the receiver.
ServiceTakesSnapshot ==
  /\ handing
  /\ service = "receive"
  /\ handing' = FALSE
  /\ msg' = 0
  /\ service' = "received"
  /\ UNCHANGED <<raftVars, applied, stop, kill, trimming, start>>

\* Mutant: StartSnapshot is called, not started as a goroutine.
ServiceTrimsItself ==
  /\ service = "received"
  /\ kvmuFree
  /\ msg \in TooBig => rfmuFree
  /\ service' = "head"
  /\ applied' = IF msg = 0 THEN applied ELSE msg
  /\ UNCHANGED <<raftVars, msg, stop, kill, trimming, start, handing>>

\* From kv.mu.Lock to Unlock.
ServiceApplies ==
  /\ service = "received"
  /\ kvmuFree
  /\ service' = "head"
  /\ applied' = IF msg = 0 THEN applied ELSE msg
  /\ trimming' = IF msg \in TooBig THEN trimming \cup {msg} ELSE trimming
  /\ UNCHANGED <<raftVars, msg, stop, kill, start, handing>>

\* Kill: kv.mu, then Raft's Kill under rf.mu, then kv.stop.
Kill ==
  /\ kill = "none"
  /\ kill' = "locked"
  /\ UNCHANGED <<raftVars, serviceVars, trimming, start, handing>>

KillRaft ==
  /\ kill = "locked"
  /\ rfmuFree
  /\ Process' = TRUE
  /\ kill' = "marked"
  /\ UNCHANGED <<loop, CommitIndex, LastApplied, serviceVars, trimming, start, handing>>

KillStops ==
  /\ kill = "marked"
  /\ stop' = TRUE
  /\ kill' = "done"
  /\ UNCHANGED <<raftVars, service, msg, applied, trimming, start, handing>>

Init ==
  /\ loop = "head"
  /\ CommitIndex = 0
  /\ LastApplied = 0
  /\ Process = FALSE
  /\ service = "head"
  /\ msg = 0
  /\ applied = 0
  /\ stop = FALSE
  /\ kill = "none"
  /\ trimming = {}
  /\ start = [h \in Handler |-> "none"]
  /\ handing \in BOOLEAN

LoopStep == LoopHead \/ LoopSelect \/ LoopLocks \/ LoopSends
ServiceStep == ServiceHead \/ ServiceTakesSnapshot \/ ServiceApplies

Next ==
  \/ LoopStep
  \/ ServiceStep
  \/ \E n \in 1 .. MaxCommit : Commit(n) \/ StartSnapshot(n)
  \/ \E h \in Handler : StartCalled(h) \/ StartAsks(h) \/ StartAppends(h)
  \/ Kill \/ KillRaft \/ KillStops

Spec == Init /\ [][Next]_vars

\* Every goroutine runs, and Go's mutexes do not let a waiter starve.
FairSpec ==
  /\ Spec
  /\ WF_vars(LoopStep)
  /\ WF_vars(ServiceStep)
  /\ SF_vars(KillRaft)
  /\ WF_vars(KillStops)
  /\ \A n \in 1 .. MaxCommit : SF_vars(StartSnapshot(n))
  /\ \A h \in Handler : SF_vars(StartAsks(h)) /\ SF_vars(StartAppends(h))

-----------------------------------------------------------------------------
(***************************************************************************)
(* Properties.                                                             *)
(***************************************************************************)

\* The service applies commands one by one and skips none, whatever is sent by
\* whom and whenever Kill stops which loop.
InOrder == [][applied' # applied => applied' = applied + 1]_applied

\* Every committed command reaches the service unless it is killed, although Raft
\* holds rf.mu while the service may be busy with kv.mu, a snapshot or a handler.
CommittedApplied ==
  \A n \in 1 .. MaxCommit : (CommitIndex >= n) ~> (applied >= n \/ kill # "none")

\* Start returns unless the server is killed: the goroutines that hold rf.mu and
\* kv.mu never wait for each other in a circle that leaves Kill out.
StartReturnsAlive ==
  \A h \in Handler : (start[h] = "called") ~> (start[h] = "returned" \/ kill # "none")

\* Start returns in any case: "even if the Raft instance has been killed, this
\* function should return gracefully" (raft.go:804).  The code does not keep this.
StartReturns == \A h \in Handler : (start[h] = "called") ~> (start[h] = "returned")
=============================================================================
