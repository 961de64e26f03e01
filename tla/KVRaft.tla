------------------------------- MODULE KVRaft -------------------------------
(***************************************************************************)
(* The key/value service of src/src/kvraft: the clerks of client.go, the   *)
(* servers of server.go, the calls between them, and a Raft that keeps its *)
(* promises underneath.                                                    *)
(*                                                                         *)
(* Raft appears as its interface: Start on a server that believes it leads *)
(* proposes an entry; some proposed entries are appended, once each, to    *)
(* one log; every server is handed the log in order; a restarted server,   *)
(* or one that has fallen behind, is handed a snapshot first.  Where       *)
(* raft.go breaks these promises is the business of the module Raft.       *)
(*                                                                         *)
(* The steps of a server are the critical sections of kv.mu and the        *)
(* unlocked reads of the handlers; those of a clerk lie between its sleeps *)
(* and the returns of the calls it has under way.                          *)
(***************************************************************************)
EXTENDS Integers, Sequences, Functions

CONSTANTS
  Key, Value,
  Clerk,
  Goroutine,      \* the goroutines that share each clerk
  None,           \* no value, no call, no entry in a map
  N,              \* the number of servers
  TRITIME,        \* attempts at one server before the next is tried
  TakeSnapshots,  \* does a server ever find its state too big?
  MaxCalls,       \* bound: calls of one clerk
  MaxSent,        \* bound: RPCs sent by all clerks
  MaxLog,         \* bound: entries in the log
  MaxRestarts     \* bound: restarts of servers

ASSUME KVAssumption ==
  /\ N \in Nat \ {0}
  /\ TRITIME \in Nat \ {0}
  /\ TakeSnapshots \in BOOLEAN
  /\ MaxCalls \in Nat
  /\ MaxSent \in Nat
  /\ MaxLog \in Nat
  /\ MaxRestarts \in Nat

VARIABLES
  reqId,      \* ck.reqId: calls begun by each clerk
  revId,      \* ck.revId: calls returned
  leader,     \* ck.leader
  call,       \* the call each goroutine is in, or None
  output,     \* what each goroutine's last call returned
  sent,       \* RPCs sent by each clerk, their identities
  rpcs,       \* RPCs whose Call has not returned, or whose handler still runs
  proposed,   \* entries started and not in the log (yet)
  log,        \* the entries Raft has committed
  applied,    \* how much of it each server has applied
  record,     \* kv.record
  history,    \* kv.history
  decoding,   \* a snapshot the server is about to decode, or None
  snapshot,   \* the saved snapshot of each server
  restarts

clerkVars == <<reqId, revId, leader, call, output, sent>>
raftVars == <<proposed, log>>
serverVars == <<applied, record, history, decoding, snapshot, restarts>>
vars == <<clerkVars, rpcs, raftVars, serverVars>>

-----------------------------------------------------------------------------
\* Types.

Server == 0 .. N - 1

\* GetArgs and PutAppendArgs; also Op, but for its channel.
Args ==
  [ClientId : Clerk, ReqId : Nat, Op : {"GET"}, Key : Key, Value : {None}]
    \cup [ClientId : Clerk, ReqId : Nat, Op : {"PUT", "APPEND"}, Key : Key, Value : Value]

\* recent: the last request of a client and its outcome.
Recent == [ReqId : Nat, Result : Seq(Value), Err : {"", "OK", "ErrNoKey"}]

\* What a read of the map yields for a client that is not in it.
NoRecent == [ReqId |-> 0, Result |-> <<>>, Err |-> ""]

Reply == [WrongLeader : BOOLEAN, Err : {"", "OK", "ErrNoKey"}, Value : Seq(Value)]

NoReply == [WrongLeader |-> FALSE, Err |-> "", Value |-> <<>>]

\* An entry of the log: the operation, and the RPC whose handler waits on its
\* ApplyChan (a channel is not encoded: only the server that made it has it).
LogEntry == [args : Args, chan : Clerk \X Nat]

State == [index : Nat,
          record : [Key -> Seq(Value) \cup {None}],
          history : [Clerk -> Recent \cup {None}]]

NoState == [index |-> 0, record |-> [k \in Key |-> None], history |-> [c \in Clerk |-> None]]

\* The turn of the server the clerk remembers as leader; the others are the
\* values of the index in the loop over all servers.
Remembered == -1

\* A call: its arguments and where its loops stand.  tries, ok and reply are
\* the variables of this turn.
Call ==
  [args : Args, pc : {"gate", "send", "sleep"}, turn : Server \cup {Remembered},
   tries : Nat, ok : BOOLEAN, reply : Reply]

\* An RPC.  heard: do the variables its result goes to still exist?
RPC ==
  [id : Clerk \X Nat, server : Server, args : Args, heard : BOOLEAN,
   stage : {"request", "recent", "waiting", "reply", "failed"}, reply : Reply]

\* None is no value of any of these types.
ASSUME NoneAssumption ==
  /\ None \notin Seq(Value)
  /\ None \notin Recent
  /\ None \notin State
  /\ None \notin Call
  /\ None \notin [Op : {"GET", "PUT", "APPEND"}, Key : Key, Value : Value \cup {None}]

-----------------------------------------------------------------------------
(***************************************************************************)
(* The clerk.                                                              *)
(***************************************************************************)

\* Mutant: anybody may go ahead.
PassAnyway(c) == TRUE

\* "if ck.reqId == ck.revId+1": the only call under way may go ahead.
Alone(c) == reqId[c] = revId[c] + 1

\* Get and PutAppend take a request number.
Begin(c, g, op, k, v) ==
  /\ call[c][g] = None
  /\ reqId[c] < MaxCalls
  /\ call' = [call EXCEPT ![c][g] =
       [args |-> [ClientId |-> c, ReqId |-> reqId[c], Op |-> op, Key |-> k, Value |-> v],
        pc |-> "gate", turn |-> Remembered, tries |-> 0, ok |-> FALSE, reply |-> NoReply]]
  /\ reqId' = [reqId EXCEPT ![c] = @ + 1]
  /\ UNCHANGED <<revId, leader, output, sent, rpcs, raftVars, serverVars>>

\* The first loop of Get and PutAppend lets the call through.
PassGate(c, g) ==
  /\ call[c][g] # None
  /\ call[c][g].pc = "gate"
  /\ Alone(c)
  /\ call' = [call EXCEPT ![c][g] = [@ EXCEPT !.pc = "send"]]
  /\ UNCHANGED <<reqId, revId, leader, output, sent, rpcs, raftVars, serverVars>>

\* Mutant: servers are counted from 1.
TargetFromOne(c, g) ==
  1 + (IF call[c][g].turn = Remembered THEN leader[c] ELSE call[c][g].turn)

Target(c, g) == IF call[c][g].turn = Remembered THEN leader[c] ELSE call[c][g].turn

SentByAll == FoldFunction(+, 0, sent)

\* tries++, and a goroutine that calls the server of this turn.
Send(c, g) ==
  /\ call[c][g] # None
  /\ call[c][g].pc = "send"
  /\ SentByAll < MaxSent
  /\ sent' = [sent EXCEPT ![c] = @ + 1]
  /\ rpcs' = rpcs \cup
       {[id |-> <<c, sent[c]>>, server |-> Target(c, g), args |-> call[c][g].args,
         heard |-> TRUE, stage |-> "request", reply |-> NoReply]}
  /\ call' = [call EXCEPT ![c][g] = [@ EXCEPT !.pc = "sleep", !.tries = call[c][g].tries + 1]]
  /\ UNCHANGED <<reqId, revId, leader, output, raftVars, serverVars>>

\* gob leaves a field alone when the value sent is the zero value, so the
\* answers to several attempts mix in one variable.
Merged(old, new) ==
  [WrongLeader |-> old.WrongLeader \/ new.WrongLeader,
   Err |-> IF new.Err = "" THEN old.Err ELSE new.Err,
   Value |-> IF new.Value = <<>> THEN old.Value ELSE new.Value]

\* A Call returns into the variables of the turn it was made in, if the clerk
\* is still there.
Returns(c, g, r) ==
  /\ r.stage \in {"reply", "failed"}
  /\ rpcs' = rpcs \ {r}
  /\ LET a == call[c][g]
     IN  IF r.heard
           THEN /\ a # None
                /\ a.args = r.args
                /\ call' = [call EXCEPT ![c][g] = [a EXCEPT
                     !.ok = (r.stage = "reply"),
                     !.reply = IF r.stage = "reply" THEN Merged(a.reply, r.reply) ELSE a.reply]]
           ELSE UNCHANGED call
  /\ UNCHANGED <<reqId, revId, leader, output, sent, raftVars, serverVars>>

\* The turn ends and its variables go away.
Forget(args) ==
  rpcs' = {IF r.args = args THEN [r EXCEPT !.heard = FALSE] ELSE r : r \in rpcs}

\* The turn after this one: every server once, then the leader again.
NextTurn(turn) == IF turn = N - 1 THEN Remembered ELSE turn + 1

\* Mutant: whoever answers is believed.
AcceptedFromAny(a) == a.ok

\* Is the reply of this turn one the clerk accepts?
Accepted(a) == a.ok /\ ~a.reply.WrongLeader

\* Does it also end the call?  A Get whose Err is neither tries on.
Ends(a) == a.args.Op = "GET" => a.reply.Err \in {"OK", "ErrNoKey"}

\* The clerk wakes up with no answer, and attempts left at this server ...
TryAgain(c, g) ==
  LET a == call[c][g]
  IN  /\ a # None
      /\ a.pc = "sleep"
      /\ ~a.ok
      /\ a.tries < TRITIME
      /\ call' = [call EXCEPT ![c][g] = [a EXCEPT !.pc = "send"]]
      /\ UNCHANGED <<reqId, revId, leader, output, sent, rpcs, raftVars, serverVars>>

\* ... or with the answer, and the call returns ...
ReturnCall(c, g) ==
  LET a == call[c][g]
  IN  /\ a # None
      /\ a.pc = "sleep"
      /\ Accepted(a)
      /\ Ends(a)
      /\ leader' = [leader EXCEPT ![c] = Target(c, g)]
      /\ revId' = [revId EXCEPT ![c] = @ + 1]
      /\ output' = [output EXCEPT ![c][g] =
           IF a.args.Op = "GET" /\ a.reply.Err = "OK" THEN a.reply.Value ELSE <<>>]
      /\ call' = [call EXCEPT ![c][g] = None]
      /\ Forget(a.args)
      /\ UNCHANGED <<reqId, sent, raftVars, serverVars>>

\* ... or this turn brought nothing.
EndTurn(c, g) ==
  LET a == call[c][g]
      first == a.turn = Remembered
  IN  /\ a # None
      /\ a.pc = "sleep"
      /\ a.ok \/ a.tries >= TRITIME
      /\ ~(Accepted(a) /\ Ends(a))
      /\ leader' = [leader EXCEPT ![c] = IF Accepted(a) THEN Target(c, g) ELSE @]
      /\ call' = [call EXCEPT ![c][g] =
           [a EXCEPT !.pc = "send", !.tries = 0, !.ok = FALSE, !.reply = NoReply,
                     !.turn = IF Accepted(a) /\ first THEN a.turn ELSE NextTurn(a.turn)]]
      /\ Forget(a.args)
      /\ UNCHANGED <<reqId, revId, output, sent, raftVars, serverVars>>

Wake(c, g) == TryAgain(c, g) \/ ReturnCall(c, g) \/ EndTurn(c, g)

-----------------------------------------------------------------------------
(***************************************************************************)
(* The server: RPC handlers.                                               *)
(***************************************************************************)

\* Is the request newer than the last one applied for its client?
isUpToDate(s, args) ==
  history[s][args.ClientId] # None => args.ReqId > history[s][args.ClientId].ReqId

\* The RPC r goes on as stage, with reply as its answer so far.
Becomes(r, stage, reply) ==
  rpcs' = (rpcs \ {r}) \cup {[r EXCEPT !.stage = stage, !.reply = reply]}

\* AppendEntryToLog: refused by a server that is not the leader; otherwise the
\* handler waits on the channel it put into the entry.
AppendEntryToLog(r) ==
  \/ /\ Becomes(r, "reply", [NoReply EXCEPT !.WrongLeader = TRUE])
     /\ UNCHANGED proposed
  \/ /\ Becomes(r, "waiting", NoReply)
     /\ proposed' = proposed \cup {[args |-> r.args, chan |-> r.id]}

\* PutAppend answers a request it has seen at once.
PutAppend(r) ==
  /\ r.stage = "request"
  /\ r.args.Op # "GET"
  /\ IF isUpToDate(r.server, r.args)
       THEN AppendEntryToLog(r)
       ELSE /\ Becomes(r, "reply", [NoReply EXCEPT !.Err = "OK"])
            /\ UNCHANGED proposed
  /\ UNCHANGED <<clerkVars, log, serverVars>>

\* Get, for a request it has seen, reads the map again without the lock.
Get(r) ==
  /\ r.stage = "request"
  /\ r.args.Op = "GET"
  /\ IF isUpToDate(r.server, r.args)
       THEN AppendEntryToLog(r)
       ELSE /\ Becomes(r, "recent", NoReply)
            /\ UNCHANGED proposed
  /\ UNCHANGED <<clerkVars, log, serverVars>>

\* The second read: the recorded outcome, if it is that of this request.
GetRecent(r) ==
  LET found == history[r.server][r.args.ClientId]
      tmp == IF found = None THEN NoRecent ELSE found
  IN  /\ r.stage = "recent"
      /\ IF r.args.ReqId = tmp.ReqId
           THEN /\ Becomes(r, "reply", [WrongLeader |-> FALSE, Err |-> tmp.Err,
                                         Value |-> tmp.Result])
                /\ UNCHANGED proposed
           ELSE AppendEntryToLog(r)
      /\ UNCHANGED <<clerkVars, log, serverVars>>

\* labrpc drops a request or a reply, and Call returns false.
Lose(r) ==
  /\ r.stage \in {"request", "reply"}
  /\ Becomes(r, "failed", NoReply)
  /\ UNCHANGED <<clerkVars, raftVars, serverVars>>

-----------------------------------------------------------------------------
(***************************************************************************)
(* The server: what Raft hands to it.                                      *)
(***************************************************************************)

\* Raft commits a proposed entry.  The others may be committed later or never.
Commit(e) ==
  /\ e \in proposed
  /\ Len(log) < MaxLog
  /\ log' = Append(log, e)
  /\ proposed' = proposed \ {e}
  /\ UNCHANGED <<clerkVars, rpcs, serverVars>>

\* kv.record after an entry that is new.
Recorded(rec, args) ==
  CASE args.Op = "APPEND" ->
         [rec EXCEPT ![args.Key] = IF @ = None THEN <<args.Value>> ELSE Append(@, args.Value)]
    [] args.Op = "PUT" -> [rec EXCEPT ![args.Key] = <<args.Value>>]
    [] OTHER -> rec

\* Mutant: a Get of a missing key answers like one of an empty value, and what it
\* found is not recorded.
OutcomeUnread(rec, args) == [ReqId |-> args.ReqId, Result |-> <<>>, Err |-> "OK"]

\* What kv.history records for it, rec being kv.record.
Outcome(rec, args) ==
  LET v == rec[args.Key]
  IN  IF args.Op # "GET" THEN [ReqId |-> args.ReqId, Result |-> <<>>, Err |-> "OK"]
      ELSE IF v # None THEN [ReqId |-> args.ReqId, Result |-> v, Err |-> "OK"]
      ELSE [ReqId |-> args.ReqId, Result |-> <<>>, Err |-> "ErrNoKey"]

\* What a handler makes of the outcome it receives on its channel.
Received(tmp, args) ==
  [WrongLeader |-> FALSE, Err |-> tmp.Err,
   Value |-> IF args.Op = "GET" /\ tmp.Err = "OK" THEN tmp.Result ELSE <<>>]

\* Does apply answer on the channel?  Not for a Get it has answered before.
Answers(s, args) ==
  \/ isUpToDate(s, args)
  \/ args.Op # "GET"
  \/ args.ReqId # history[s][args.ClientId].ReqId

\* apply, on the next entry.  The handler that waits for it hears of it unless
\* this server's copy of the entry came back over the network, without its
\* channel.  StartSnapshot, in its own goroutine, saves a copy of the state
\* made here; that it does so late, or not before a crash, looks from here
\* like a server that saves nothing at this entry.
apply(s) ==
  LET e == log[applied[s] + 1]
      new == isUpToDate(s, e.args)
      waiting == {r \in rpcs : r.id = e.chan /\ r.server = s /\ r.stage = "waiting"}
      heard == IF Answers(s, e.args) THEN waiting ELSE {}
  IN  /\ applied[s] < Len(log)
      /\ decoding[s] = None
      /\ applied' = [applied EXCEPT ![s] = @ + 1]
      /\ record' = [record EXCEPT ![s] = IF new THEN Recorded(@, e.args) ELSE @]
      /\ history' = [history EXCEPT ![s][e.args.ClientId] =
           IF new THEN Outcome(record[s], e.args) ELSE @]
      /\ LET tmp == history'[s][e.args.ClientId]
         IN  \/ rpcs' = (rpcs \ heard) \cup
                  {[r EXCEPT !.stage = "reply", !.reply = Received(tmp, r.args)] : r \in heard}
             \/ /\ heard # {}
                /\ UNCHANGED rpcs
      /\ \/ UNCHANGED snapshot
         \/ /\ TakeSnapshots
            /\ snapshot' = [snapshot EXCEPT ![s] =
                 [index |-> applied'[s], record |-> record'[s], history |-> history'[s]]]
      /\ UNCHANGED <<clerkVars, raftVars, decoding, restarts>>

\* A snapshot of another server arrives: Raft continues from its index, and the
\* service empties both maps ...
ReceiveSnapshot(s, t) ==
  /\ decoding[s] = None
  /\ snapshot[t].index > 0
  /\ snapshot[s].index = 0
  /\ snapshot' = [snapshot EXCEPT ![s] = snapshot[t]]
  /\ decoding' = [decoding EXCEPT ![s] = snapshot[t]]
  /\ applied' = [applied EXCEPT ![s] = snapshot[t].index]
  /\ record' = [record EXCEPT ![s] = NoState.record]
  /\ history' = [history EXCEPT ![s] = NoState.history]
  /\ UNCHANGED <<clerkVars, rpcs, raftVars, restarts>>

\* Mutant: the snapshot holds no history.
DecodeRecord(s) ==
  /\ decoding[s] # None
  /\ record' = [record EXCEPT ![s] = decoding[s].record]
  /\ decoding' = [decoding EXCEPT ![s] = None]
  /\ UNCHANGED <<clerkVars, rpcs, raftVars, applied, history, snapshot, restarts>>

\* ... and decodes them.  Handlers read the empty maps in between.
Decode(s) ==
  /\ decoding[s] # None
  /\ record' = [record EXCEPT ![s] = decoding[s].record]
  /\ history' = [history EXCEPT ![s] = decoding[s].history]
  /\ decoding' = [decoding EXCEPT ![s] = None]
  /\ UNCHANGED <<clerkVars, rpcs, raftVars, applied, snapshot, restarts>>

\* A crash and StartKVServer: the handlers are gone, Raft continues from the
\* snapshot it saved, and hands it over first.
Restart(s) ==
  /\ restarts < MaxRestarts
  /\ restarts' = restarts + 1
  /\ rpcs' = {IF r.server = s /\ r.stage \in {"recent", "waiting"}
                 THEN [r EXCEPT !.stage = "failed"] ELSE r : r \in rpcs}
  /\ applied' = [applied EXCEPT ![s] = snapshot[s].index]
  /\ record' = [record EXCEPT ![s] = NoState.record]
  /\ history' = [history EXCEPT ![s] = NoState.history]
  /\ decoding' = [decoding EXCEPT ![s] = IF snapshot[s].index > 0 THEN snapshot[s] ELSE None]
  /\ UNCHANGED <<clerkVars, raftVars, snapshot>>

-----------------------------------------------------------------------------
Init ==
  /\ reqId = [c \in Clerk |-> 0]
  /\ revId = [c \in Clerk |-> 0]
  /\ leader = [c \in Clerk |-> 0]
  /\ call = [c \in Clerk |-> [g \in Goroutine |-> None]]
  /\ output = [c \in Clerk |-> [g \in Goroutine |-> None]]
  /\ sent = [c \in Clerk |-> 0]
  /\ rpcs = {}
  /\ proposed = {}
  /\ log = <<>>
  /\ applied = [s \in Server |-> 0]
  /\ record = [s \in Server |-> NoState.record]
  /\ history = [s \in Server |-> NoState.history]
  /\ decoding = [s \in Server |-> None]
  /\ snapshot = [s \in Server |-> NoState]
  /\ restarts = 0

ClerkStep(c, g) ==
  \/ \E k \in Key : Begin(c, g, "GET", k, None)
  \/ \E op \in {"PUT", "APPEND"}, k \in Key, v \in Value : Begin(c, g, op, k, v)
  \/ PassGate(c, g)
  \/ Send(c, g)
  \/ \E r \in rpcs : r.id[1] = c /\ Returns(c, g, r)
  \/ Wake(c, g)

ServerStep(s) ==
  \/ apply(s)
  \/ \E t \in Server : ReceiveSnapshot(s, t)
  \/ Decode(s)
  \/ Restart(s)

Next ==
  \/ \E c \in Clerk, g \in Goroutine : ClerkStep(c, g)
  \/ \E r \in rpcs : PutAppend(r) \/ Get(r) \/ GetRecent(r) \/ Lose(r)
  \/ \E e \in proposed : Commit(e)
  \/ \E s \in Server : ServerStep(s)

Spec == Init /\ [][Next]_vars

\* The goroutines of a clerk run, and their sleeps end.
FairSpec ==
  /\ Spec
  /\ \A c \in Clerk, g \in Goroutine :
       WF_vars(PassGate(c, g)) /\ WF_vars(Send(c, g)) /\ WF_vars(Wake(c, g))

-----------------------------------------------------------------------------
(***************************************************************************)
(* Properties.                                                             *)
(***************************************************************************)

\* Every variable has its type.
TypeOK ==
  /\ reqId \in [Clerk -> Nat]
  /\ revId \in [Clerk -> Nat]
  /\ leader \in [Clerk -> Server]
  /\ call \in [Clerk -> [Goroutine -> Call \cup {None}]]
  /\ output \in [Clerk -> [Goroutine -> Seq(Value) \cup {None}]]
  /\ sent \in [Clerk -> Nat]
  /\ rpcs \subseteq RPC
  /\ proposed \subseteq LogEntry
  /\ log \in Seq(LogEntry)
  /\ applied \in [Server -> Nat]
  /\ record \in [Server -> [Key -> Seq(Value) \cup {None}]]
  /\ history \in [Server -> [Clerk -> Recent \cup {None}]]
  /\ decoding \in [Server -> State \cup {None}]
  /\ snapshot \in [Server -> State]
  /\ restarts \in Nat

\* Is the call of g past the gate?
Trying(c, g) == call[c][g] # None /\ call[c][g].pc # "gate"

\* However many goroutines share a clerk, one of its calls at most is past the
\* gate: the servers remember only the last request of a client.
OneOutstanding ==
  \A c \in Clerk : \A g, h \in Goroutine : Trying(c, g) /\ Trying(c, h) => g = h

\* A clerk that is in use gets a call past the gate: Get "keeps trying forever",
\* so it has to start trying.
GateOpens ==
  \A c \in Clerk :
    (\E g \in Goroutine : call[c][g] # None) ~> (\E g \in Goroutine : Trying(c, g))

\* Two entries for the same request.
SameRequest(e, f) == e.args.ClientId = f.args.ClientId /\ e.args.ReqId = f.args.ReqId

\* Is the entry at i the first one of l for its request?
IsFirst(l, i) == \A j \in 1 .. i - 1 : ~SameRequest(l[j], l[i])

\* The stores along a log each of whose requests counts once.
Stores(l) ==
  LET after[i \in 0 .. Len(l)] ==
        IF i = 0 THEN NoState.record
        ELSE IF IsFirst(l, i) THEN Recorded(after[i - 1], l[i].args)
        ELSE after[i - 1]
  IN  after

\* The store after it.
Replay(l) == Stores(l)[Len(l)]

\* Every server holds the store of the log it has applied, each request counted
\* once, although it compares a request only with the last one of its client,
\* and although restarts and snapshots set it back.
ExactlyOnce ==
  \A s \in Server :
    decoding[s] = None => record[s] = Replay(SubSeq(log, 1, applied[s]))

\* The promise of the service, for the call of each goroutine: it takes effect
\* when Raft first commits an entry for it.
Shown(v) == IF v = None THEN <<>> ELSE v

CallOf(p) == call[p[1]][p[2]]

Effective(p) ==
  {i \in 1 .. Len(log) : log[i].args = CallOf(p).args /\ IsFirst(log, i)}

AnswerOf(p) ==
  LET i == CHOOSE i \in Effective(p) : TRUE
      a == CallOf(p).args
  IN  IF a.Op = "GET" THEN Shown(Replay(SubSeq(log, 1, i - 1))[a.Key]) ELSE <<>>

Promise == INSTANCE KVStore WITH
  Caller <- Clerk \X Goroutine,
  store <- [k \in Key |-> Shown(Replay(log)[k])],
  call <- [p \in Clerk \X Goroutine |->
             IF CallOf(p) = None THEN None
             ELSE [Op |-> CallOf(p).args.Op, Key |-> CallOf(p).args.Key,
                   Value |-> CallOf(p).args.Value]],
  result <- [p \in Clerk \X Goroutine |->
               IF CallOf(p) # None /\ Effective(p) # {} THEN AnswerOf(p) ELSE None],
  output <- [p \in Clerk \X Goroutine |-> output[p[1]][p[2]]]

\* The service implements KVStore: its calls are linearizable, take effect once,
\* and return what they would return at that moment.
Linearizable == Promise!Spec
=============================================================================
