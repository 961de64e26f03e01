------------------------------- MODULE Labrpc -------------------------------
(***************************************************************************)
(* The simulated network of src/src/labrpc/labrpc.go.  A Call is taken by  *)
(* the one goroutine that MakeNetwork starts; ProcessReq handles it in a   *)
(* goroutine of its own, runs the handler in another, and looks three      *)
(* times at who serves the name: before it delivers, while it waits, and   *)
(* before it answers.  Each look is a critical section of rn.mu and a step *)
(* here.  How long a delay is does not appear, only that it ends.          *)
(***************************************************************************)
EXTENDS Naturals

CONSTANTS
  Call,       \* the calls made
  End,        \* names of client ends
  Name,       \* names of servers
  Instance,   \* the Server objects that serve under these names
  None        \* nil

VARIABLES
  reliable,     \* rn.reliable
  made,         \* the keys of rn.ends
  enabled,      \* rn.enabled
  connections,  \* rn.connections
  servers,      \* rn.servers
  done,         \* is rn.done closed?
  dispatching,  \* does the goroutine of MakeNetwork still run?
  calls         \* the calls under way: goroutines of Call, ProcessReq and the handler

netVars == <<reliable, made, enabled, connections, servers, done, dispatching, calls>>

\* What the goroutines of one call know.  pc is the place of Call and
\* ProcessReq, one after the other; handler is the handler's goroutine.
CallState ==
  [pc : {"idle", "sent", "connected", "unreachable", "waiting", "answered", "dead",
         "failed", "replied", "returned"},
   end : End \cup {None}, server : Instance \cup {None}, reliable : BOOLEAN,
   handler : {"none", "running", "returned"}, ok : BOOLEAN]

Idle == [pc |-> "idle", end |-> None, server |-> None, reliable |-> TRUE,
         handler |-> "none", ok |-> FALSE]

\* MakeNetwork, and MakeEnd, Connect, Enable and AddServer for what is there
\* before the first call: ends leads every end to a name, up names the servers.
\* rel is what the network was told with Reliable.
InitNetwork(ends, up, rel) ==
  /\ reliable = rel
  /\ made = DOMAIN ends
  /\ enabled = [e \in End |-> e \in DOMAIN ends]
  /\ connections = [e \in End |-> IF e \in DOMAIN ends THEN ends[e] ELSE None]
  /\ servers = up
  /\ done = FALSE
  /\ dispatching = TRUE
  /\ calls = [c \in Call |-> Idle]

-----------------------------------------------------------------------------
(***************************************************************************)
(* A call.                                                                 *)
(***************************************************************************)

\* Call c moves from one place to another.
Moves(c, from, to) ==
  /\ calls[c].pc = from
  /\ calls' = [calls EXCEPT ![c].pc = to]
  /\ UNCHANGED <<reliable, made, enabled, connections, servers, done, dispatching>>

\* Call, up to the first channel operation: the request is taken, or the
\* network is gone.
Send(c, e) ==
  /\ calls[c].pc = "idle"
  /\ e \in made
  /\ \/ dispatching /\ calls' = [calls EXCEPT ![c] = [Idle EXCEPT !.pc = "sent", !.end = e]]
     \/ done /\ calls' = [calls EXCEPT ![c] = [Idle EXCEPT !.pc = "returned", !.end = e]]
  /\ UNCHANGED <<reliable, made, enabled, connections, servers, done, dispatching>>

\* ReadEndnameInfo: who serves the end now?
ReadEndnameInfo(c) ==
  LET name == connections[calls[c].end]
      server == IF name = None THEN None ELSE servers[name]
  IN  /\ calls[c].pc = "sent"
      /\ calls' = [calls EXCEPT ![c].server = server, ![c].reliable = reliable,
                                ![c].pc = IF enabled[calls[c].end] /\ server # None
                                            THEN "connected" ELSE "unreachable"]
      /\ UNCHANGED <<reliable, made, enabled, connections, servers, done, dispatching>>

\* Mutant: nobody answers.
UnreachableSilent(c) == Moves(c, "unreachable", "failed") /\ FALSE

\* "simulate no reply and eventual timeout".
Unreachable(c) == Moves(c, "unreachable", "failed")

\* "drop the request, return as if timeout".
DropRequest(c) == ~calls[c].reliable /\ Moves(c, "connected", "failed")

\* The handler's goroutine starts, and ProcessReq waits for it.
Execute(c) ==
  /\ calls[c].pc = "connected"
  /\ calls' = [calls EXCEPT ![c].pc = "waiting", ![c].handler = "running"]
  /\ UNCHANGED <<reliable, made, enabled, connections, servers, done, dispatching>>

\* server.dispatch returns.
HandlerReturns(c) ==
  /\ calls[c].handler = "running"
  /\ calls' = [calls EXCEPT ![c].handler = "returned"]
  /\ UNCHANGED <<reliable, made, enabled, connections, servers, done, dispatching>>

\* "reply = <-ech".
ReceiveReply(c) == calls[c].handler = "returned" /\ Moves(c, "waiting", "answered")

\* Mutant: a restarted server passes for the one that took the request.
IsServerDeadByName(c) ==
  \/ ~enabled[calls[c].end]
  \/ servers[connections[calls[c].end]] = None

\* IsServerDead: is the server deleted, replaced or out of reach?
IsServerDead(c) ==
  \/ ~enabled[calls[c].end]
  \/ servers[connections[calls[c].end]] # calls[c].server

\* Mutant: a call waits for its handler, whatever happens.
PollNever(c) == Moves(c, "waiting", "dead") /\ FALSE

\* Every 100 ms, the loop stops waiting for a server that is dead.
Poll(c) == Moves(c, "waiting", "dead") /\ IsServerDead(c)

\* The look before the answer.  A reply may still be dropped; a reply that is
\* delayed by longReordering is one that waits in "replied".
Answer(c) ==
  \/ Moves(c, "answered", "failed") /\ (IsServerDead(c) \/ ~calls[c].reliable)
  \/ Moves(c, "answered", "replied") /\ ~IsServerDead(c)

\* The same look, after the loop gave up.
AnswerDead(c) == Moves(c, "dead", "failed")

\* Call receives from replyCh and returns.
Return(c) ==
  /\ calls[c].pc \in {"failed", "replied"}
  /\ calls' = [calls EXCEPT ![c].pc = "returned", ![c].ok = (calls[c].pc = "replied")]
  /\ UNCHANGED <<reliable, made, enabled, connections, servers, done, dispatching>>

\* Every step of a call but those of its handler and of its caller.
ProcessReq(c) ==
  \/ ReadEndnameInfo(c)
  \/ Unreachable(c)
  \/ DropRequest(c)
  \/ Execute(c)
  \/ ReceiveReply(c)
  \/ Poll(c)
  \/ Answer(c)
  \/ AnswerDead(c)

-----------------------------------------------------------------------------
(***************************************************************************)
(* The methods of Network.  Those that several loops of config.go call for *)
(* every server take a set of ends here.                                   *)
(***************************************************************************)

\* Stop: the goroutine of MakeNetwork sees that the network was cleaned up.
Stop ==
  /\ done
  /\ dispatching
  /\ dispatching' = FALSE
  /\ UNCHANGED <<reliable, made, enabled, connections, servers, done, calls>>

Cleanup ==
  /\ ~done
  /\ done' = TRUE
  /\ UNCHANGED <<reliable, made, enabled, connections, servers, dispatching, calls>>

\* MakeEnd, which stops the program when the name exists, and Connect: end e
\* leads to the server name to[e].
MakeEnds(to) ==
  /\ made \cap DOMAIN to = {}
  /\ made' = made \cup DOMAIN to
  /\ enabled' = [e \in End |-> e \notin DOMAIN to /\ enabled[e]]
  /\ connections' = [e \in End |-> IF e \in DOMAIN to THEN to[e] ELSE connections[e]]
  /\ UNCHANGED <<reliable, servers, done, dispatching, calls>>

\* Enable(e, TRUE) for e in on, after Enable(e, FALSE) for e in off.
Enable(on, off) ==
  /\ enabled' = [e \in End |-> e \in on \/ (e \notin off /\ enabled[e])]
  /\ UNCHANGED <<reliable, made, connections, servers, done, dispatching, calls>>

AddServer(name, server) ==
  /\ servers' = [servers EXCEPT ![name] = server]
  /\ UNCHANGED <<reliable, made, enabled, connections, done, dispatching, calls>>

DeleteServer(name) ==
  /\ servers' = [servers EXCEPT ![name] = None]
  /\ UNCHANGED <<reliable, made, enabled, connections, done, dispatching, calls>>

\* Every variable has its type.
NetworkTypeOK ==
  /\ reliable \in BOOLEAN
  /\ made \subseteq End
  /\ enabled \in [End -> BOOLEAN]
  /\ connections \in [End -> Name \cup {None}]
  /\ servers \in [Name -> Instance \cup {None}]
  /\ done \in BOOLEAN
  /\ dispatching \in BOOLEAN
  /\ calls \in [Call -> CallState]
=============================================================================
