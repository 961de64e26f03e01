------------------------------ MODULE Harness ------------------------------
(***************************************************************************)
(* What the test harnesses raft/config.go and kvraft/config.go have in     *)
(* common: servers that are shut down and started again over the network   *)
(* of Labrpc.  A server cannot really be killed ("since we cannot really   *)
(* kill it", raft/config.go:133): the old instance goes on, calls others,  *)
(* and saves to the Persister it was given.                                *)
(*                                                                         *)
(* A call asks for an update; its handler makes the update and saves the   *)
(* state before it returns, as the handlers of raft.go do.  A state is the *)
(* set of the updates in it.                                               *)
(***************************************************************************)
EXTENDS Labrpc, Integers, Sequences

CONSTANTS
  N,          \* number of servers
  Client,     \* clerks, which call over ends of their own
  unreliable, \* make_config's argument
  MaxStarts   \* bound: starts of servers

Server == 0 .. N - 1

ASSUME HarnessAssumption ==
  /\ N \in Nat
  /\ unreliable \in BOOLEAN
  /\ MaxStarts \in Nat
  /\ MaxStarts >= N
  /\ Name = Server
  /\ Instance = 1 .. MaxStarts
  /\ End = (Server \cup Client) \X Server \X (1 .. MaxStarts)
  /\ Client \cap Server = {}
  /\ None \notin Server \cup Instance \cup End

VARIABLES
  persister,  \* the contents of every Persister made; a pointer is an index
  saved,      \* cfg.saved
  instance,   \* every server made: whose it is, its Persister, its state
  running,    \* cfg.rafts or cfg.kvservers
  endnames,   \* cfg.endnames
  task        \* where the test's goroutine is in the functions of config.go

cfgVars == <<saved, running, endnames, task>>
hostVars == <<persister, instance>>
vars == <<netVars, hostVars, cfgVars>>

\* randstring(20) for the k-th set of ends of a server or clerk.
EndName(owner, k) == [j \in Server |-> <<owner, j, k>>]

\* What make_config leaves: every server started and connected.
InitHarness ==
  /\ endnames = [i \in Server |-> EndName(i, i + 1)]
  /\ InitNetwork([e \in {endnames[i][j] : i, j \in Server} |-> e[2]],
                 [i \in Server |-> i + 1], ~unreliable)
  /\ persister = [p \in 1 .. N |-> {}]
  /\ saved = [i \in Server |-> i + 1]
  /\ instance = [m \in 1 .. N |-> [server |-> m - 1, persister |-> m, state |-> {}]]
  /\ running = [i \in Server |-> i + 1]
  /\ task = None

\* A server, running or not, calls another, or a clerk calls a server.
CallOut(c) ==
  /\ \E e \in made : e[1] # e[2] /\ Send(c, e)
  /\ UNCHANGED <<hostVars, cfgVars>>

\* Service.dispatch calls the handler: the update is made and the state saved.
Handle(c) ==
  LET m == calls[c].server
      state == instance[m].state \cup {c}
  IN  /\ HandlerReturns(c)
      /\ instance' = [instance EXCEPT ![m].state = state]
      /\ persister' = [persister EXCEPT ![instance[m].persister] = state]
      /\ UNCHANGED cfgVars

\* The network's own steps.
NetworkStep(c) ==
  /\ ProcessReq(c) \/ Return(c)
  /\ UNCHANGED <<hostVars, cfgVars>>

-----------------------------------------------------------------------------
\* Mutant: only the ends that lead back.
BetweenBack(i, to) == {endnames[j][i] : j \in {j \in to : endnames[j] # None}}

\* The ends that lead from server i to the servers in to, and back.
Between(i, to) ==
  {endnames[i][j] : j \in {j \in to : endnames[i] # None}}
    \cup {endnames[j][i] : j \in {j \in to : endnames[j] # None}}

\* The test calls the next function; cleanup is its last.
Free == task = None /\ ~done

Goto(step, i) == task' = [step |-> step, server |-> i]

At(step, i) == task # None /\ task.step = step /\ task.server = i

\* "cfg.saved[i] = cfg.saved[i].Copy()".
CopySaved(i) ==
  IF saved[i] = None THEN UNCHANGED <<persister, saved>>
  ELSE /\ persister' = Append(persister, persister[saved[i]])
       /\ saved' = [saved EXCEPT ![i] = Len(persister) + 1]

\* The same, or a first Persister.
CopyOrMake(i) ==
  /\ persister' = Append(persister, IF saved[i] = None THEN {} ELSE persister[saved[i]])
  /\ saved' = [saved EXCEPT ![i] = Len(persister) + 1]

\* Fresh ends and a fresh persister for server i.
Prepare(i) ==
  LET ends == EndName(i, Len(instance) + 1)
  IN  /\ MakeEnds([e \in {ends[j] : j \in Server} |-> e[2]])
      /\ endnames' = [endnames EXCEPT ![i] = ends]
      /\ CopyOrMake(i)

\* Mutant: the count is one too far.
LaunchMiscounted(i) ==
  /\ instance' = Append(instance, [server |-> i, persister |-> saved[i],
                                   state |-> persister[saved[i]]])
  /\ running' = [running EXCEPT ![i] = Len(instance) + 2]

\* A server made from what is saved.
Launch(i) ==
  /\ instance' = Append(instance, [server |-> i, persister |-> saved[i],
                                   state |-> persister[saved[i]]])
  /\ running' = [running EXCEPT ![i] = Len(instance) + 1]

-----------------------------------------------------------------------------
(***************************************************************************)
(* Properties.                                                             *)
(***************************************************************************)

\* Every variable has its type.
TypeOK ==
  /\ NetworkTypeOK
  /\ persister \in Seq(SUBSET Call)
  /\ saved \in [Server -> DOMAIN persister \cup {None}]
  /\ instance \in Seq([server : Server, persister : DOMAIN persister, state : SUBSET Call])
  /\ running \in [Server -> DOMAIN instance \cup {None}]
  /\ \A i \in Server : endnames[i] = None \/ endnames[i] \in [Server -> made]

\* A positive reply means that the update is in the state the server will be
\* started from again, whenever that is: no client gets "a positive reply to an
\* Append, but the server persisted the update into the old Persister"
\* (labrpc.go:257).
AcknowledgedSurvive ==
  \A c \in Call :
    calls[c].ok => c \in persister[saved[connections[calls[c].end]]]

\* An instance that was superseded cannot send: "so that old crashed instance's
\* ClientEnds can't send" (raft/config.go:139).  The only ends of servers that
\* are enabled are those of the latest start.
OldEndsSilent ==
  \A i \in Server, e \in made :
    e[1] = i /\ enabled[e] => endnames[i][e[2]] = e /\ running[i] # None

\* A call whose server was deleted or replaced returns, even when its handler
\* never does: ProcessReq "periodically check[s] if the server has been killed"
\* (labrpc.go:226).
KilledCallReturns ==
  \A c \in Call :
    (calls[c].pc = "waiting" /\ servers[connections[calls[c].end]] # calls[c].server)
      ~> (calls[c].pc = "returned")
=============================================================================
