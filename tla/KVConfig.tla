------------------------------ MODULE KVConfig ------------------------------
(***************************************************************************)
(* The test harness of the key/value service, kvraft/config.go: servers    *)
(* are shut down and started, the network is partitioned, clerks come and  *)
(* are connected.  The test calls these functions one after the other;     *)
(* each is taken apart where others can see it half done.                  *)
(***************************************************************************)
EXTENDS Harness

VARIABLE sides   \* the partition asked for last

kvVars == <<vars, sides>>

All == Server

\* make_config.
Init ==
  /\ InitHarness
  /\ sides = {All}

\* connectUnlocked and disconnectUnlocked for every server of one side: the ends
\* within P are enabled, those that cross to Q disabled.
Within(P) == UNION {Between(i, P) : i \in P}
Across(P, Q) == UNION {Between(i, Q) : i \in P}

ConnectAll ==
  /\ Free
  /\ \A i \in Server : running[i] # None
  /\ Enable(Within(All), {})
  /\ sides' = {All}
  /\ UNCHANGED <<hostVars, cfgVars>>

\* Mutant: only the ends that lead out of the first side are disabled.
partitionOneWay(P, Q) ==
  /\ Free
  /\ \A i \in Server : running[i] # None
  /\ Enable(Within(P) \cup Within(Q), {endnames[i][j] : i \in P, j \in Q})
  /\ sides' = {P, Q} \ {{}}
  /\ UNCHANGED <<hostVars, cfgVars>>

\* "Sets up 2 partitions with connectivity between servers in each partition."  The
\* sides are any two sets that make up all servers; make_partition picks such a pair.
partition(P, Q) ==
  /\ Free
  /\ \A i \in Server : running[i] # None
  /\ Enable(Within(P) \cup Within(Q), Across(P, Q) \cup Across(Q, P))
  /\ sides' = {P, Q} \ {{}}
  /\ UNCHANGED <<hostVars, cfgVars>>

-----------------------------------------------------------------------------
(***************************************************************************)
(* Clerks.                                                                 *)
(***************************************************************************)

\* makeClient(to): ends to all servers, those in to enabled.
makeClient(k, to) ==
  LET ends == EndName(k, 1)
  IN  /\ Free
      /\ {ends[j] : j \in Server} \cap made = {}
      /\ made' = made \cup {ends[j] : j \in Server}
      /\ connections' = [e \in End |-> IF e[1] = k THEN e[2] ELSE connections[e]]
      /\ enabled' = [e \in End |-> IF e[1] = k THEN e[2] \in to ELSE enabled[e]]
      /\ UNCHANGED <<reliable, servers, done, dispatching, calls, hostVars, cfgVars, sides>>

ConnectClient(k, to) ==
  /\ Free
  /\ \A j \in Server : EndName(k, 1)[j] \in made
  /\ Enable({EndName(k, 1)[j] : j \in to}, {})
  /\ UNCHANGED <<hostVars, cfgVars, sides>>

DisconnectClient(k, from) ==
  /\ Free
  /\ \A j \in Server : EndName(k, 1)[j] \in made
  /\ Enable({}, {EndName(k, 1)[j] : j \in from})
  /\ UNCHANGED <<hostVars, cfgVars, sides>>

-----------------------------------------------------------------------------
(***************************************************************************)
(* ShutdownServer: isolate, delete, copy, kill.                            *)
(***************************************************************************)

ShutdownServer(i) ==
  /\ Free
  /\ running[i] # None
  /\ Enable({}, Between(i, All))
  /\ Goto("delete", i)
  /\ UNCHANGED <<hostVars, saved, running, endnames, sides>>

\* "it's important to do this before creating the new Persister in saved[i]".
ShutdownDeletes(i) ==
  /\ At("delete", i)
  /\ DeleteServer(i)
  /\ Goto("copy", i)
  /\ UNCHANGED <<hostVars, saved, running, endnames, sides>>

ShutdownCopies(i) ==
  /\ At("copy", i)
  /\ CopySaved(i)
  /\ Goto("kill", i)
  /\ UNCHANGED <<netVars, instance, running, endnames, sides>>

ShutdownKills(i) ==
  /\ At("kill", i)
  /\ running' = [running EXCEPT ![i] = None]
  /\ task' = None
  /\ UNCHANGED <<netVars, hostVars, saved, endnames, sides>>

\* StartServer: fresh ends and persister, the server, its entry in the network.
StartServer(i) ==
  /\ Free
  /\ running[i] = None
  /\ Len(instance) < MaxStarts
  /\ Prepare(i)
  /\ Goto("start", i)
  /\ UNCHANGED <<instance, running, sides>>

StartLaunches(i) ==
  /\ At("start", i)
  /\ Launch(i)
  /\ Goto("add", i)
  /\ UNCHANGED <<netVars, persister, saved, endnames, sides>>

StartAdds(i) ==
  /\ At("add", i)
  /\ AddServer(i, running[i])
  /\ task' = None
  /\ UNCHANGED <<hostVars, saved, running, endnames, sides>>

cleanup ==
  /\ Free
  /\ Cleanup
  /\ UNCHANGED <<hostVars, cfgVars, sides>>

StopDispatching == Stop /\ UNCHANGED <<hostVars, cfgVars, sides>>

-----------------------------------------------------------------------------
ServerStep(i) ==
  \/ ShutdownServer(i)
  \/ ShutdownDeletes(i)
  \/ ShutdownCopies(i)
  \/ ShutdownKills(i)
  \/ StartServer(i)
  \/ StartLaunches(i)
  \/ StartAdds(i)

ClientStep(k) ==
  \/ \E to \in SUBSET Server : makeClient(k, to)
  \/ \E to \in SUBSET Server : ConnectClient(k, to)
  \/ \E from \in SUBSET Server : DisconnectClient(k, from)

CallStep(c) ==
  /\ CallOut(c) \/ Handle(c) \/ NetworkStep(c)
  /\ UNCHANGED sides

Next ==
  \/ \E c \in Call : CallStep(c)
  \/ \E i \in Server : ServerStep(i)
  \/ \E k \in Client : ClientStep(k)
  \/ ConnectAll
  \/ \E P \in SUBSET Server : partition(P, Server \ P)
  \/ cleanup
  \/ StopDispatching

Spec == Init /\ [][Next]_kvVars

\* The goroutines of the network run, their timers fire, and a Call takes what
\* is sent to it.  Nothing is assumed of handlers, callers or the test.
FairSpec ==
  /\ Spec
  /\ \A c \in Call : WF_kvVars(NetworkStep(c) /\ UNCHANGED sides)

-----------------------------------------------------------------------------
\* After partition, and until the next one or ConnectAll, no end between two
\* servers leads from one side to the other, through shutdowns and starts.
PartitionIsolates ==
  \A i, j \in Server :
    endnames[i] # None /\ enabled[endnames[i][j]] => \E P \in sides : {i, j} \subseteq P

\* Every call returns if the handlers do: "Call() is guaranteed to return (perhaps
\* after a delay) *except* if the handler function on the server side does not
\* return" (labrpc.go:37), whatever is disconnected, deleted, started or cleaned up.
CallReturns ==
  \A c \in Call :
    WF_kvVars(Handle(c) /\ UNCHANGED sides) =>
      ((calls[c].pc = "sent") ~> (calls[c].pc = "returned"))
=============================================================================
