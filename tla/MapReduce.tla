------------------------------ MODULE MapReduce ------------------------------
(***************************************************************************)
(* The master and the workers of src/src/mapreduce: registration, the      *)
(* forwarding of registrations to the scheduler of a phase, and the end of *)
(* a job, when the master shuts the workers and its own RPC server down.   *)
(*                                                                         *)
(* schedule() is an empty exercise: it returns at once and nobody calls    *)
(* DoTask, so tasks do not appear.  A connection is dialed (it waits in    *)
(* the listener's queue), accepted (a goroutine serves it), and then       *)
(* answered or refused; closing a listener refuses those in its queue.     *)
(***************************************************************************)
EXTENDS Integers, Sequences, FiniteSets, Functions

CONSTANTS
  Worker,
  NRPC,      \* the nRPC that workers may be started with; -1 for no limit
  NReduce    \* number of reduce tasks

ASSUME JobAssumption == NRPC \subseteq Int /\ NReduce \in Nat

Phase == {"mapPhase", "reducePhase"}

VARIABLES
  run,         \* where the master's run() is
  workers,     \* mr.workers
  killing,     \* killWorkers' place in it, 0 when it does not hold the mutex
  conn,        \* the connection of killWorkers or stopRPCServer
  listening,   \* is the master's listener open?
  forwarded,   \* workers each forwardRegistrations has sent: its index i
  waiting,     \* is it in newCond.Wait?
  loop,        \* where each RunWorker is
  register,    \* its connection for Master.Register
  nRPC,        \* wk.nRPC
  told         \* workers whose Shutdown handler ran

masterVars == <<run, workers, killing, conn, listening>>
forwardVars == <<forwarded, waiting>>
workerVars == <<loop, register, nRPC, told>>
vars == <<masterVars, forwardVars, workerVars>>

\* Every variable has its type.
TypeOK ==
  /\ run \in {"mapPhase", "reducePhase", "finish", "killWorkers", "stopRPCServer",
              "merge", "fatal", "done"}
  /\ workers \in Seq(Worker)
  /\ killing \in 0 .. Len(workers) + 1
  /\ conn \in {"none", "dialed", "accepted", "answered", "refused"}
  /\ listening \in BOOLEAN
  /\ forwarded \in [Phase -> -1 .. Len(workers)]
  /\ waiting \in [Phase -> BOOLEAN]
  /\ loop \in [Worker -> {"none", "register", "check", "accept", "close", "exit"}]
  /\ register \in [Worker -> {"none", "dialed", "accepted", "answered", "refused"}]
  /\ nRPC \in [Worker -> Int]
  /\ told \subseteq Worker

\* The master's process is alive and mr.Lock is free.
Unlocked == killing = 0 /\ run # "fatal"

-----------------------------------------------------------------------------
(***************************************************************************)
(* RunWorker.                                                              *)
(***************************************************************************)

\* Up to register's Dial: the worker listens, then calls the master.
RunWorker(w, n) ==
  /\ loop[w] = "none"
  /\ nRPC' = [nRPC EXCEPT ![w] = n]
  /\ loop' = [loop EXCEPT ![w] = "register"]
  /\ register' = [register EXCEPT ![w] = IF listening THEN "dialed" ELSE "refused"]
  /\ UNCHANGED <<masterVars, forwardVars, told>>

\* register returns, whether the master answered or not.
Registered(w) ==
  /\ loop[w] = "register"
  /\ register[w] \in {"answered", "refused"}
  /\ loop' = [loop EXCEPT ![w] = "check"]
  /\ UNCHANGED <<masterVars, forwardVars, register, nRPC, told>>

\* The head of the loop.
CheckNRPC(w) ==
  /\ loop[w] = "check"
  /\ loop' = [loop EXCEPT ![w] = IF nRPC[w] = 0 THEN "close" ELSE "accept"]
  /\ UNCHANGED <<masterVars, forwardVars, register, nRPC, told>>

\* Does killWorkers have a connection in w's queue?
Queued(w) == run = "killWorkers" /\ conn = "dialed" /\ workers[killing] = w

\* Accept returns a connection.
WorkerAccepts(w) ==
  /\ loop[w] = "accept"
  /\ Queued(w)
  /\ conn' = "accepted"
  /\ nRPC' = [nRPC EXCEPT ![w] = @ - 1]
  /\ loop' = [loop EXCEPT ![w] = "check"]
  /\ UNCHANGED <<run, workers, killing, listening, forwardVars, register, told>>

\* wk.l.Close(), behind the loop.
Close(w) ==
  /\ loop[w] = "close"
  /\ loop' = [loop EXCEPT ![w] = "exit"]
  /\ conn' = IF Queued(w) THEN "refused" ELSE conn
  /\ UNCHANGED <<run, workers, killing, listening, forwardVars, register, nRPC, told>>

\* Mutant: a connection is served only while the loop runs.
ShutdownInLoop(w) ==
  /\ run = "killWorkers"
  /\ conn = "accepted"
  /\ workers[killing] = w
  /\ loop[w] # "exit"
  /\ nRPC' = [nRPC EXCEPT ![w] = 1]
  /\ told' = told \cup {w}
  /\ conn' = "answered"
  /\ UNCHANGED <<run, workers, killing, listening, forwardVars, loop, register>>

\* Worker.Shutdown, in the goroutine of the connection.
Shutdown(w) ==
  /\ run = "killWorkers"
  /\ conn = "accepted"
  /\ workers[killing] = w
  /\ nRPC' = [nRPC EXCEPT ![w] = 1]
  /\ told' = told \cup {w}
  /\ conn' = "answered"
  /\ UNCHANGED <<run, workers, killing, listening, forwardVars, loop, register>>

-----------------------------------------------------------------------------
(***************************************************************************)
(* The master's RPC server.                                                *)
(***************************************************************************)

\* The loop of startRPCServer accepts a worker's connection, or stopRPCServer's.
AcceptWorker(w) ==
  /\ listening
  /\ register[w] = "dialed"
  /\ register' = [register EXCEPT ![w] = "accepted"]
  /\ UNCHANGED <<masterVars, forwardVars, loop, nRPC, told>>

AcceptStop ==
  /\ listening
  /\ run = "stopRPCServer"
  /\ conn = "dialed"
  /\ conn' = "accepted"
  /\ UNCHANGED <<run, workers, killing, listening, forwardVars, workerVars>>

\* Mutant: nobody is woken.
RegisterQuietly(w) ==
  /\ register[w] = "accepted"
  /\ Unlocked
  /\ workers' = Append(workers, w)
  /\ register' = [register EXCEPT ![w] = "answered"]
  /\ UNCHANGED <<run, killing, conn, listening, forwardVars, loop, nRPC, told>>

\* Master.Register.
Register(w) ==
  /\ register[w] = "accepted"
  /\ Unlocked
  /\ workers' = Append(workers, w)
  /\ waiting' = [p \in Phase |-> FALSE]
  /\ register' = [register EXCEPT ![w] = "answered"]
  /\ UNCHANGED <<run, killing, conn, listening, forwarded, loop, nRPC, told>>

\* Master.Shutdown, which stopRPCServer calls.
MasterShutdown ==
  /\ run = "stopRPCServer"
  /\ conn = "accepted"
  /\ listening' = FALSE
  /\ register' = [w \in Worker |-> IF register[w] = "dialed" THEN "refused" ELSE register[w]]
  /\ conn' = "answered"
  /\ UNCHANGED <<run, workers, killing, forwardVars, loop, nRPC, told>>

\* Mutant: the comparison is off by one.
forwardOneMore(p) ==
  /\ forwarded[p] # -1
  /\ ~waiting[p]
  /\ Unlocked
  /\ IF Len(workers) >= forwarded[p]
       THEN /\ forwarded' = [forwarded EXCEPT ![p] = @ + 1]
            /\ UNCHANGED waiting
       ELSE /\ waiting' = [waiting EXCEPT ![p] = TRUE]
            /\ UNCHANGED forwarded
  /\ UNCHANGED <<masterVars, workerVars>>

\* One round of forwardRegistrations for phase p.
forwardRegistrations(p) ==
  /\ forwarded[p] # -1
  /\ ~waiting[p]
  /\ Unlocked
  /\ IF Len(workers) > forwarded[p]
       THEN /\ forwarded' = [forwarded EXCEPT ![p] = @ + 1]
            /\ UNCHANGED waiting
       ELSE /\ waiting' = [waiting EXCEPT ![p] = TRUE]
            /\ UNCHANGED forwarded
  /\ UNCHANGED <<masterVars, workerVars>>

-----------------------------------------------------------------------------
(***************************************************************************)
(* run.                                                                    *)
(***************************************************************************)

\* Distributed's function for a phase: it starts forwardRegistrations and calls
\* schedule, which does nothing.
SchedulePhase(p) ==
  /\ run = p
  /\ run' = IF p = "mapPhase" THEN "reducePhase" ELSE "finish"
  /\ forwarded' = [forwarded EXCEPT ![p] = 0]
  /\ UNCHANGED <<workers, killing, conn, listening, waiting, workerVars>>

\* killWorkers takes the mutex, which it keeps until its last call returned.
killWorkers ==
  /\ run = "finish"
  /\ Unlocked
  /\ run' = "killWorkers"
  /\ killing' = 1
  /\ UNCHANGED <<workers, conn, listening, forwardVars, workerVars>>

\* It dials the next worker,
DialWorker ==
  /\ run = "killWorkers"
  /\ conn = "none"
  /\ killing <= Len(workers)
  /\ conn' = IF loop[workers[killing]] = "exit" THEN "refused" ELSE "dialed"
  /\ UNCHANGED <<run, workers, killing, listening, forwardVars, workerVars>>

\* and goes on when call() returned, with or without an answer.
WorkerCalled ==
  /\ run = "killWorkers"
  /\ conn \in {"answered", "refused"}
  /\ killing' = killing + 1
  /\ conn' = "none"
  /\ UNCHANGED <<run, workers, listening, forwardVars, workerVars>>

\* At the end it unlocks, and stopRPCServer dials the master itself.
stopRPCServer ==
  /\ run = "killWorkers"
  /\ killing = Len(workers) + 1
  /\ killing' = 0
  /\ run' = "stopRPCServer"
  /\ conn' = "dialed"
  /\ UNCHANGED <<workers, listening, forwardVars, workerVars>>

ServerStopped ==
  /\ run = "stopRPCServer"
  /\ conn = "answered"
  /\ run' = "merge"
  /\ conn' = "none"
  /\ UNCHANGED <<workers, killing, listening, forwardVars, workerVars>>

\* merge reads what the reduce tasks wrote: nothing, as none was scheduled, so
\* that log.Fatal ends the process and cuts its connections.
merge ==
  /\ run = "merge"
  /\ run' = IF NReduce > 0 THEN "fatal" ELSE "done"
  /\ register' = [w \in Worker |-> IF NReduce > 0 /\ register[w] = "accepted"
                                     THEN "refused" ELSE register[w]]
  /\ UNCHANGED <<workers, killing, conn, listening, forwardVars, loop, nRPC, told>>

Init ==
  /\ run = "mapPhase"
  /\ workers = <<>>
  /\ killing = 0
  /\ conn = "none"
  /\ listening = TRUE
  /\ forwarded = [p \in Phase |-> -1]
  /\ waiting = [p \in Phase |-> FALSE]
  /\ loop = [w \in Worker |-> "none"]
  /\ register = [w \in Worker |-> "none"]
  /\ nRPC = [w \in Worker |-> 0]
  /\ told = {}

MasterStep ==
  \/ \E p \in Phase : SchedulePhase(p)
  \/ killWorkers \/ DialWorker \/ WorkerCalled \/ stopRPCServer \/ ServerStopped \/ merge

WorkerStep(w) == Registered(w) \/ CheckNRPC(w) \/ WorkerAccepts(w) \/ Close(w) \/ Shutdown(w)

ServerStep == AcceptStop \/ MasterShutdown \/ \E w \in Worker : AcceptWorker(w) \/ Register(w)

Next ==
  \/ MasterStep
  \/ ServerStep
  \/ \E p \in Phase : forwardRegistrations(p)
  \/ \E w \in Worker : WorkerStep(w) \/ \E n \in NRPC : RunWorker(w, n)

Spec == Init /\ [][Next]_vars

\* Every goroutine runs; whether a worker is started is nobody's promise.
FairSpec ==
  /\ Spec
  /\ WF_vars(MasterStep)
  /\ WF_vars(AcceptStop)
  /\ WF_vars(MasterShutdown)
  /\ \A p \in Phase : WF_vars(forwardRegistrations(p))
  /\ \A w \in Worker : WF_vars(AcceptWorker(w)) /\ WF_vars(Register(w)) /\ WF_vars(WorkerStep(w))

-----------------------------------------------------------------------------
(***************************************************************************)
(* Properties.                                                             *)
(***************************************************************************)

\* killWorkers, which holds the mutex while it waits for one worker after the
\* other, never waits forever: run ends, whatever the workers do.
RunEnds == <>(run \in {"done", "fatal"})

\* "registerChan will yield all existing registered workers (if any) and new ones
\* as they register" (schedule.go:11): no wake-up of a forwardRegistrations is
\* lost, although two of them wait on one condition.
EveryWorkerForwarded ==
  \A p \in Phase : \A n \in 1 .. Cardinality(Worker) :
    (forwarded[p] # -1 /\ Len(workers) = n) ~> (forwarded[p] >= n \/ run = "fatal")

\* "This happens when all tasks have scheduled and completed, ..., and all workers
\* have been shut down" (master.go:153, Wait): when run has finished, every
\* registered worker was told to.
AllShutDown == run = "done" => Range(workers) \subseteq told

\* A worker that was told to shut down quits its loop.
QuitsWhenTold == \A w \in Worker : (w \in told) ~> (loop[w] = "exit")
=============================================================================
