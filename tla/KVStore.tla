------------------------------ MODULE KVStore ------------------------------
(***************************************************************************)
(* What the key/value service of src/src/kvraft promises its clients: one  *)
(* store, on which every call of Get, Put and Append takes effect at one   *)
(* moment between the call and its return, and exactly once.               *)
(*                                                                         *)
(* A value is the sequence of the strings put and appended to a key since  *)
(* the last Put; a key nobody wrote has the empty one, which is what Get   *)
(* returns for it.                                                         *)
(***************************************************************************)
EXTENDS Sequences

CONSTANTS
  Key, Value,
  Caller,   \* the goroutines that call the clerks
  None      \* no call, no result yet

VARIABLES
  store,    \* the value of every key
  call,     \* for every caller its operation, or None
  result,   \* what the operation under way has returned, or None
  output    \* what the caller's last completed call returned

vars == <<store, call, result, output>>

Operation == [Op : {"GET"}, Key : Key, Value : {None}]
               \cup [Op : {"PUT", "APPEND"}, Key : Key, Value : Value]

\* The value of op's key after op, when it was v before.
Effect(op, v) ==
  CASE op.Op = "GET" -> v
    [] op.Op = "PUT" -> <<op.Value>>
    [] op.Op = "APPEND" -> Append(v, op.Value)

\* What op returns when its key has value v; only Get returns anything.
Answer(op, v) == IF op.Op = "GET" THEN v ELSE <<>>

Init ==
  /\ store = [k \in Key |-> <<>>]
  /\ call = [p \in Caller |-> None]
  /\ result = [p \in Caller |-> None]
  /\ output = [p \in Caller |-> None]

Invoke(p, op) ==
  /\ call[p] = None
  /\ call' = [call EXCEPT ![p] = op]
  /\ UNCHANGED <<store, result, output>>

Perform(p) ==
  /\ call[p] # None
  /\ result[p] = None
  /\ result' = [result EXCEPT ![p] = Answer(call[p], store[call[p].Key])]
  /\ store' = [store EXCEPT ![call[p].Key] = Effect(call[p], @)]
  /\ UNCHANGED <<call, output>>

Return(p) ==
  /\ result[p] # None
  /\ output' = [output EXCEPT ![p] = result[p]]
  /\ call' = [call EXCEPT ![p] = None]
  /\ result' = [result EXCEPT ![p] = None]
  /\ UNCHANGED store

Next ==
  \E p \in Caller :
    \/ \E op \in Operation : Invoke(p, op)
    \/ Perform(p)
    \/ Return(p)

Spec == Init /\ [][Next]_vars
=============================================================================
