--------------------------- MODULE Linearizability ---------------------------
(***************************************************************************)
(* The checker of src/src/linearizability, which decides whether the       *)
(* history a key/value test recorded is linearizable.                      *)
(* CheckOperationsTimeout splits the history by key and searches every     *)
(* part in a goroutine of its own (checkSingle); the first failure stops   *)
(* the others, and a timeout ends the check early.                         *)
(*                                                                         *)
(* A history is a sequence of operation numbers, each of which appears     *)
(* twice, for its call and its return.  A node of a linked list is a place *)
(* in it; 0 is the head node that checkSingle puts in front.               *)
(***************************************************************************)
EXTENDS Naturals, Sequences, FiniteSets, FiniteSetsExt, SequencesExt

CONSTANTS
  Key, Value,
  None,          \* nil; also a verdict not reached
  NOps,          \* number of operations in the history
  MaxOut,        \* bound: length of the values Get returned
  MayTimeOut     \* is there a timeout?

ASSUME CheckerAssumption == NOps \in Nat /\ MaxOut \in Nat /\ MayTimeOut \in BOOLEAN

VARIABLES
  ops,       \* Input and Output of every operation
  history,   \* the entries, sorted by time
  search,    \* the state of checkSingle for every partition
  received,  \* partitions whose result was received
  ok,        \* the variable of CheckOperationsTimeout
  kill,      \* the flag it shares with the searches
  timedOut,
  returned   \* has it returned?

vars == <<ops, history, search, received, ok, kill, timedOut, returned>>
mainVars == <<received, ok, kill, timedOut, returned>>

Op == 1 .. NOps

\* KvInput and KvOutput.
Operation ==
  [Op : {"get"}, Key : Key, Value : {None}, Out : BoundedSeq(Value, MaxOut)]
    \cup [Op : {"put", "append"}, Key : Key, Value : Value, Out : {<<>>}]

\* Every order of calls and returns; operations are numbered by their calls.
Histories ==
  {h \in [1 .. 2 * NOps -> Op] :
     /\ \A o \in Op : Cardinality({p \in DOMAIN h : h[p] = o}) = 2
     /\ \A p, q \in DOMAIN h :
          h[p] < h[q] => \E p1 \in 1 .. q - 1 : h[p1] = h[p]}

IsCall(p) == \A q \in 1 .. p - 1 : history[q] # history[p]

-----------------------------------------------------------------------------
(***************************************************************************)
(* KvModel.                                                                *)
(***************************************************************************)

\* Partition: one subhistory for every key that was used.
Partition == {ops[o].Key : o \in Op}

\* Step: may op happen in state st, and what is the state then?
StepOK(st, op) == op.Op = "get" => op.Out = st

StepState(st, op) ==
  CASE op.Op = "get" -> st
    [] op.Op = "put" -> <<op.Value>>
    [] op.Op = "append" -> Append(st, op.Value)

-----------------------------------------------------------------------------
(***************************************************************************)
(* The linked list.                                                        *)
(***************************************************************************)

\* The places of partition k.
Places(k) == {p \in DOMAIN history : ops[history[p]].Key = k}

\* makeLinkedEntries, and the head node.
makeLinkedEntries(k) ==
  [next |-> [p \in Places(k) \cup {0} |->
               LET after == {q \in Places(k) : q > p}
               IN  IF after = {} THEN None ELSE Min(after)],
   prev |-> [p \in Places(k) \cup {0} |->
               LET before == {q \in Places(k) \cup {0} : q < p}
               IN  IF before = {} THEN None ELSE Max(before)]]

\* node.match: the return of a call, nil for a return.
match(p) ==
  IF IsCall(p) THEN CHOOSE q \in DOMAIN history : q # p /\ history[q] = history[p] ELSE None

\* A node out of the list, as both halves of lift do it.
Unlinked(l, n) ==
  [next |-> [l.next EXCEPT ![l.prev[n]] = l.next[n]],
   prev |-> IF l.next[n] = None THEN l.prev ELSE [l.prev EXCEPT ![l.next[n]] = l.prev[n]]]

\* And back, at the place its own pointers still show.
Linked(l, n) ==
  [next |-> [l.next EXCEPT ![l.prev[n]] = n],
   prev |-> IF l.next[n] = None THEN l.prev ELSE [l.prev EXCEPT ![l.next[n]] = n]]

\* Mutant: the return stays.
liftCall(l, n) == Unlinked(l, n)

lift(l, n) == Unlinked(Unlinked(l, n), match(n))

unlift(l, n) == Linked(Linked(l, match(n)), n)

-----------------------------------------------------------------------------
(***************************************************************************)
(* checkSingle.                                                            *)
(***************************************************************************)

\* Its variables before the loop.
Start(k) ==
  [list |-> makeLinkedEntries(k), entry |-> Min(Places(k)), state |-> <<>>,
   linearized |-> {}, cache |-> {}, calls |-> <<>>, result |-> None, killed |-> FALSE]

\* Mutant: the cache forgets in which state it was.
cacheContainsSet(cache, linearized, state) == \E c \in cache : c[1] = linearized

cacheContains(cache, linearized, state) == <<linearized, state>> \in cache

\* The call at entry is next in the order under construction, unless the model
\* forbids it or the search was there before.
TryCall(s) ==
  LET o == history[s.entry]
      linearized == s.linearized \cup {o}
      state == StepState(s.state, ops[o])
      list == lift(s.list, s.entry)
  IN  IF StepOK(s.state, ops[o]) /\ ~cacheContains(s.cache, linearized, state)
        THEN [s EXCEPT !.cache = @ \cup {<<linearized, state>>},
                       !.calls = Append(@, [entry |-> s.entry, state |-> s.state]),
                       !.state = state, !.linearized = linearized,
                       !.list = list, !.entry = list.next[0]]
        ELSE [s EXCEPT !.entry = s.list.next[@]]

\* A return is in the way: the last choice is undone and the search goes on
\* behind it.
Backtrack(s) ==
  LET top == Last(s.calls)
      list == unlift(s.list, top.entry)
  IN  IF s.calls = <<>> THEN [s EXCEPT !.result = FALSE]
      ELSE [s EXCEPT !.entry = list.next[top.entry], !.state = top.state,
                     !.linearized = @ \ {history[top.entry]}, !.calls = Front(@),
                     !.list = list]

\* One round of the loop.
checkSingle(k) ==
  LET s == search[k]
  IN  /\ s.result = None
      /\ search' = [search EXCEPT ![k] =
           IF s.list.next[0] = None THEN [s EXCEPT !.result = TRUE]
           ELSE IF kill THEN [s EXCEPT !.result = FALSE, !.killed = TRUE]
           ELSE IF match(s.entry) # None THEN TryCall(s)
           ELSE Backtrack(s)]
      /\ UNCHANGED <<ops, history, mainVars>>

-----------------------------------------------------------------------------
(***************************************************************************)
(* CheckOperationsTimeout.                                                 *)
(***************************************************************************)

\* Mutant: the comparison is off by one.
EnoughMore(k) == Cardinality(received \cup {k}) > Cardinality(Partition)

\* Is k the last partition to be heard of?
Enough(k) == received \cup {k} = Partition

\* "result := <-results".
Receive(k) ==
  /\ ~returned
  /\ k \notin received
  /\ search[k].result # None
  /\ received' = received \cup {k}
  /\ ok' = search[k].result
  /\ kill' = ~ok'
  /\ returned' = (~ok' \/ Enough(k))
  /\ UNCHANGED <<ops, history, search, timedOut>>

\* "if we time out, we might get a false positive".
TimeOut ==
  /\ MayTimeOut
  /\ ~returned
  /\ timedOut' = TRUE
  /\ returned' = TRUE
  /\ UNCHANGED <<ops, history, search, received, ok, kill>>

Init ==
  /\ ops \in [Op -> Operation]
  /\ history \in Histories
  /\ search = [k \in Partition |-> Start(k)]
  /\ received = {}
  /\ ok = TRUE
  /\ kill = FALSE
  /\ timedOut = FALSE
  /\ returned = FALSE

Next ==
  \/ \E k \in Partition : checkSingle(k) \/ Receive(k)
  \/ TimeOut

Spec == Init /\ [][Next]_vars

\* The goroutines run.  The timer is not needed for the check to end.
FairSpec == Spec /\ \A k \in Key : WF_vars(k \in Partition /\ (checkSingle(k) \/ Receive(k)))

-----------------------------------------------------------------------------
(***************************************************************************)
(* Properties.                                                             *)
(***************************************************************************)

\* Did a return before b was called?
Precedes(a, b) ==
  \E p, q \in DOMAIN history :
    p < q /\ history[p] = a /\ history[q] = b /\ ~IsCall(p) /\ IsCall(q)

\* The store after the first n operations of order.
StoreAfter(order, n) ==
  FoldLeft(LAMBDA st, o : [st EXCEPT ![ops[o].Key] = StepState(@, ops[o])],
           [k \in Key |-> <<>>], SubSeq(order, 1, n))

\* The definition: some order of all operations, on one store with all keys,
\* respects real time and explains every output.
IsLinearizable ==
  \E order \in SetToSeqs(Op) :
    /\ \A i, j \in Op : i < j => ~Precedes(order[j], order[i])
    /\ \A i \in Op : StepOK(StoreAfter(order, i - 1)[ops[order[i]].Key], ops[order[i]])

\* The check is right: false means the history is not linearizable; true, without
\* a timeout, that it is, although keys were checked apart ("a history is
\* linearizable if an only if each partition is linearizable", model.go:24) and
\* a failed search stops the others.
ResultRight ==
  returned => /\ ~ok => ~IsLinearizable
              /\ ok /\ ~timedOut => IsLinearizable

\* The list of a search holds, in their order, exactly the entries of operations
\* it has not placed, and prev mirrors next, however often lift and unlift
\* alternate.
ListIsRest ==
  \A k \in Partition :
    LET l == search[k].list
        rest == {p \in Places(k) : history[p] \notin search[k].linearized} \cup {0}
    IN  \A p \in rest :
          /\ l.next[p] = IF \E q \in rest : q > p THEN Min({q \in rest : q > p}) ELSE None
          /\ l.next[p] # None => l.prev[l.next[p]] = p

\* The check of a history that is not empty returns.
CheckReturns == <>returned
=============================================================================
