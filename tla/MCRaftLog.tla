----------------------------- MODULE MCRaftLog -----------------------------
(***************************************************************************)
(* The operators of RaftLog against independent definitions, for every log *)
(* and request within the bounds.  A state is one input.                   *)
(***************************************************************************)
EXTENDS RaftLog, SequencesExt

CONSTANTS
  MaxBase,     \* bound: real index of the first entry
  MaxLength,   \* bound: length of a log, and of the entries of a request
  MaxTerm,     \* bound: terms of entries
  MaxServers   \* bound: size of a cluster, for findMajority

ASSUME MCRaftLogAssumption ==
  /\ MaxBase \in Nat
  /\ MaxLength \in Nat \ {0}
  /\ MaxTerm \in Nat \ {0}
  /\ MaxServers \in Nat \ {0}

VARIABLE input

\* n consecutive entries from real index first on, with the given terms.
Entries(first, terms) ==
  [i \in 1 .. Len(terms) |-> [CommandIndex |-> first + i - 1, CommandTerm |-> terms[i]]]

Terms(n) == [1 .. n -> 1 .. MaxTerm]

\* Logs: from the zero entry, or from an entry a snapshot ends with.
Logs ==
  {<<[CommandIndex |-> 0, CommandTerm |-> 0]>> \o Entries(1, ts) :
     ts \in UNION {Terms(n) : n \in 0 .. MaxLength - 1}}
  \cup UNION {{Entries(b, ts) : ts \in UNION {Terms(n) : n \in 1 .. MaxLength}} :
                b \in 1 .. MaxBase}

TopIndex == MaxBase + MaxLength

\* An AppendEntries request meeting a log; the term at index 0 is always 0.
RequestCases ==
  {[log |-> l, prev |-> p, prevTerm |-> t, entries |-> Entries(p + 1, ts)] :
     l \in Logs, p \in 1 .. TopIndex, t \in 1 .. MaxTerm,
     ts \in UNION {Terms(n) : n \in 0 .. MaxLength}}
  \cup
  {[log |-> l, prev |-> 0, prevTerm |-> 0, entries |-> Entries(1, ts)] :
     l \in Logs, ts \in UNION {Terms(n) : n \in 0 .. MaxLength}}

MatchCases == {[match |-> f] : f \in UNION {[1 .. n -> 0 .. TopIndex] : n \in 1 .. MaxServers}}

Init == input \in RequestCases \cup MatchCases
Next == UNCHANGED input
Spec == Init /\ [][Next]_input

IsRequest == "log" \in DOMAIN input

-----------------------------------------------------------------------------
\* The loop of getIndexBeforeTerm as it is written, counting down from index.
RECURSIVE CountDown(_, _, _)
CountDown(log, i, term) ==
  IF i >= 0 /\ At(log, i).CommandTerm = term THEN CountDown(log, i - 1, term) ELSE i

\* getIndexBeforeTerm returns what its loop computes, at every index of the log.
IndexBeforeTermIsLoop ==
  IsRequest =>
    \A k \in 1 .. Len(input.log) - 1 :
      LET real == calculateRealIndex(input.log, k)
      IN  getIndexBeforeTerm(input.log, real) =
            calculateRealIndex(input.log,
              CountDown(input.log, k, At(input.log, k).CommandTerm) + 1)

\* The request passes the two refusals of AppendEntries.
Matches ==
  LET k == calculateLocalIndex(input.log, input.prev)
  IN  /\ input.prev <= getLastCommandIndex(input.log)
      /\ k >= 0 => At(input.log, k).CommandTerm = input.prevTerm

\* The request is taken for a stale one.
Stale ==
  /\ input.prev + Len(input.entries) <= getLastCommandIndex(input.log)
  /\ testStaleRPC(input.log, input.prev, input.prevTerm, input.entries)

\* A request taken for stale holds nothing the log lacks: had it been appended,
\* only a prefix of the log would be left.
StaleLosesNothing ==
  IsRequest /\ Stale =>
    LET k == calculateLocalIndex(input.log, input.prev)
    IN  /\ Matches
        /\ k + 1 > 0 => IsPrefix(Spliced(input.log, input.prev, input.entries), input.log)

\* The entry with real index i in a log or in the entries of a request.
EntryAt(entries, i) == CHOOSE e \in Range(entries) : e.CommandIndex = i

\* After an accepted request that was not stale the log runs from its old first
\* index to the last one sent, with the old entries up to prev and the sent
\* ones after it, also when prev lies under the snapshot.
SpliceIsExact ==
  IsRequest /\ Matches /\ ~Stale =>
    LET base == Base(input.log)
        new == Spliced(input.log, input.prev, input.entries)
    IN  /\ Len(new) = input.prev + Len(input.entries) - base + 1
        /\ \A i \in base .. input.prev + Len(input.entries) :
             At(new, i - base) =
               IF i <= input.prev THEN EntryAt(input.log, i) ELSE EntryAt(input.entries, i)

\* findMajority returns the greatest index that more than half of the servers
\* have reached, for even and odd clusters.
MajorityIsGreatest ==
  ~IsRequest =>
    LET f == input.match
        Reached(i) == Cardinality({p \in DOMAIN f : f[p] >= i}) > Cardinality(DOMAIN f) \div 2
    IN  \A c \in Range(f) :
          findMajority(f, c) <=> Reached(c) /\ ~Reached(c + 1)
=============================================================================
