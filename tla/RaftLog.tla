------------------------------ MODULE RaftLog ------------------------------
(***************************************************************************)
(* The pure part of src/src/raft/raft.go: arithmetic on a log whose first  *)
(* entry stands for everything a snapshot has swallowed.                   *)
(*                                                                         *)
(* A log is a sequence of entries [CommandIndex, CommandTerm, Command].    *)
(* Go's rf.Log[i] is At(log, i): a Go slice counts from 0, a TLA+ sequence *)
(* from 1.  An entry's position in the slice is its "local" index, its     *)
(* CommandIndex the "real" one.                                            *)
(***************************************************************************)
EXTENDS Integers, Sequences, FiniteSets

At(log, i) == log[i + 1]

\* The slice expressions log[from:] and log[:to] of Go.
From(log, from) == SubSeq(log, from + 1, Len(log))
UpTo(log, to) == SubSeq(log, 1, to)

\* The real index of the entry the log starts from.
Base(log) == log[1].CommandIndex

calculateRealIndex(log, raw) == raw + Base(log)

calculateLocalIndex(log, real) == real - Base(log)

\* Mutant: the index after the last one.
getNextCommandIndex(log) == log[Len(log)].CommandIndex + 1

getLastCommandIndex(log) == log[Len(log)].CommandIndex

getLastCommandTerm(log) == log[Len(log)].CommandTerm

\* The local positions from which the log holds one term up to position index.
RunStarts(log, index) ==
  {j \in 0 .. index :
     \A k \in j .. index : At(log, k).CommandTerm = At(log, index).CommandTerm}

Least(S) == CHOOSE x \in S : \A y \in S : x <= y

\* Mutant: the loop's last increment is taken twice.
getIndexAfterFirst(log, realIndex) ==
  LET index == calculateLocalIndex(log, realIndex)
  IN  IF index <= 0
        THEN realIndex
        ELSE calculateRealIndex(log, Least(RunStarts(log, index)) + 1)

\* Where the loop of the source stops: the first entry of the run of equal
\* terms that ends at realIndex.  (The source's name says "before" the term.)
getIndexBeforeTerm(log, realIndex) ==
  LET index == calculateLocalIndex(log, realIndex)
  IN  IF index <= 0
        THEN realIndex
        ELSE calculateRealIndex(log, Least(RunStarts(log, index)))

\* Mutant: the entries are not compared.
testStalePrev(log, prevLogIndex, prevLogTerm, entries) ==
  LET index == calculateLocalIndex(log, prevLogIndex)
  IN  index >= 0 => At(log, index).CommandTerm = prevLogTerm

\* Does the log already hold the entries of an AppendEntries request?  Entries
\* below the log's first one are under the snapshot and not compared.
testStaleRPC(log, prevLogIndex, prevLogTerm, entries) ==
  LET index == calculateLocalIndex(log, prevLogIndex)
  IN  /\ index >= 0 => At(log, index).CommandTerm = prevLogTerm
      /\ \A i \in 0 .. Len(entries) - 1 :
           index + i + 1 >= 0 => At(log, index + i + 1) = At(entries, i)

\* Mutant: element length / 2.
findUpperMedian(match, c) ==
  LET middle == Cardinality(DOMAIN match) \div 2
  IN  /\ Cardinality({p \in DOMAIN match : match[p] < c}) <= middle
      /\ Cardinality({p \in DOMAIN match : match[p] <= c}) > middle

\* c is element (length - 1) / 2 of the sorted copy of match.
findMajority(match, c) ==
  LET middle == (Cardinality(DOMAIN match) - 1) \div 2
  IN  /\ Cardinality({p \in DOMAIN match : match[p] < c}) <= middle
      /\ Cardinality({p \in DOMAIN match : match[p] <= c}) > middle

-----------------------------------------------------------------------------
\* Indices of the slice, and what an accepted AppendEntries makes of it.

\* Is the local index of a real one inside the slice?  Outside it Go panics.
InLog(log, real) == calculateLocalIndex(log, real) \in 0 .. Len(log) - 1

\* Mutant: the entry at prevLogIndex is cut off too.
SplicedShort(log, prevLogIndex, entries) ==
  LET matchIndex == calculateLocalIndex(log, prevLogIndex)
  IN  IF matchIndex + 1 > 0
        THEN UpTo(log, matchIndex) \o entries
        ELSE From(entries, -matchIndex - 1)

\* The log AppendEntries leaves after an accepted request: the part up to
\* prevLogIndex followed by the entries, or, when prevLogIndex lies under the
\* snapshot, the entries from the log's first index on.
Spliced(log, prevLogIndex, entries) ==
  LET matchIndex == calculateLocalIndex(log, prevLogIndex)
  IN  IF matchIndex + 1 > 0
        THEN UpTo(log, matchIndex + 1) \o entries
        ELSE From(entries, -matchIndex - 1)
=============================================================================
