--------------------------- MODULE RaftLogProofs ---------------------------
(***************************************************************************)
(* Facts about the operators of RaftLog, for every log.                    *)
(***************************************************************************)
EXTENDS RaftLog, SequenceTheorems, FiniteSetTheorems, WellFoundedInduction, TLAPS

\* Any set of things that have an index and a term.
IsEntrySet(E) == \A e \in E : e.CommandIndex \in Nat /\ e.CommandTerm \in Nat

\* A log of consecutive entries, at least one.
IsLog(log, E) ==
  /\ log \in Seq(E)
  /\ log # <<>>
  /\ \A i \in 1 .. Len(log) : log[i].CommandIndex = Base(log) + i - 1

\* A nonempty set of natural numbers has a least element, which Least picks.
LEMMA LeastOfNats ==
  ASSUME NEW S, S \subseteq Nat, S # {}
  PROVE  Least(S) \in S /\ \A y \in S : Least(S) <= y
<1> DEFINE T == {0 .. n : n \in S}
<1>1. IsWellFoundedOn(StrictSubsetOrdering(Nat), FiniteSubsetsOf(Nat))
  BY FS_StrictSubsetOrderingWellFounded
<1>2. T \subseteq FiniteSubsetsOf(Nat) /\ T # {}
  <2>1. \A n \in Nat : IsFiniteSet(0 .. n) /\ 0 .. n \subseteq Nat
    BY FS_Interval
  <2> QED BY <2>1, ZenonT(30) DEF FiniteSubsetsOf
<1>3. PICK X \in T : \A Y \in T : ~ (<<Y, X>> \in StrictSubsetOrdering(Nat))
  <2> HIDE DEF T
  <2> QED BY <1>1, <1>2, WFMin
<1>4. PICK x \in S : X = 0 .. x
  BY <1>3
<1>5. ASSUME NEW y \in S, ~ (x <= y)
      PROVE  FALSE
  <2>1. 0 .. y \in T
    OBVIOUS
  <2>2. 0 .. y \subseteq 0 .. x /\ 0 .. y # 0 .. x
    <3>1. x \in Nat /\ y \in Nat /\ y < x
      BY <1>5
    <3>2. x \in 0 .. x /\ x \notin 0 .. y
      BY <3>1
    <3> QED BY <3>1, <3>2
  <2>3. 0 .. y \subseteq Nat /\ 0 .. x \subseteq Nat
    OBVIOUS
  <2>4. <<0 .. y, 0 .. x>> \in StrictSubsetOrdering(Nat)
    BY <2>2, <2>3 DEF StrictSubsetOrdering
  <2> QED BY <1>3, <1>4, <2>1, <2>4, ZenonT(30)
<1> QED
  BY <1>5, ZenonT(30) DEF Least

\* The last index of a log follows from its first one and its length.
LEMMA LastOfLog ==
  ASSUME NEW E, IsEntrySet(E), NEW log, IsLog(log, E)
  PROVE  /\ Len(log) \in Nat \ {0}
         /\ Base(log) \in Nat
         /\ log[1] \in E
         /\ getLastCommandIndex(log) = Base(log) + Len(log) - 1
         /\ getLastCommandIndex(log) \in Nat
         /\ getLastCommandTerm(log) \in Nat
<1>1. Len(log) \in Nat \ {0}
  BY EmptySeq DEF IsLog
<1>2. \A i \in 1 .. Len(log) : log[i] \in E
  BY ElementOfSeq DEF IsLog
<1> QED
  BY <1>1, <1>2 DEF IsLog, IsEntrySet, Base, getLastCommandIndex, getLastCommandTerm

\* getIndexBeforeTerm returns an index not beyond the one it is asked about.
LEMMA IndexBeforeTerm ==
  ASSUME NEW log, Base(log) \in Nat, NEW real \in Nat
  PROVE  /\ getIndexBeforeTerm(log, real) \in Nat
         /\ getIndexBeforeTerm(log, real) <= real
<1> DEFINE index == calculateLocalIndex(log, real)
<1>1. CASE index <= 0
  BY <1>1 DEF getIndexBeforeTerm
<1>2. CASE index > 0
  <2> DEFINE S == RunStarts(log, index)
  <2>1. index \in Nat
    BY <1>2 DEF calculateLocalIndex
  <2>2. index \in S
    BY <2>1 DEF RunStarts
  <2>3. S \subseteq 0 .. index
    BY DEF RunStarts
  <2>4. Least(S) \in 0 .. index
    <3> HIDE DEF S, index
    <3>1. S \subseteq Nat /\ S # {}
      BY <2>1, <2>2, <2>3
    <3> QED BY <2>1, <2>3, <3>1, LeastOfNats, ZenonT(30)
  <2>5. getIndexBeforeTerm(log, real) = Least(S) + Base(log)
    BY <1>2 DEF getIndexBeforeTerm, calculateRealIndex, calculateLocalIndex
  <2>6. index = real - Base(log)
    BY DEF calculateLocalIndex
  <2> HIDE DEF S, index
  <2> QED BY <2>1, <2>4, <2>5, <2>6
<1> QED
  BY <1>1, <1>2 DEF calculateLocalIndex

\* What the slice expressions log[k:] and log[:k] return.
LEMMA Slices ==
  ASSUME NEW E, NEW log \in Seq(E), NEW k \in 0 .. Len(log)
  PROVE  /\ From(log, k) \in Seq(E)
         /\ Len(From(log, k)) = Len(log) - k
         /\ \A i \in 1 .. Len(log) - k : From(log, k)[i] = log[k + i]
         /\ UpTo(log, k) \in Seq(E)
         /\ Len(UpTo(log, k)) = k
         /\ \A i \in 1 .. k : UpTo(log, k)[i] = log[i]
<1>1. Len(log) \in Nat /\ \A i \in 1 .. Len(log) : log[i] \in E
  BY LenProperties, ElementOfSeq
<1>2. /\ From(log, k) \in Seq(E)
      /\ Len(From(log, k)) = Len(log) - k
      /\ \A i \in 1 .. Len(log) - k : From(log, k)[i] = log[k + i]
  <2>1. \A i \in k + 1 .. Len(log) : log[i] \in E
    BY <1>1
  <2>2. k + 1 \in Int /\ Len(log) \in Int /\ k \in Nat
    BY <1>1
  <2>3. /\ From(log, k) \in Seq(E)
        /\ Len(From(log, k)) = IF k + 1 <= Len(log) THEN Len(log) - (k + 1) + 1 ELSE 0
        /\ \A i \in 1 .. Len(log) - (k + 1) + 1 : From(log, k)[i] = log[(k + 1) + i - 1]
    BY <2>1, <2>2, SubSeqProperties DEF From
  <2> QED BY <1>1, <2>2, <2>3
<1>3. /\ UpTo(log, k) \in Seq(E)
      /\ Len(UpTo(log, k)) = k
      /\ \A i \in 1 .. k : UpTo(log, k)[i] = log[i]
  <2>1. \A i \in 1 .. k : log[i] \in E
    BY <1>1
  <2>2. /\ UpTo(log, k) \in Seq(E)
        /\ Len(UpTo(log, k)) = IF 1 <= k THEN k - 1 + 1 ELSE 0
        /\ \A i \in 1 .. k - 1 + 1 : UpTo(log, k)[i] = log[1 + i - 1]
    BY <1>1, <2>1, SubSeqProperties DEF UpTo
  <2> QED BY <1>1, <2>2
<1> QED BY <1>2, <1>3

\* Cutting a log in front of one of its entries leaves two runs of consecutive
\* entries, and the entry is the first of the second one.
LEMMA CutLog ==
  ASSUME NEW E, IsEntrySet(E), NEW log, IsLog(log, E),
         NEW real \in Nat, real >= Base(log), real <= getLastCommandIndex(log)
  PROVE  LET k == calculateLocalIndex(log, real)
         IN  /\ InLog(log, real)
             /\ k \in 0 .. Len(log) - 1
             /\ At(log, k) \in E
             /\ At(log, k).CommandIndex = real
             /\ IsLog(From(log, k), E)
             /\ Base(From(log, k)) = real
             /\ UpTo(log, k) \in Seq(E)
             /\ \A i \in 1 .. Len(UpTo(log, k)) :
                  UpTo(log, k)[i].CommandIndex = Base(UpTo(log, k)) + i - 1
<1> DEFINE k == calculateLocalIndex(log, real)
<1>1. /\ Len(log) \in Nat \ {0}
      /\ Base(log) \in Nat
      /\ getLastCommandIndex(log) = Base(log) + Len(log) - 1
  BY LastOfLog
<1>2. /\ k = real - Base(log)
      /\ k \in Nat
      /\ k \in 0 .. Len(log) - 1
      /\ k \in 0 .. Len(log)
      /\ k + 1 \in 1 .. Len(log)
  BY <1>1 DEF calculateLocalIndex
<1> HIDE DEF k
<1>3. log \in Seq(E) /\ \A i \in 1 .. Len(log) : log[i].CommandIndex = Base(log) + i - 1
  BY DEF IsLog
<1>4. log[k + 1] \in E
  BY <1>1, <1>2, <1>3, ElementOfSeq
<1>5. log[k + 1].CommandIndex = real
  <2>1. log[k + 1].CommandIndex = Base(log) + (k + 1) - 1
    BY <1>2, <1>3
  <2> QED BY <1>1, <1>2, <2>1
<1>6. /\ From(log, k) \in Seq(E)
      /\ Len(From(log, k)) = Len(log) - k
      /\ \A i \in 1 .. Len(log) - k : From(log, k)[i] = log[k + i]
      /\ UpTo(log, k) \in Seq(E)
      /\ Len(UpTo(log, k)) = k
      /\ \A i \in 1 .. k : UpTo(log, k)[i] = log[i]
  BY <1>1, <1>2, <1>3, Slices, ZenonT(30)
<1>7. IsLog(From(log, k), E) /\ Base(From(log, k)) = real
  <2>1. From(log, k) # <<>>
    BY <1>1, <1>2, <1>6, EmptySeq
  <2>2. From(log, k)[1] = log[k + 1]
    <3>1. 1 \in 1 .. Len(log) - k
      BY <1>1, <1>2
    <3> QED BY <1>6, <3>1
  <2>3. Base(From(log, k)) = real
    BY <1>5, <2>2 DEF Base
  <2>4. ASSUME NEW i \in 1 .. Len(From(log, k))
        PROVE  From(log, k)[i].CommandIndex = real + i - 1
    <3>1. i \in 1 .. Len(log) - k /\ k + i \in 1 .. Len(log)
      BY <1>1, <1>2, <1>6, SMTT(30)
    <3>2. From(log, k)[i] = log[k + i]
      BY <1>6, <3>1
    <3>3. log[k + i].CommandIndex = Base(log) + (k + i) - 1
      BY <1>3, <3>1
    <3>4. ASSUME NEW b \in Nat, NEW j \in Nat, k = real - b
          PROVE  b + (k + j) - 1 = real + j - 1
      BY <3>4
    <3>5. i \in Nat
      BY <3>1
    <3> QED BY <1>1, <1>2, <3>2, <3>3, <3>4, <3>5, ZenonT(30)
  <2> QED BY <1>6, <2>1, <2>3, <2>4 DEF IsLog
<1>8. \A i \in 1 .. Len(UpTo(log, k)) :
        UpTo(log, k)[i].CommandIndex = Base(UpTo(log, k)) + i - 1
  <2> SUFFICES ASSUME NEW i \in 1 .. k
               PROVE  UpTo(log, k)[i].CommandIndex = Base(UpTo(log, k)) + i - 1
    BY <1>6
  <2>1. 1 \in 1 .. k /\ i \in 1 .. Len(log)
    BY <1>1, <1>2
  <2>2. UpTo(log, k)[i] = log[i] /\ UpTo(log, k)[1] = log[1]
    BY <1>6, <2>1
  <2> QED BY <1>3, <2>1, <2>2 DEF Base
<1> QED
  BY <1>2, <1>4, <1>5, <1>6, <1>7, <1>8 DEF InLog, At, k

\* Entries of a request: consecutive, and from index first on.
AreEntries(entries, first, E) ==
  /\ entries \in Seq(E)
  /\ \A i \in 1 .. Len(entries) : entries[i].CommandIndex = first + i - 1

\* What a leader sends after the entry at real continues the log behind it.
LEMMA EntriesAfter ==
  ASSUME NEW E, IsEntrySet(E), NEW log, IsLog(log, E),
         NEW real \in Nat, InLog(log, real)
  PROVE  AreEntries(From(log, calculateLocalIndex(log, real) + 1), real + 1, E)
<1> DEFINE k == calculateLocalIndex(log, real)
<1>1. Len(log) \in Nat \ {0} /\ Base(log) \in Nat
  BY LastOfLog
<1>2. k = real - Base(log) /\ k \in Nat /\ k + 1 \in Nat /\ k + 1 \in 0 .. Len(log)
  BY <1>1 DEF InLog, calculateLocalIndex
<1> HIDE DEF k
<1>3. log \in Seq(E) /\ \A i \in 1 .. Len(log) : log[i].CommandIndex = Base(log) + i - 1
  BY DEF IsLog
<1>4. /\ From(log, k + 1) \in Seq(E)
      /\ Len(From(log, k + 1)) = Len(log) - (k + 1)
      /\ \A i \in 1 .. Len(log) - (k + 1) : From(log, k + 1)[i] = log[(k + 1) + i]
  BY <1>2, <1>3, Slices
<1>5. ASSUME NEW i \in 1 .. Len(log) - (k + 1)
      PROVE  From(log, k + 1)[i].CommandIndex = (real + 1) + i - 1
  <2>1. i \in Nat /\ (k + 1) + i \in 1 .. Len(log)
    BY <1>1, <1>2
  <2>2. log[(k + 1) + i].CommandIndex = Base(log) + ((k + 1) + i) - 1
    BY <1>3, <2>1
  <2>3. ASSUME NEW b \in Nat, NEW j \in Nat, k = real - b
        PROVE  b + ((k + 1) + j) - 1 = (real + 1) + j - 1
    BY <2>3
  <2> QED BY <1>1, <1>2, <1>4, <2>1, <2>2, <2>3, ZenonT(30)
<1> QED
  BY <1>4, <1>5 DEF AreEntries, k

\* Start's append continues the log.
LEMMA AppendToLog ==
  ASSUME NEW E, IsEntrySet(E), NEW log, IsLog(log, E),
         NEW e \in E, e.CommandIndex = getLastCommandIndex(log) + 1
  PROVE  IsLog(Append(log, e), E)
<1>1. /\ Len(log) \in Nat \ {0}
      /\ Base(log) \in Nat
      /\ getLastCommandIndex(log) = Base(log) + Len(log) - 1
  BY LastOfLog
<1>2. log \in Seq(E) /\ \A i \in 1 .. Len(log) : log[i].CommandIndex = Base(log) + i - 1
  BY DEF IsLog
<1>3. /\ Append(log, e) \in Seq(E)
      /\ Append(log, e) # <<>>
      /\ Len(Append(log, e)) = Len(log) + 1
      /\ \A i \in 1 .. Len(log) : Append(log, e)[i] = log[i]
      /\ Append(log, e)[Len(log) + 1] = e
  BY <1>2, AppendProperties
<1>4. Base(Append(log, e)) = Base(log)
  <2>1. 1 \in 1 .. Len(log)
    BY <1>1
  <2> QED BY <1>3, <2>1 DEF Base
<1>5. ASSUME NEW i \in 1 .. Len(log) + 1
      PROVE  Append(log, e)[i].CommandIndex = Base(log) + i - 1
  <2>1. CASE i \in 1 .. Len(log)
    BY <1>2, <1>3, <2>1
  <2>2. CASE i = Len(log) + 1
    BY <1>1, <1>3, <2>2
  <2> QED BY <1>1, <2>1, <2>2
<1> QED
  BY <1>3, <1>4, <1>5 DEF IsLog

\* A request that is not stale and starts under the snapshot reaches the log.
LEMMA NotStaleReaches ==
  ASSUME NEW E, IsEntrySet(E), NEW log, IsLog(log, E),
         NEW prev \in Nat, NEW prevTerm, NEW entries \in Seq(E),
         calculateLocalIndex(log, prev) + 1 <= 0,
         ~ /\ prev + Len(entries) <= getLastCommandIndex(log)
           /\ testStaleRPC(log, prev, prevTerm, entries)
  PROVE  -calculateLocalIndex(log, prev) - 1 < Len(entries)
<1> DEFINE k == calculateLocalIndex(log, prev)
<1>1. /\ Len(log) \in Nat \ {0}
      /\ Base(log) \in Nat
      /\ getLastCommandIndex(log) = Base(log) + Len(log) - 1
  BY LastOfLog
<1>2. Len(entries) \in Nat
  BY LenProperties
<1>3. k = prev - Base(log) /\ k \in Int
  BY <1>1 DEF calculateLocalIndex
<1>4. CASE prev + Len(entries) > getLastCommandIndex(log)
  BY <1>1, <1>2, <1>3, <1>4
<1>5. CASE ~testStaleRPC(log, prev, prevTerm, entries)
  <2>1. PICK i \in 0 .. Len(entries) - 1 : k + i + 1 >= 0
    BY <1>3, <1>5 DEF testStaleRPC
  <2> QED BY <1>2, <1>3, <2>1
<1> QED
  BY <1>1, <1>2, <1>4, <1>5

\* The log an accepted request leaves is a log that starts where the old one
\* did, whether the request starts inside the log or under the snapshot.
LEMMA SplicedIsLog ==
  ASSUME NEW E, IsEntrySet(E), NEW log, IsLog(log, E),
         NEW prev \in Nat, prev <= getLastCommandIndex(log),
         NEW prevTerm, NEW entries, AreEntries(entries, prev + 1, E),
         ~ /\ prev + Len(entries) <= getLastCommandIndex(log)
           /\ testStaleRPC(log, prev, prevTerm, entries)
  PROVE  /\ IsLog(Spliced(log, prev, entries), E)
         /\ Base(Spliced(log, prev, entries)) = Base(log)
<1> DEFINE k == calculateLocalIndex(log, prev)
           new == Spliced(log, prev, entries)
<1>1. /\ Len(log) \in Nat \ {0}
      /\ Base(log) \in Nat
      /\ getLastCommandIndex(log) = Base(log) + Len(log) - 1
  BY LastOfLog
<1>2. log \in Seq(E) /\ \A i \in 1 .. Len(log) : log[i].CommandIndex = Base(log) + i - 1
  BY DEF IsLog
<1>3. /\ entries \in Seq(E)
      /\ Len(entries) \in Nat
      /\ \A i \in 1 .. Len(entries) : entries[i].CommandIndex = (prev + 1) + i - 1
  BY LenProperties DEF AreEntries
<1>4. k = prev - Base(log) /\ k \in Int /\ k <= Len(log) - 1
  BY <1>1 DEF calculateLocalIndex
<1>5. CASE k + 1 > 0
  <2> DEFINE head == UpTo(log, k + 1)
  <2>1. new = head \o entries
    BY <1>5 DEF Spliced
  <2>2. k \in Nat /\ k + 1 \in Nat /\ k + 1 \in 0 .. Len(log) /\ k + 1 \in 1 .. Len(log)
    BY <1>1, <1>4, <1>5
  <2> HIDE DEF k
  <2>3. /\ head \in Seq(E)
        /\ Len(head) = k + 1
        /\ \A i \in 1 .. k + 1 : head[i] = log[i]
    BY <1>2, <2>2, Slices
  <2> HIDE DEF new, head
  <2>4. /\ new \in Seq(E)
        /\ Len(new) = (k + 1) + Len(entries)
        /\ \A i \in 1 .. (k + 1) + Len(entries) :
             new[i] = IF i <= k + 1 THEN head[i] ELSE entries[i - (k + 1)]
    BY <1>3, <2>1, <2>3, ConcatProperties
  <2>5. new # <<>>
    BY <1>3, <2>2, <2>4, EmptySeq
  <2>6. Base(new) = Base(log)
    <3>1. 1 \in 1 .. (k + 1) + Len(entries) /\ 1 \in 1 .. k + 1 /\ 1 <= k + 1
      BY <1>3, <2>2
    <3>2. new[1] = log[1]
      BY <2>3, <2>4, <3>1
    <3> QED BY <3>2 DEF Base
  <2>7. ASSUME NEW i \in 1 .. (k + 1) + Len(entries)
        PROVE  new[i].CommandIndex = Base(log) + i - 1
    <3>1. CASE i <= k + 1
      <4>1. i \in 1 .. k + 1 /\ i \in 1 .. Len(log)
        BY <1>1, <1>3, <2>2, <3>1
      <4>2. new[i] = log[i]
        BY <2>3, <2>4, <3>1, <4>1
      <4> QED BY <1>2, <4>1, <4>2
    <3>2. CASE i > k + 1
      <4>1. i \in Nat /\ i - (k + 1) \in 1 .. Len(entries) /\ ~(i <= k + 1)
        BY <1>3, <2>2, <3>2
      <4>2. new[i] = entries[i - (k + 1)]
        BY <2>4, <4>1
      <4>3. entries[i - (k + 1)].CommandIndex = (prev + 1) + (i - (k + 1)) - 1
        BY <1>3, <4>1
      <4>4. ASSUME NEW b \in Nat, k = prev - b
            PROVE  (prev + 1) + (i - (k + 1)) - 1 = b + i - 1
        BY <2>2, <4>1, <4>4
      <4> QED BY <1>1, <1>4, <4>2, <4>3, <4>4
    <3> QED BY <1>3, <2>2, <3>1, <3>2
  <2> QED BY <2>4, <2>5, <2>6, <2>7 DEF IsLog, new
<1>6. CASE k + 1 <= 0
  <2> DEFINE d == -k - 1
  <2>1. new = From(entries, d)
    BY <1>4, <1>6 DEF Spliced
  <2>2. d < Len(entries)
    BY <1>3, <1>6, NotStaleReaches
  <2>3. d \in Nat /\ d \in 0 .. Len(entries) /\ d + 1 \in 1 .. Len(entries) /\ k = -d - 1
    BY <1>3, <1>4, <1>6, <2>2
  <2> HIDE DEF d, k, new
  <2>4. /\ new \in Seq(E)
        /\ Len(new) = Len(entries) - d
        /\ \A i \in 1 .. Len(entries) - d : new[i] = entries[d + i]
    BY <1>3, <2>1, <2>3, Slices, ZenonT(30)
  <2>5. ASSUME NEW i \in 1 .. Len(entries) - d
        PROVE  new[i].CommandIndex = Base(log) + i - 1
    <3>1. i \in Nat /\ d + i \in 1 .. Len(entries)
      BY <1>3, <2>3
    <3>2. entries[d + i].CommandIndex = (prev + 1) + (d + i) - 1
      BY <1>3, <3>1
    <3>3. ASSUME NEW b \in Nat, -d - 1 = prev - b
          PROVE  (prev + 1) + (d + i) - 1 = b + i - 1
      BY <2>3, <3>1, <3>3
    <3> QED BY <1>1, <1>4, <2>3, <2>4, <3>2, <3>3, ZenonT(30)
  <2>6. 1 \in 1 .. Len(entries) - d
    BY <1>3, <2>3
  <2>7. Base(new) = Base(log)
    <3>1. new[1].CommandIndex = Base(log) + 1 - 1
      BY <2>5, <2>6
    <3> QED BY <1>1, <3>1 DEF Base
  <2>8. new # <<>>
    BY <1>3, <2>4, <2>6, EmptySeq
  <2> QED BY <2>4, <2>5, <2>7, <2>8 DEF IsLog, new
<1> QED
  BY <1>4, <1>5, <1>6

=============================================================================
