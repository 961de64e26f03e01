------------------------------- MODULE MCRaft -------------------------------
(***************************************************************************)
(* Small instances of Raft for TLC.                                        *)
(***************************************************************************)
EXTENDS Raft, TLC

\* Servers whose timers fire, the others, and commands are interchangeable.
Symmetry ==
  Permutations(Timers) \cup Permutations(Server \ Timers) \cup Permutations(Value)

-----------------------------------------------------------------------------
\* A cluster that restarts after two terms: in term 1 the server old appended
\* an entry nobody else received, in term 2 another leader, elected by the rest,
\* appended its own; then all of them crashed.  Init and Next lead there in
\* some thirty steps; starting from it, the runs see how logs are reconciled.
Wrote(term, v) ==
  <<ZeroEntry, [CommandIndex |-> 1, CommandTerm |-> term, Command |-> v]>>

DivergedDisk(old, new, v) ==
  [s \in Server |->
     [CurrentTerm |-> IF s = old THEN 1 ELSE 2,
      VotedFor |-> IF s = old THEN old ELSE new,
      Log |-> CASE s = old -> Wrote(1, v)
                [] s = new -> Wrote(2, v)
                [] OTHER -> <<ZeroEntry>>]]

DivergedInit ==
  \E old \in Server \ Timers, new \in Timers, v \in Value :
    InitFrom(DivergedDisk(old, new, v), [s \in Server |-> 0])

DivergedSpec == DivergedInit /\ [][Next]_vars
=============================================================================
