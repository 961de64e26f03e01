----------------------------- MODULE MCMapReduce -----------------------------
(***************************************************************************)
(* MapReduce for TLC: workers that serve any number of connections, or one *)
(* (the tests start both kinds).                                           *)
(***************************************************************************)
EXTENDS MapReduce

MCNRPC == {-1, 1}
=============================================================================
