----------------------------- MODULE MCKVConfig -----------------------------
(* KVConfig with the sets that follow from N, Client and MaxStarts. *)
EXTENDS KVConfig

MCName == Server
MCInstance == 1 .. MaxStarts
MCEnd == (Server \cup Client) \X Server \X (1 .. MaxStarts)
=============================================================================
