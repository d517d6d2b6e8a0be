------------------------------ MODULE MCProcess -----------------------------
(* A process whose application logs once, with a log channel for one       *)
(* entry: the RPC server, which logs why it stops, may find it full.       *)
EXTENDS Process
=============================================================================
