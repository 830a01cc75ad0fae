---------------------------- MODULE MCServerLifecycle ----------------------------
(* ServerLifecycle with a few workers and clients.                         *)
EXTENDS ServerLifecycle
==================================================================================
