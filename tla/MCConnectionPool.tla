--------------------------- MODULE MCConnectionPool ---------------------------
(* ConnectionPool with a few workers and connections.                      *)
EXTENDS ConnectionPool
==============================================================================
