------------------------------ MODULE MCTcpServer ------------------------------
(* TcpServer with a few clients, workers and users.                        *)
EXTENDS TcpServer
==============================================================================
