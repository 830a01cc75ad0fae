---------------------------- MODULE MCTcpDelivery ----------------------------
(* TcpDelivery with two clients, two workers and two users.                *)
EXTENDS TcpDelivery
==============================================================================
