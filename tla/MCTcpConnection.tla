-------------------------- MODULE MCTcpConnection --------------------------
(* A connection used by its loop and by one other thread. *)
EXTENDS TcpConnection
=============================================================================
