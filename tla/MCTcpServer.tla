----------------------------- MODULE MCTcpServer -----------------------------
(* A server with one or two io threads and three clients.                  *)
EXTENDS TcpServer
=============================================================================
