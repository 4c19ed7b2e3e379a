----------------------------- MODULE MCTcpClient -----------------------------
(* Two calls with three tries each, and two sleeps.                        *)
EXTENDS TcpClient
=============================================================================
