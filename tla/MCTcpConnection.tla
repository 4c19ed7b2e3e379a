--------------------------- MODULE MCTcpConnection ---------------------------
(* A connection with tiny buffers and short streams.                       *)
EXTENDS TcpConnection
=============================================================================
