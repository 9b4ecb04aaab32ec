---------------------------- MODULE MCTcpClient ----------------------------
(* Model-checking instance of TcpClient; the constants are in the cfg.     *)
EXTENDS TcpClient
=============================================================================
