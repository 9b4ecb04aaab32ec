-------------------------- MODULE MCConnectButton ---------------------------
(* Model-checking instance of ConnectButton.                               *)
EXTENDS ConnectButton
=============================================================================
