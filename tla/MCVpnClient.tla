---------------------------- MODULE MCVpnClient -----------------------------
(* Model-checking instance of VpnClient.                                   *)
EXTENDS VpnClient
=============================================================================
