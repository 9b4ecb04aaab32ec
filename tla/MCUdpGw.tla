------------------------------ MODULE MCUdpGw -------------------------------
(* Model-checking instance of UdpGw.                                       *)
EXTENDS UdpGw
=============================================================================
