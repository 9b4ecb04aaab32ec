---------------------------- MODULE MCDnsServer -----------------------------
(* Model-checking instance of DnsServer.  With SUSP_BASE = 0 a holder, a   *)
(* pending writer and a reader are enough to suspend readers; with the     *)
(* code's 2 it takes three pending writers.                                *)
EXTENDS DnsServer

MCUsers == 1..N \cup {Main}
=============================================================================
