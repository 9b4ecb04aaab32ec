----------------------------- MODULE VpnSession -----------------------------
(***************************************************************************)
(* What SocksVpnService promises a client that polls it through            *)
(* IVpnService.getState(): a session is off, connecting or up; a tunnel is *)
(* only ever reported up by the connect attempt that is current, after     *)
(* that attempt was seen connecting; and a stop ends both at once.         *)
(***************************************************************************)
EXTENDS Naturals

VARIABLES running,  \* VPN_STATE_RUNNING
          up,       \* VPN_STATE_RUNNING and VPN_STATE_TUNNEL_UP
          gen       \* connect attempts begun so far

Init == running = FALSE /\ up = FALSE /\ gen = 0

Begin ==
  /\ ~running
  /\ running' = TRUE
  /\ up' = FALSE
  /\ gen' = gen + 1

TunnelUp ==
  /\ running
  /\ ~up
  /\ up' = TRUE
  /\ UNCHANGED <<running, gen>>

End ==
  /\ running
  /\ running' = FALSE
  /\ up' = FALSE
  /\ UNCHANGED gen

Next == Begin \/ TunnelUp \/ End

Spec == Init /\ [][Next]_<<running, up, gen>>
=============================================================================
