----------------------------- MODULE TcpClient -----------------------------
(***************************************************************************)
(* One TCP flow through tun2socks: the lwIP connection to the app on one   *)
(* side (badvpn/lwip), the SOCKS connection to the proxy on the other      *)
(* (SocksClient), and struct tcp_client of tun2socks.c between them, with  *)
(* its two buffers and its two independent ways to die.                    *)
(*                                                                         *)
(* The process is single threaded: an event handler and every job it       *)
(* queues run to completion before the next event.  The exception are the  *)
(* lwIP callbacks that commit a SYNC: the jobs they queued run inside the  *)
(* callback, so the callback is open (cb) for some steps and returns to    *)
(* lwIP what it then finds.                                                *)
(*                                                                         *)
(* Data are counts of bytes.  Ghost fields count what each end has seen.   *)
(***************************************************************************)
EXTENDS SocksClient

CONSTANTS
    TCP_WND,        \* receive window and size of client->buf
    TCP_SND_BUF,    \* lwIP's send buffer
    RecvBuf,        \* CLIENT_SOCKS_RECV_BUF_SIZE
    MaxUp,          \* bound: bytes the app sends on one connection
    MaxDown         \* bound: bytes the proxy sends on one connection

ASSUME SizeAssumption ==
    /\ TCP_WND \in Nat \ {0} /\ TCP_SND_BUF \in Nat \ {0}
    /\ RecvBuf \in Nat \ {0} /\ MaxUp \in Nat /\ MaxDown \in Nat

VARIABLES
    t,      \* the tcp_client, its pcb, its pending I/O operations, ghosts
    cb,     \* the lwIP callback that is open: "none", "accept", "recv", "sent"
    ret,    \* what the last callback returned to lwIP
    silent  \* the ends of this flow that may never move again: nothing in
            \* tun2socks times a SOCKS handshake or a closed window out

vars == <<socks, t, cb, ret, silent>>

PcbStates == {"ESTABLISHED", "CLOSE_WAIT", "FIN_WAIT_1", "LAST_ACK",
              "TIME_WAIT", "FREE"}

NewClient ==
    [live |-> TRUE, client_closed |-> FALSE, buf_used |-> 0,
     socks_up |-> FALSE, socks_closed |-> FALSE,
     recv_used |-> -1, recv_sent |-> 0, waiting |-> FALSE, pending |-> 0,
     \* the pcb: state, recv callback set, window left, bytes not yet acked
     pcb |-> "ESTABLISHED", recv_cb |-> TRUE, rcv_wnd |-> TCP_WND,
     unacked |-> 0, refused |-> FALSE,
     \* operations under way on the SOCKS connection
     sending |-> 0, receiving |-> FALSE,
     \* ghosts: bytes from the app, to the proxy, from the proxy, acked by
     \* the app; how each end stopped
     up |-> 0, toSocks |-> 0, down |-> 0, acked |-> 0,
     appEnd |-> "open", socksEnd |-> "open"]

NoClient == [NewClient EXCEPT !.live = FALSE, !.pcb = "FREE", !.recv_cb = FALSE,
                 !.client_closed = TRUE, !.socks_closed = TRUE]

TypeOK ==
    /\ SocksTypeOK
    /\ t \in [live : BOOLEAN, client_closed : BOOLEAN, buf_used : 0..TCP_WND,
              socks_up : BOOLEAN, socks_closed : BOOLEAN,
              recv_used : -1..RecvBuf, recv_sent : 0..RecvBuf,
              waiting : BOOLEAN, pending : 0..TCP_SND_BUF,
              pcb : PcbStates, recv_cb : BOOLEAN, rcv_wnd : 0..TCP_WND,
              unacked : 0..TCP_SND_BUF, refused : BOOLEAN,
              sending : 0..TCP_WND, receiving : BOOLEAN,
              up : 0..MaxUp, toSocks : 0..MaxUp, down : 0..MaxDown,
              acked : 0..MaxDown,
              appEnd : {"open", "fin", "reset", "aborted"},
              socksEnd : {"open", "eof", "error"}]
    /\ cb \in {"none", "accept", "recv", "sent"}
    /\ ret \in {"ERR_OK", "ERR_ABRT"}
    /\ silent \subseteq {"app", "proxy"}

Init == /\ socks = FreedClient /\ t = NoClient /\ cb = "none" /\ ret = "ERR_OK"
        /\ silent = {}
-----------------------------------------------------------------------------
(* lwIP.  Closing a connection whose received data was not all taken sends *)
(* RST and drops what is queued; a FIN that finds no memory fails, and the *)
(* caller aborts.                                                          *)
tcp_close_shutdown(p, fin) ==
    CASE p.pcb = "ESTABLISHED" /\ p.rcv_wnd # TCP_WND -> "TIME_WAIT"
      [] p.pcb = "CLOSE_WAIT" /\ p.rcv_wnd # TCP_WND -> "FREE"
      [] p.pcb = "ESTABLISHED" /\ p.rcv_wnd = TCP_WND /\ fin -> "FIN_WAIT_1"
      [] p.pcb = "CLOSE_WAIT" /\ p.rcv_wnd = TCP_WND /\ fin -> "LAST_ACK"
      [] OTHER -> "FREE"

\* Mutant of tcp_recved: the window is not opened again.
tcp_recvedNoCredit(p, len) == p

tcp_recved(p, len) ==
    [p EXCEPT !.rcv_wnd = IF @ + len > TCP_WND THEN TCP_WND ELSE @ + len]

tcp_sndbuf(p) == TCP_SND_BUF - p.unacked
-----------------------------------------------------------------------------
(* The end of a client.  client_handle_freed_client runs when the pcb is   *)
(* gone: data still to be sent keeps the SOCKS side; otherwise             *)
(* client_free_socks, seeing the client closed, frees it and deallocates.  *)
client_dealloc(c) == [c EXCEPT !.live = FALSE]

FreeSocks(c) ==
    [c EXCEPT !.socks_closed = TRUE, !.sending = 0, !.receiving = FALSE]

\* Mutant of client_handle_freed_client: buffered data does not keep SOCKS.
client_handle_freed_clientAtOnce(c) ==
    client_dealloc(FreeSocks([c EXCEPT !.client_closed = TRUE, !.recv_cb = FALSE]))

client_handle_freed_client(c) ==
    LET d == [c EXCEPT !.client_closed = TRUE, !.recv_cb = FALSE] IN
    IF d.buf_used > 0 /\ ~d.socks_closed
    THEN d
    ELSE client_dealloc(FreeSocks(d))

client_free_client(c, fin) ==
    client_handle_freed_client([c EXCEPT !.pcb = tcp_close_shutdown(c, fin)])

client_abort_client(c) ==
    client_handle_freed_client([c EXCEPT !.pcb = "FREE", !.appEnd = "aborted"])

client_free_socks(c, fin) ==
    LET d == FreeSocks(IF c.socks_up THEN [c EXCEPT !.recv_cb = FALSE] ELSE c) IN
    IF c.socks_up /\ (c.recv_used >= 0 \/ c.pending > 0) /\ ~c.client_closed
    THEN d
    ELSE IF ~c.client_closed THEN client_free_client(d, fin)
                             ELSE client_dealloc(d)

(* The SOCKS client is freed with the client's SOCKS side. *)
KeepSocks == socks' = IF t'.socks_closed THEN FreedClient ELSE socks
-----------------------------------------------------------------------------
(* Handing data to the SOCKS connection and to lwIP.  tcp_write takes all  *)
(* that fits or, out of memory, nothing; ok is FALSE when tcp_write or     *)
(* tcp_output fails otherwise.                                             *)
client_send_to_socks(c) == [c EXCEPT !.sending = c.buf_used]

Smaller(a, b) == IF a < b THEN a ELSE b

client_socks_recv_send_out(c, mem, ok) ==
    LET w == IF mem THEN Smaller(c.recv_used - c.recv_sent, tcp_sndbuf(c)) ELSE 0
        d == [c EXCEPT !.recv_sent = @ + w, !.pending = @ + w, !.unacked = @ + w]
    IN  IF ~ok \/ (d.recv_sent < d.recv_used /\ d.pending = 0)
        THEN client_abort_client(d)
        ELSE IF d.recv_sent < d.recv_used
             THEN [d EXCEPT !.waiting = TRUE]
             ELSE [d EXCEPT !.recv_used = -1]

client_socks_recv_initiate(c) == [c EXCEPT !.receiving = TRUE]

\* Mutant of ContinueReceiving: the next receive is not started.
ContinueReceivingNever(c) == c

ContinueReceiving(c) ==
    IF c.recv_used = -1 /\ ~c.client_closed /\ ~c.socks_closed
    THEN client_socks_recv_initiate(c) ELSE c
-----------------------------------------------------------------------------
(* lwIP events.  They come from the device or the TCP timer, never while a *)
(* callback is open, and stop when the client's callbacks are removed.     *)
FromLwip == cb = "none" /\ t.live /\ ~t.client_closed

\* Mutant of CallbackResult: dead_client is not looked at.
CallbackResultIgnoresDead(killed) == "ERR_OK"

(* A callback returns: killed means client_closed was set while it was     *)
(* open (the dead_client variable).                                        *)
CallbackResult(killed) == IF killed THEN "ERR_ABRT" ELSE "ERR_OK"

(* A new connection.  SOCKS starts connecting inside the callback. *)
listener_accept_func ==
    /\ cb = "none" /\ ~t.live
    /\ t' = NewClient
    /\ \E creds \in BOOLEAN : socks' = Client("CONNECTING", creds)
    /\ cb' = "accept" /\ silent' = {}
    /\ UNCHANGED ret

(* Data from the app, within the window.  Without a receive callback lwIP  *)
(* takes and drops it (tcp_recv_null).                                     *)
client_recv_func ==
    /\ FromLwip /\ t.pcb = "ESTABLISHED" /\ ~t.refused
    /\ \E n \in 1..Smaller(t.rcv_wnd, MaxUp - t.up) :
         LET c == [t EXCEPT !.rcv_wnd = @ - n, !.up = @ + n] IN
         \/ ~t.recv_cb /\ t' = tcp_recved(c, n) /\ UNCHANGED <<cb, ret>>
         \/ /\ t.recv_cb /\ n > TCP_WND - t.buf_used      \* ERR_MEM
            /\ t' = [c EXCEPT !.refused = TRUE] /\ UNCHANGED <<cb, ret>>
         \/ /\ t.recv_cb /\ n <= TCP_WND - t.buf_used
            /\ LET d == [c EXCEPT !.buf_used = @ + n] IN
               IF d.buf_used = n /\ d.socks_up
               THEN t' = client_send_to_socks(d) /\ cb' = "recv" /\ UNCHANGED ret
               ELSE t' = d /\ ret' = CallbackResult(FALSE) /\ UNCHANGED cb
    /\ UNCHANGED <<socks, silent>>

(* FIN from the app.  With the callback removed lwIP only notes it. *)
client_recv_func_closed ==
    /\ FromLwip /\ t.pcb = "ESTABLISHED"
    /\ LET c == [t EXCEPT !.pcb = "CLOSE_WAIT", !.appEnd = "fin"] IN
       IF t.recv_cb
       THEN \E fin \in BOOLEAN :
               t' = client_free_client(c, fin) /\ ret' = CallbackResult(TRUE)
       ELSE t' = c /\ UNCHANGED ret
    /\ KeepSocks /\ UNCHANGED <<cb, silent>>

(* The app acknowledges n bytes. *)
client_sent_func ==
    /\ FromLwip
    /\ \E n \in 1..t.unacked, mem, ok, fin \in BOOLEAN :
         LET c == [t EXCEPT !.unacked = @ - n, !.acked = @ + n, !.pending = @ - n] IN
         IF c.recv_used > 0
         THEN LET d == client_socks_recv_send_out([c EXCEPT !.waiting = FALSE], mem, ok)
                  e == ContinueReceiving(d)
              IN  /\ t' = e
                  /\ cb' = IF e.receiving THEN "sent" ELSE cb
                  /\ ret' = IF e.receiving THEN ret ELSE CallbackResult(d.client_closed)
         ELSE LET d == IF c.socks_closed /\ c.pending = 0
                       THEN client_free_client(c, fin) ELSE c
              IN  t' = d /\ ret' = CallbackResult(d.client_closed) /\ UNCHANGED cb
    /\ KeepSocks /\ UNCHANGED silent

(* RST from the app, too many retransmissions, or lwIP out of pcbs. *)
client_err_func ==
    /\ FromLwip
    /\ t' = client_handle_freed_client([t EXCEPT !.pcb = "FREE", !.appEnd = "reset"])
    /\ KeepSocks /\ UNCHANGED <<cb, ret, silent>>

(* The SYNC of the open callback is done: return to lwIP. *)
CallbackReturn ==
    /\ cb # "none"
    /\ cb' = "none" /\ ret' = CallbackResult(t.client_closed)
    /\ UNCHANGED <<socks, t, silent>>
-----------------------------------------------------------------------------
(* SOCKS events.  In an open callback only the jobs it queued run: the     *)
(* connect, the send or the receive.                                       *)
client_socks_handler ==
    /\ t.live /\ ~t.socks_closed /\ cb \in {"none", "accept"}
    /\ \E ev \in Events, fin \in BOOLEAN :
         /\ SocksStep(ev)
         /\ \/ ev = "NONE" /\ UNCHANGED t
            \/ /\ ev = "ERROR"
               /\ t' = client_free_socks([t EXCEPT !.socksEnd = "error"], fin)
            \/ /\ ev = "UP"
               /\ LET c == [t EXCEPT !.socks_up = TRUE, !.recv_used = -1, !.pending = 0]
                      d == IF c.buf_used > 0 THEN client_send_to_socks(c) ELSE c
                  IN  t' = IF ~d.client_closed THEN client_socks_recv_initiate(d) ELSE d
    /\ UNCHANGED <<cb, ret, silent>>

\* Mutant of client_socks_send_handler_done: a client whose app is gone is
\* not freed when its buffer has drained.
client_socks_send_handler_doneKeeps ==
    /\ t.sending > 0 /\ cb \in {"none", "recv"}
    /\ \E n \in 1..t.sending :
         LET c == [t EXCEPT !.buf_used = @ - n, !.toSocks = @ + n, !.sending = 0]
             d == IF c.client_closed THEN c ELSE tcp_recved(c, n)
         IN  t' = IF d.buf_used > 0 THEN client_send_to_socks(d) ELSE d
    /\ KeepSocks /\ UNCHANGED <<cb, ret, silent>>

client_socks_send_handler_done ==
    /\ t.sending > 0 /\ cb \in {"none", "recv"}
    /\ \E n \in 1..t.sending, fin \in BOOLEAN :
         LET c == [t EXCEPT !.buf_used = @ - n, !.toSocks = @ + n, !.sending = 0]
             d == IF c.client_closed THEN c ELSE tcp_recved(c, n)
         IN  t' = IF d.buf_used > 0 THEN client_send_to_socks(d)
                  ELSE IF d.client_closed THEN client_free_socks(d, fin)
                  ELSE d
    /\ KeepSocks /\ UNCHANGED <<cb, ret, silent>>

client_socks_recv_handler_done ==
    /\ t.receiving /\ cb \in {"none", "sent"}
    /\ \E n \in 1..Smaller(RecvBuf, MaxDown - t.down), mem, ok \in BOOLEAN :
         LET c == [t EXCEPT !.receiving = FALSE, !.down = @ + n] IN
         t' = IF c.client_closed THEN c
              ELSE ContinueReceiving(client_socks_recv_send_out(
                     [c EXCEPT !.recv_used = n, !.recv_sent = 0, !.waiting = FALSE],
                     mem, ok))
    /\ KeepSocks /\ UNCHANGED <<cb, ret, silent>>

(* connection_send and connection_recv fail, or read the end of the stream: *)
(* a write or read operation is what notices it.                            *)
SocksConnectionLost ==
    \E end \in {"eof", "error"}, fin \in BOOLEAN :
       /\ \/ t.receiving /\ cb \in {"none", "sent"}
          \/ end = "error" /\ t.sending > 0 /\ cb \in {"none", "recv"}
       /\ t' = client_free_socks([t EXCEPT !.socksEnd = end], fin)
       /\ KeepSocks /\ UNCHANGED <<cb, ret, silent>>

(* tun2socks terminates: every client is murdered. *)
client_murder ==
    /\ cb = "none" /\ t.live
    /\ t' = client_dealloc(FreeSocks(
              [t EXCEPT !.pcb = IF t.client_closed THEN @ ELSE "FREE",
                        !.appEnd = IF t.client_closed THEN @ ELSE "aborted",
                        !.socksEnd = IF t.socks_closed THEN @ ELSE "error",
                        !.client_closed = TRUE, !.recv_cb = FALSE]))
    /\ KeepSocks /\ UNCHANGED <<cb, ret, silent>>
-----------------------------------------------------------------------------
(* An end of the flow falls silent for good: a proxy that neither answers  *)
(* nor takes data nor closes, an app that no longer reads (lwIP probes its *)
(* closed window for ever).                                                *)
FallSilent(end) ==
    /\ t.live /\ end \notin silent
    /\ silent' = silent \cup {end}
    /\ UNCHANGED <<socks, t, cb, ret>>

Next == \/ listener_accept_func \/ client_recv_func \/ client_recv_func_closed
        \/ client_sent_func \/ client_err_func \/ CallbackReturn
        \/ client_socks_handler \/ client_socks_send_handler_done
        \/ client_socks_recv_handler_done \/ SocksConnectionLost \/ client_murder
        \/ \E end \in {"app", "proxy"} : FallSilent(end)

(* The reactor serves every ready descriptor.  A proxy that is not silent  *)
(* goes on with the handshake, takes data handed to it or drops the        *)
(* connection; an app that is not silent acknowledges, or lwIP gives it up *)
(* after TCP_MAXRTX retransmissions.                                       *)
Fairness == /\ WF_vars(CallbackReturn)
            /\ WF_vars("proxy" \notin silent /\ client_socks_handler)
            /\ WF_vars(/\ "proxy" \notin silent /\ t.sending > 0
                       /\ client_socks_send_handler_done \/ SocksConnectionLost)
            /\ WF_vars("app" \notin silent /\ (client_sent_func \/ client_err_func))

Spec == Init /\ [][Next]_vars /\ Fairness
-----------------------------------------------------------------------------
(* The client's books agree with lwIP's: while the app side is open, the   *)
(* unacknowledged bytes are the pending ones, and while SOCKS is open too  *)
(* the window withheld from the app is exactly what the buffer holds.  So  *)
(* client_recv_func never meets data without room ("no buffer for data     *)
(* !?!") and client_sent_func never an acknowledgement of unsent data.     *)
BooksAgree ==
    t.live /\ ~t.client_closed =>
        /\ t.pending = t.unacked
        /\ ~t.socks_closed => t.rcv_wnd + t.buf_used = TCP_WND
        /\ ~t.refused

(* No direction stalls: data for the proxy is always being sent once SOCKS *)
(* is up, and data from the proxy is either being asked for or queued      *)
(* behind bytes whose acknowledgement will resume it (client_sent_func).   *)
(* Freeing the other side at any moment must not leave an operation behind. *)
NoStall ==
    /\ t.sending > 0 => t.live /\ t.socks_up /\ ~t.socks_closed
    /\ t.receiving => t.live /\ t.socks_up /\ ~t.socks_closed /\ t.recv_used = -1
    /\ t.live /\ t.socks_up /\ ~t.socks_closed => (t.sending > 0 <=> t.buf_used > 0)
    /\ t.live /\ t.socks_up /\ ~t.client_closed =>
          /\ t.recv_used # -1 => t.waiting /\ t.pending > 0
          /\ t.recv_used = -1 /\ ~t.socks_closed => t.receiving
          /\ t.socks_closed => t.pending > 0

(* An orderly end loses nothing.  If the app closed and the SOCKS side     *)
(* never failed, all the app sent reached the proxy; if the proxy closed   *)
(* and the app side did not end first, the app acknowledged every byte     *)
(* read from the proxy before its connection was closed.                   *)
OrderlyEndDelivers ==
    ~t.live =>
        /\ t.appEnd = "fin" /\ t.socksEnd = "open" => t.toSocks = t.up
        /\ t.socksEnd = "eof" /\ t.appEnd = "open" => t.acked = t.down

(* lwIP goes on using the pcb after a callback that returns ERR_OK         *)
(* (tcp_input): it must still be the client's.  A job run by SYNC inside   *)
(* the callback may have closed or aborted it.                             *)
ReturnsLivePcb ==
    [][cb # "none" /\ cb' = "none" /\ ret' = "ERR_OK" =>
          t.live /\ t.pcb \in {"ESTABLISHED", "CLOSE_WAIT"}]_vars

(* A client that has lost one side is deallocated, unless the side it has  *)
(* left holds data for an end that has fallen silent; no other end's       *)
(* silence keeps it.                                                       *)
HalfClosedReclaimed ==
    (t.live /\ (t.client_closed \/ t.socks_closed)) ~>
        \/ ~t.live
        \/ t.client_closed /\ t.buf_used > 0 /\ "proxy" \in silent
        \/ t.socks_closed /\ t.pending > 0 /\ "app" \in silent
=============================================================================
