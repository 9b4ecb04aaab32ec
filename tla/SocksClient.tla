---------------------------- MODULE SocksClient ----------------------------
(***************************************************************************)
(* BSocksClient.c: the SOCKS5 client tun2socks runs for every TCP flow and *)
(* for the UDP gateway.  The client is a byte-stream parser: each receive  *)
(* asks for exactly the rest of the current message and the kernel may     *)
(* return any shorter piece.  Bytes of messages are counted, their content *)
(* is the choice the proxy makes (method, reply, address type).            *)
(*                                                                         *)
(* Every step reports an event to the owner's handler.  Both owners        *)
(* (tun2socks.c and SocksUdpGwClient.c) free the client inside the handler *)
(* of an error event, as DEBUGERROR demands, so a reported error leaves    *)
(* the client FREED.                                                       *)
(***************************************************************************)
EXTENDS Integers

CONSTANT Offered    \* methods in socks_auth_info, a subset of AuthMethods

AuthMethods == {"no_auth", "password"}

ASSUME OfferedAssumption == Offered \subseteq AuthMethods

VARIABLE socks      \* the BSocksClient: state, partial receive, and ghosts

States == {"CONNECTING", "SENDING_HELLO", "SENT_HELLO", "SENDING_PASSWORD",
           "SENT_PASSWORD", "SENDING_REQUEST", "SENT_REQUEST",
           "RECEIVED_REPLY_HEADER", "UP", "FREED"}

Events == {"NONE", "UP", "ERROR", "ERROR_CLOSED"}

\* sizeof of the messages the client receives
HelloLen == 2
PasswordReplyLen == 2
ReplyHeaderLen == 4
AddrLen == [ipv4 |-> 6, ipv6 |-> 18]

(* state, recv_len, recv_total; creds: both credential lengths are 1..255;  *)
(* ghosts: taken counts bytes received so far, method and atyp are what the *)
(* proxy chose ("none" until then).                                         *)
Client(st, creds) ==
    [state |-> st, recv_len |-> 0, recv_total |-> 0, creds |-> creds,
     taken |-> 0, method |-> "none", atyp |-> "none"]

FreedClient == Client("FREED", FALSE)

SocksTypeOK ==
    socks \in [state : States, recv_len : 0..18, recv_total : 0..18,
               creds : BOOLEAN, taken : 0..26,
               method : AuthMethods \cup {"none"},
               atyp : {"ipv4", "ipv6", "none"}]

Receiving == {"SENT_HELLO", "SENT_PASSWORD", "SENT_REQUEST",
              "RECEIVED_REPLY_HEADER"}
Sending == {"SENDING_HELLO", "SENDING_PASSWORD", "SENDING_REQUEST"}

start_receive(s, st, total) ==
    [s EXCEPT !.state = st, !.recv_len = 0, !.recv_total = total]

report_error(ev, error) == ev = error /\ socks' = FreedClient

Become(ev, s) == ev = "NONE" /\ socks' = s
-----------------------------------------------------------------------------
(* The TCP connect to the proxy ends, well or badly. *)
connector_handler(ev) ==
    /\ socks.state = "CONNECTING"
    /\ \/ Offered # {} /\ Become(ev, [socks EXCEPT !.state = "SENDING_HELLO"])
       \/ report_error(ev, "ERROR")

(* A control message has been written out completely (PacketStreamSender).  *)
(* The receive buffer for the answer may not be available.                  *)
send_handler_done(ev) ==
    /\ socks.state \in Sending
    /\ \/ Become(ev, CASE socks.state = "SENDING_HELLO" ->
                            start_receive(socks, "SENT_HELLO", HelloLen)
                       [] socks.state = "SENDING_PASSWORD" ->
                            start_receive(socks, "SENT_PASSWORD", PasswordReplyLen)
                       [] socks.state = "SENDING_REQUEST" ->
                            start_receive(socks, "SENT_REQUEST", ReplyHeaderLen))
       \/ report_error(ev, "ERROR")

auth_finished(s) == [s EXCEPT !.state = "SENDING_REQUEST"]

(* The server's hello is complete: a method of ours, or not (or bad version) *)
ReceivedHello(s, ev) ==
    \/ \E m \in Offered :
          LET t == [s EXCEPT !.method = m] IN
          IF m = "no_auth" THEN Become(ev, auth_finished(t))
          ELSE IF s.creds
               THEN Become(ev, [t EXCEPT !.state = "SENDING_PASSWORD"])
               ELSE report_error(ev, "ERROR")
    \/ report_error(ev, "ERROR")

ReceivedPasswordReply(s, ev) ==
    \/ Become(ev, auth_finished(s))
    \/ report_error(ev, "ERROR")

\* Mutant of ReceivedReplyHeader: the address is taken for an IPv4 one.
ReceivedReplyHeaderIPv4(s, ev) ==
    \/ \E a \in DOMAIN AddrLen :
          Become(ev, start_receive([s EXCEPT !.atyp = a],
                                   "RECEIVED_REPLY_HEADER", AddrLen["ipv4"]))
    \/ report_error(ev, "ERROR")

(* Version, reply code and address type are checked; a domain is refused. *)
ReceivedReplyHeader(s, ev) ==
    \/ \E a \in DOMAIN AddrLen :
          Become(ev, start_receive([s EXCEPT !.atyp = a],
                                   "RECEIVED_REPLY_HEADER", AddrLen[a]))
    \/ report_error(ev, "ERROR")

recv_handler_done(ev) ==
    /\ socks.state \in Receiving
    /\ \E data_len \in 1..(socks.recv_total - socks.recv_len) :
          LET s == [socks EXCEPT !.recv_len = @ + data_len,
                                 !.taken = @ + data_len] IN
          IF s.recv_len < s.recv_total
          THEN Become(ev, s)
          ELSE \/ s.state = "SENT_HELLO" /\ ReceivedHello(s, ev)
               \/ s.state = "SENT_PASSWORD" /\ ReceivedPasswordReply(s, ev)
               \/ s.state = "SENT_REQUEST" /\ ReceivedReplyHeader(s, ev)
               \/ /\ s.state = "RECEIVED_REPLY_HEADER"
                  /\ ev = "UP"
                  /\ socks' = [s EXCEPT !.state = "UP"]

(* The connection fails or the proxy closes it, before the client is up. *)
connection_handler(ev) ==
    /\ socks.state \notin {"CONNECTING", "UP", "FREED"}
    /\ report_error(ev, "ERROR")

SocksStep(ev) == \/ connector_handler(ev)
                 \/ send_handler_done(ev)
                 \/ recv_handler_done(ev)
                 \/ connection_handler(ev)
-----------------------------------------------------------------------------
(* A client that is up has consumed the proxy's side of the handshake to   *)
(* the last byte and not one byte of what follows it, whatever pieces the  *)
(* kernel delivered, and went through authentication if the proxy chose it *)
(* (recv_handler_done, BSocksClient.c): the next byte read is application  *)
(* data.                                                                   *)
HandshakeExact ==
    socks.state = "UP" =>
        /\ socks.method \in Offered
        /\ socks.taken = HelloLen + ReplyHeaderLen + AddrLen[socks.atyp]
               + (IF socks.method = "password" THEN PasswordReplyLen ELSE 0)
=============================================================================
