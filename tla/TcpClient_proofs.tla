-------------------------- MODULE TcpClient_proofs --------------------------
(***************************************************************************)
(* Proofs about TcpClient, for any window, buffer sizes and methods.       *)
(***************************************************************************)
EXTENDS TcpClient, TLAPS

-----------------------------------------------------------------------------
(* The SOCKS handshake.                                                    *)

\* Bytes of the proxy's side of the handshake up to the request, once the
\* proxy has chosen a method.
AuthLen(s) == HelloLen + (IF s.method = "password" THEN PasswordReplyLen ELSE 0)

\* A receive in progress, total bytes of it wanted.
Partial(s, total) == s.recv_total = total /\ s.recv_len < total

\* What has been taken from the stream in each state.
TakenExact(s) ==
  /\ s.state \in {"CONNECTING", "SENDING_HELLO"} => s.taken = 0
  /\ s.state = "SENT_HELLO" => Partial(s, HelloLen) /\ s.taken = s.recv_len
  /\ s.state = "SENDING_PASSWORD" => s.method = "password" /\ s.taken = HelloLen
  /\ s.state = "SENT_PASSWORD" =>
        Partial(s, PasswordReplyLen) /\ s.method = "password"
        /\ s.taken = HelloLen + s.recv_len
  /\ s.state = "SENDING_REQUEST" => s.taken = AuthLen(s)
  /\ s.state = "SENT_REQUEST" =>
        Partial(s, ReplyHeaderLen) /\ s.taken = AuthLen(s) + s.recv_len
  /\ s.state \in {"RECEIVED_REPLY_HEADER", "UP"} => s.atyp \in DOMAIN AddrLen
  /\ s.state = "RECEIVED_REPLY_HEADER" =>
        Partial(s, AddrLen[s.atyp])
        /\ s.taken = AuthLen(s) + ReplyHeaderLen + s.recv_len
  /\ s.state = "UP" => s.taken = AuthLen(s) + ReplyHeaderLen + AddrLen[s.atyp]
  /\ s.state \in {"SENDING_PASSWORD", "SENT_PASSWORD", "SENDING_REQUEST",
                  "SENT_REQUEST", "RECEIVED_REPLY_HEADER", "UP"} =>
        s.method \in Offered

SocksInv == SocksTypeOK /\ TakenExact(socks)

SocksRec == [state : States, recv_len : 0..18, recv_total : 0..18,
             creds : BOOLEAN, taken : 0..26, method : AuthMethods \cup {"none"},
             atyp : {"ipv4", "ipv6", "none"}]

\* A SOCKS client just created or freed has taken nothing.
LEMMA SocksFresh ==
  ASSUME NEW creds \in BOOLEAN, NEW st \in {"CONNECTING", "FREED"},
         socks' = Client(st, creds)
  PROVE  SocksInv'
  BY DEF SocksInv, SocksTypeOK, TakenExact, Client, States, AuthMethods

\* No step of the SOCKS client takes a byte that is not the handshake's.
LEMMA SocksStepInv ==
  ASSUME SocksInv, NEW ev, SocksStep(ev)
  PROVE  SocksInv'
<1> USE OfferedAssumption DEF SocksRec, AuthMethods, States, HelloLen, PasswordReplyLen, ReplyHeaderLen
<1>1. AddrLen["ipv4"] = 6 /\ AddrLen["ipv6"] = 18 /\ DOMAIN AddrLen = {"ipv4", "ipv6"}
  BY DEF AddrLen
<1>2. ASSUME NEW e, report_error(ev, e) PROVE SocksInv'
  BY <1>2, SocksFresh DEF report_error, FreedClient
<1>3. CASE connector_handler(ev)
  BY <1>2, <1>3 DEF connector_handler, Become, SocksInv, SocksTypeOK, TakenExact
<1>4. CASE send_handler_done(ev)
  <2>1. ASSUME NEW st \in {"SENT_HELLO", "SENT_PASSWORD", "SENT_REQUEST"},
               NEW total \in 1..18, socks' = start_receive(socks, st, total)
        PROVE  /\ SocksTypeOK'
               /\ socks'.state = st /\ socks'.recv_len = 0 /\ socks'.recv_total = total
               /\ socks'.taken = socks.taken /\ socks'.method = socks.method
    <3>1. st \in States /\ 0 \in 0..18 /\ total \in 0..18
      OBVIOUS
    <3> HIDE DEF States
    <3>2. SocksTypeOK'
      BY <2>1, <3>1 DEF SocksInv, SocksTypeOK, start_receive
    <3>3. QED BY <2>1, <3>2 DEF SocksInv, SocksTypeOK, start_receive
  <2>2. CASE Become(ev, start_receive(socks, "SENT_HELLO", HelloLen))
             /\ socks.state = "SENDING_HELLO"
    BY <2>1, <2>2 DEF Become, SocksInv, TakenExact, Partial
  <2>3. CASE Become(ev, start_receive(socks, "SENT_PASSWORD", PasswordReplyLen))
             /\ socks.state = "SENDING_PASSWORD"
    BY <2>1, <2>3 DEF Become, SocksInv, TakenExact, Partial
  <2>4. CASE Become(ev, start_receive(socks, "SENT_REQUEST", ReplyHeaderLen))
             /\ socks.state = "SENDING_REQUEST"
    BY <2>1, <2>4 DEF Become, SocksInv, TakenExact, Partial, AuthLen
  <2>5. QED
    BY <1>2, <1>4, <2>2, <2>3, <2>4 DEF send_handler_done, Sending
<1>5. CASE recv_handler_done(ev)
  <2>1. PICK data_len \in 1..(socks.recv_total - socks.recv_len) :
          recv_handler_done(ev)!2!(data_len)
    BY <1>5 DEF recv_handler_done
  <2> DEFINE s == [socks EXCEPT !.recv_len = @ + data_len, !.taken = @ + data_len]
  <2>2. socks.state \in Receiving
    BY <1>5 DEF recv_handler_done
  <2>3. /\ data_len \in 1..18 /\ data_len <= socks.recv_total - socks.recv_len
        /\ socks.taken + socks.recv_total - socks.recv_len \in 0..26
    BY <1>1, <2>1, <2>2 DEF SocksInv, SocksTypeOK, TakenExact, Partial, Receiving, AuthLen
  <2>4. /\ s \in SocksRec
        /\ s.state = socks.state /\ s.recv_total = socks.recv_total
        /\ s.recv_len = socks.recv_len + data_len /\ s.taken = socks.taken + data_len
        /\ s.method = socks.method /\ s.atyp = socks.atyp
    <3> HIDE DEF States, AuthMethods
    <3>1. socks.recv_len + data_len \in 0..18 /\ socks.taken + data_len \in 0..26
      BY <2>3 DEF SocksInv, SocksTypeOK
    <3>2. QED BY <3>1 DEF SocksInv, SocksTypeOK
  <2> HIDE DEF s
  <2>5. CASE s.recv_len < s.recv_total
    <3>1. socks' = s
      BY <2>1, <2>5 DEF Become, s
    <3>2. SocksTypeOK'
      BY <2>4, <3>1 DEF SocksTypeOK
    <3>3. TakenExact(s)
      BY <2>2, <2>3, <2>4, <2>5 DEF SocksInv, SocksTypeOK, TakenExact, Partial, AuthLen, Receiving
    <3>4. QED
      BY <3>1, <3>2, <3>3 DEF SocksInv
  <2>6. CASE ~(s.recv_len < s.recv_total)
    <3>0. s.recv_len = s.recv_total
      BY <2>3, <2>4, <2>6 DEF SocksInv, SocksTypeOK
    <3>1. CASE s.state = "SENT_HELLO" /\ ReceivedHello(s, ev)
      <4>1. s.taken = 2
        BY <2>4, <3>0, <3>1 DEF SocksInv, TakenExact, Partial
      <4>2. ASSUME NEW m \in Offered,
                   \/ m = "no_auth" /\ socks' = auth_finished([s EXCEPT !.method = m])
                   \/ /\ m = "password"
                      /\ socks' = [[s EXCEPT !.method = m] EXCEPT !.state = "SENDING_PASSWORD"]
            PROVE  SocksInv'
        <5>1. CASE m = "no_auth" /\ socks' = auth_finished([s EXCEPT !.method = m])
          <6>1. /\ SocksTypeOK'
                /\ socks'.state = "SENDING_REQUEST" /\ socks'.method = "no_auth"
                /\ socks'.taken = 2
            BY <2>4, <4>1, <5>1 DEF SocksTypeOK, auth_finished
          <6>2. QED BY <4>2, <5>1, <6>1 DEF SocksInv, TakenExact, AuthLen
        <5>2. CASE /\ m = "password"
                   /\ socks' = [[s EXCEPT !.method = m] EXCEPT !.state = "SENDING_PASSWORD"]
          BY <2>4, <4>1, <5>2 DEF SocksInv, SocksTypeOK, TakenExact
        <5>3. QED BY <4>2, <5>1, <5>2
      <4>3. QED
        BY <1>2, <3>1, <4>2 DEF ReceivedHello, Become
    <3>2. CASE s.state = "SENT_PASSWORD" /\ ReceivedPasswordReply(s, ev)
      <4>1. s.taken = 4 /\ s.method = "password" /\ s.method \in Offered
        BY <2>4, <3>0, <3>2 DEF SocksInv, SocksTypeOK, TakenExact, Partial
      <4>2. CASE socks' = auth_finished(s)
        BY <2>4, <4>1, <4>2 DEF SocksInv, SocksTypeOK, TakenExact, auth_finished, AuthLen
      <4>3. QED
        BY <1>2, <3>2, <4>2 DEF ReceivedPasswordReply, Become
    <3>3. CASE s.state = "SENT_REQUEST" /\ ReceivedReplyHeader(s, ev)
      <4>1. s.taken = AuthLen(s) + 4 /\ s.method \in Offered
        BY <2>4, <3>0, <3>3 DEF SocksInv, SocksTypeOK, TakenExact, Partial, AuthLen
      <4>2. ASSUME NEW a \in DOMAIN AddrLen,
                   socks' = start_receive([s EXCEPT !.atyp = a],
                                          "RECEIVED_REPLY_HEADER", AddrLen[a])
            PROVE  SocksInv'
        <5> DEFINE r == [s EXCEPT !.atyp = a]
        <5>0. r \in SocksRec /\ r.taken = s.taken /\ r.method = s.method /\ r.atyp = a
          BY <1>1, <2>4 DEF SocksRec
        <5> HIDE DEF r, States, AuthMethods
        <5>1. "RECEIVED_REPLY_HEADER" \in States /\ 0 \in 0..18 /\ AddrLen[a] \in 0..18
          BY <1>1 DEF States
        <5>2. /\ socks' \in SocksRec
              /\ socks'.state = "RECEIVED_REPLY_HEADER" /\ socks'.atyp = a
              /\ socks'.recv_len = 0 /\ socks'.recv_total = AddrLen[a]
              /\ socks'.taken = s.taken /\ socks'.method = s.method
          BY <4>2, <5>0, <5>1 DEF start_receive, r, SocksRec
        <5>3. QED
          BY <1>1, <4>1, <5>2 DEF SocksInv, SocksTypeOK, SocksRec, TakenExact, AuthLen, Partial
      <4>3. QED
        BY <1>2, <3>3, <4>2 DEF ReceivedReplyHeader, Become
    <3>4. CASE s.state = "RECEIVED_REPLY_HEADER" /\ socks' = [s EXCEPT !.state = "UP"]
      <4>1. /\ s.atyp \in DOMAIN AddrLen /\ s.method \in Offered
            /\ s.taken = AuthLen(s) + 4 + AddrLen[s.atyp]
        BY <1>1, <2>4, <3>0, <3>4 DEF SocksInv, SocksTypeOK, TakenExact, Partial, AuthLen
      <4>2. QED
        BY <2>4, <3>4, <4>1 DEF SocksInv, SocksTypeOK, TakenExact, AuthLen
    <3>5. QED
      BY <2>1, <2>6, <3>1, <3>2, <3>3, <3>4 DEF s
  <2>7. QED BY <2>5, <2>6
<1>6. CASE connection_handler(ev)
  BY <1>2, <1>6 DEF connection_handler
<1>7. QED BY <1>3, <1>4, <1>5, <1>6 DEF SocksStep

\* What was taken in each state is what HandshakeExact asks for.
LEMMA SocksInvExact == SocksInv => HandshakeExact
  BY DEF SocksInv, SocksTypeOK, TakenExact, HandshakeExact, AuthLen, AddrLen, HelloLen,
     PasswordReplyLen, ReplyHeaderLen
-----------------------------------------------------------------------------
(* The client.                                                             *)

\* A tcp_client with numbers of any size.
ClientRec ==
  [live : BOOLEAN, client_closed : BOOLEAN, buf_used : Int,
   socks_up : BOOLEAN, socks_closed : BOOLEAN,
   recv_used : Int, recv_sent : Int, waiting : BOOLEAN, pending : Int,
   pcb : PcbStates, recv_cb : BOOLEAN, rcv_wnd : Int,
   unacked : Int, refused : BOOLEAN, sending : Int, receiving : BOOLEAN,
   up : Int, toSocks : Int, down : Int, acked : Int,
   appEnd : {"open", "fin", "reset", "aborted"}, socksEnd : {"open", "eof", "error"}]

\* Bytes read from the proxy and not yet given to lwIP.
Unsent(c) == IF c.recv_used = -1 THEN 0 ELSE c.recv_used - c.recv_sent

\* The numbers are in range, and no byte is counted twice or lost while the
\* side it came from is open.
Counts(c) ==
  /\ c.buf_used \in 0..TCP_WND /\ c.sending \in 0..c.buf_used
  /\ c.recv_used \in -1..RecvBuf /\ c.recv_sent \in 0..RecvBuf
  /\ c.rcv_wnd \in 0..TCP_WND
  /\ c.unacked \in 0..TCP_SND_BUF /\ c.pending \in 0..TCP_SND_BUF
  /\ c.toSocks >= 0 /\ c.toSocks + c.buf_used <= c.up /\ c.up <= MaxUp
  /\ c.acked >= 0 /\ c.acked <= c.down /\ c.down <= MaxDown
  /\ c.socksEnd = "open" => c.toSocks + c.buf_used = c.up

\* The app's side is open: the books agree with lwIP's.
AppOpen(c) ==
  /\ c.live /\ c.pcb \in {"ESTABLISHED", "CLOSE_WAIT"}
  /\ c.recv_cb <=> ~c.socks_closed
  /\ c.pending = c.unacked
  /\ c.down = c.acked + c.unacked + Unsent(c)
  /\ c.recv_used # -1 => c.recv_sent < c.recv_used
  /\ ~c.socks_closed => c.rcv_wnd + c.buf_used = TCP_WND
  /\ c.socks_closed => c.socks_up /\ c.pending > 0
  /\ c.recv_used # -1 => c.waiting /\ c.pending > 0
  /\ c.socks_up /\ c.recv_used = -1 /\ ~c.socks_closed => c.receiving

\* The app's side is gone: the client lives on only for data to be sent.
AppGone(c) ==
  c.live => ~c.socks_closed /\ c.buf_used > 0 /\ c.appEnd # "open"

\* The SOCKS side of a client that lives is closed exactly if it failed or ended.
SocksEnd(c) == c.live => (c.socks_closed <=> c.socksEnd # "open")

\* The operations of the SOCKS side.
SocksSide(c) ==
  /\ ~c.live => c.client_closed /\ c.socks_closed
  /\ c.socks_closed => c.sending = 0 /\ ~c.receiving
  /\ ~c.socks_up => /\ c.recv_used = -1 /\ c.pending = 0 /\ c.unacked = 0
                    /\ c.sending = 0 /\ ~c.receiving
  /\ c.receiving => c.recv_used = -1
  /\ c.socks_up /\ ~c.socks_closed => (c.sending > 0 <=> c.buf_used > 0)

\* How an orderly end came about.
Ended(c) ==
  ~c.live =>
    /\ c.appEnd = "fin" /\ c.socksEnd = "open" => c.toSocks = c.up
    /\ c.socksEnd = "eof" /\ c.appEnd = "open" => c.acked = c.down

Good(c) ==
  /\ c \in ClientRec /\ ~c.refused
  /\ Counts(c) /\ SocksSide(c) /\ SocksEnd(c) /\ Ended(c)
  /\ IF c.client_closed THEN AppGone(c) ELSE AppOpen(c)

\* The SOCKS client is there exactly while its side of the client is.
SidesAgree ==
  /\ t.socks_closed => socks.state = "FREED"
  /\ ~t.socks_closed => (t.socks_up <=> socks.state = "UP") /\ socks.state # "FREED"

TcpInv ==
  /\ SocksInv /\ Good(t) /\ SidesAgree
  /\ cb \in {"none", "accept", "recv", "sent"} /\ ret \in {"ERR_OK", "ERR_ABRT"}
  /\ silent \subseteq {"app", "proxy"}

\* An operation never reopens the SOCKS side.
Keeps(c, d) == ~d.socks_closed => ~c.socks_closed /\ (d.socks_up <=> c.socks_up)

\* What FreeSocks and client_dealloc leave of a client.
LEMMA FreeSocksFields ==
  ASSUME NEW c \in ClientRec
  PROVE  LET d == FreeSocks(c)
         IN  /\ d \in ClientRec /\ d.socks_closed /\ d.sending = 0 /\ ~d.receiving
             /\ (d.live <=> c.live) /\ (d.client_closed <=> c.client_closed)
             /\ (d.refused <=> c.refused) /\ (d.socks_up <=> c.socks_up)
             /\ (d.waiting <=> c.waiting) /\ (d.recv_cb <=> c.recv_cb)
             /\ d.buf_used = c.buf_used /\ d.recv_used = c.recv_used
             /\ d.recv_sent = c.recv_sent /\ d.pending = c.pending
             /\ d.unacked = c.unacked /\ d.rcv_wnd = c.rcv_wnd /\ d.pcb = c.pcb
             /\ d.up = c.up /\ d.toSocks = c.toSocks
             /\ d.down = c.down /\ d.acked = c.acked
             /\ d.appEnd = c.appEnd /\ d.socksEnd = c.socksEnd
<1> DEFINE d == FreeSocks(c)
<1>1. d \in ClientRec
  <2> DEFINE a == [c EXCEPT !.socks_closed = TRUE]
             b == [a EXCEPT !.sending = 0]
  <2>1. a \in ClientRec
    BY DEF ClientRec
  <2>2. ASSUME NEW x \in ClientRec PROVE [x EXCEPT !.sending = 0] \in ClientRec
    BY DEF ClientRec
  <2>3. ASSUME NEW x \in ClientRec PROVE [x EXCEPT !.receiving = FALSE] \in ClientRec
    BY DEF ClientRec
  <2>4. d = [b EXCEPT !.receiving = FALSE]
    BY DEF FreeSocks, ClientRec
  <2>5. QED BY <2>1, <2>2, <2>3, <2>4
<1>2. d.socks_closed /\ d.sending = 0 /\ ~d.receiving
  BY DEF FreeSocks, ClientRec
<1>3. /\ (d.live <=> c.live) /\ (d.client_closed <=> c.client_closed)
      /\ (d.refused <=> c.refused) /\ (d.socks_up <=> c.socks_up)
      /\ (d.waiting <=> c.waiting) /\ (d.recv_cb <=> c.recv_cb)
  BY DEF FreeSocks, ClientRec
<1>4. /\ d.buf_used = c.buf_used /\ d.recv_used = c.recv_used
      /\ d.recv_sent = c.recv_sent /\ d.pending = c.pending
      /\ d.unacked = c.unacked /\ d.rcv_wnd = c.rcv_wnd /\ d.pcb = c.pcb
  BY DEF FreeSocks, ClientRec
<1>5. /\ d.up = c.up /\ d.toSocks = c.toSocks
      /\ d.down = c.down /\ d.acked = c.acked
      /\ d.appEnd = c.appEnd /\ d.socksEnd = c.socksEnd
  BY DEF FreeSocks, ClientRec
<1>6. QED BY <1>1, <1>2, <1>3, <1>4, <1>5

\* client_dealloc of a client that lost both sides in order.
LEMMA Deallocated ==
  ASSUME NEW c \in ClientRec, c.client_closed, c.socks_closed,
         ~c.refused, Counts(c), SocksSide(c),
         c.appEnd = "fin" /\ c.socksEnd = "open" => c.toSocks = c.up,
         c.socksEnd = "eof" /\ c.appEnd = "open" => c.acked = c.down
  PROVE  LET d == client_dealloc(c)
         IN  Good(d) /\ ~d.live /\ d.client_closed /\ d.socks_closed
<1> DEFINE d == client_dealloc(c)
<1>1. /\ d \in ClientRec /\ ~d.live /\ d.client_closed /\ d.socks_closed /\ ~d.refused
      /\ Counts(d)
  BY DEF client_dealloc, ClientRec, Counts
<1>2. SocksSide(d)
  BY DEF client_dealloc, ClientRec, SocksSide
<1>3. Ended(d)
  BY DEF client_dealloc, ClientRec, Ended
<1>4. QED BY <1>1, <1>2, <1>3 DEF Good, AppGone, SocksEnd

\* The app's side has just ended: what client_handle_freed_client then does.
\* Where the app did not end it, everything has been delivered.
LEMMA HandleFreed ==
  ASSUME NEW c \in ClientRec, c.live, ~c.refused, Counts(c), SocksSide(c), SocksEnd(c),
         c.appEnd = "open" => c.socks_closed /\ c.acked = c.down
  PROVE  LET d == client_handle_freed_client(c)
         IN  Good(d) /\ d.client_closed /\ Keeps(c, d) /\ (c.socks_closed => ~d.live)
<1> DEFINE d == client_handle_freed_client(c)
           e == [c EXCEPT !.client_closed = TRUE, !.recv_cb = FALSE]
<1>1. /\ e \in ClientRec /\ e.client_closed /\ ~e.recv_cb
      /\ e.live /\ ~e.refused /\ (e.socks_closed <=> c.socks_closed)
      /\ e.buf_used = c.buf_used /\ (e.socks_up <=> c.socks_up) /\ e.appEnd = c.appEnd
      /\ Counts(e) /\ SocksSide(e) /\ SocksEnd(e)
      /\ e.acked = c.acked /\ e.down = c.down
  BY DEF ClientRec, Counts, SocksSide, SocksEnd
<1> HIDE DEF e
<1>2. CASE e.buf_used > 0 /\ ~e.socks_closed
  <2>1. d = e
    BY <1>2 DEF client_handle_freed_client, e
  <2>2. QED BY <1>1, <1>2, <2>1 DEF Good, AppGone, Keeps, Ended
<1>3. CASE ~(e.buf_used > 0 /\ ~e.socks_closed)
  <2> DEFINE f == FreeSocks(e)
  <2>1. d = client_dealloc(f)
    BY <1>3 DEF client_handle_freed_client, e
  <2>2. /\ f \in ClientRec /\ f.client_closed /\ f.socks_closed /\ ~f.refused
        /\ f.appEnd = e.appEnd /\ f.socksEnd = e.socksEnd
        /\ f.up = e.up /\ f.toSocks = e.toSocks /\ f.buf_used = e.buf_used
        /\ f.acked = e.acked /\ f.down = e.down
    BY <1>1, FreeSocksFields
  <2>3. Counts(f) /\ SocksSide(f)
    BY <1>1, FreeSocksFields DEF Counts, SocksSide
  <2> HIDE DEF f
  <2>4. e.appEnd = "fin" /\ e.socksEnd = "open" => e.toSocks = e.up
    BY <1>1, <1>3 DEF Counts, SocksEnd, ClientRec
  <2>5. e.socksEnd = "eof" /\ e.appEnd = "open" => e.acked = e.down
    BY <1>1
  <2>6. Good(d) /\ ~d.live /\ d.client_closed /\ d.socks_closed
    BY <2>1, <2>2, <2>3, <2>4, <2>5, Deallocated
  <2>7. QED BY <2>6 DEF Keeps
<1>4. QED BY <1>2, <1>3

\* client_free_client, which deallocates at once when SOCKS is gone too.
LEMMA FreeClient ==
  ASSUME NEW c \in ClientRec, c.live, ~c.refused, Counts(c), SocksSide(c), SocksEnd(c),
         c.appEnd = "open" => c.socks_closed /\ c.acked = c.down, NEW fin \in BOOLEAN
  PROVE  LET d == client_free_client(c, fin)
         IN  Good(d) /\ d.client_closed /\ Keeps(c, d) /\ (c.socks_closed => ~d.live)
<1> DEFINE e == [c EXCEPT !.pcb = tcp_close_shutdown(c, fin)]
<1>1. tcp_close_shutdown(c, fin) \in PcbStates
  BY DEF tcp_close_shutdown, PcbStates
<1>2. /\ e \in ClientRec /\ e.live /\ ~e.refused /\ e.acked = c.acked /\ e.down = c.down
      /\ (e.socks_closed <=> c.socks_closed) /\ (e.socks_up <=> c.socks_up)
      /\ e.appEnd = c.appEnd
  BY <1>1 DEF ClientRec
<1>3. Counts(e) /\ SocksSide(e) /\ SocksEnd(e)
  BY <1>1 DEF ClientRec, Counts, SocksSide, SocksEnd
<1> HIDE DEF e
<1>4. LET d == client_handle_freed_client(e)
      IN  Good(d) /\ d.client_closed /\ Keeps(e, d) /\ (e.socks_closed => ~d.live)
  BY <1>2, <1>3, HandleFreed
<1>5. QED BY <1>2, <1>4 DEF client_free_client, e, Keeps

\* client_abort_client.
LEMMA AbortClient ==
  ASSUME NEW c \in ClientRec, c.live, ~c.refused, Counts(c), SocksSide(c), SocksEnd(c)
  PROVE  LET d == client_abort_client(c)
         IN  Good(d) /\ d.client_closed /\ Keeps(c, d)
<1> DEFINE e == [c EXCEPT !.pcb = "FREE", !.appEnd = "aborted"]
<1>1. /\ e \in ClientRec /\ e.live /\ ~e.refused
      /\ (e.socks_closed <=> c.socks_closed) /\ (e.socks_up <=> c.socks_up)
      /\ e.appEnd = "aborted"
  BY DEF ClientRec, PcbStates
<1>2. Counts(e) /\ SocksSide(e) /\ SocksEnd(e)
  BY DEF ClientRec, Counts, SocksSide, SocksEnd
<1> HIDE DEF e
<1>3. LET d == client_handle_freed_client(e)
      IN  Good(d) /\ d.client_closed /\ Keeps(e, d)
  BY <1>1, <1>2, HandleFreed
<1>4. QED BY <1>1, <1>3 DEF client_abort_client, e, Keeps

\* The SOCKS side ends: with an error or the end of the stream while the app's
\* side is open, or because the last data for a gone app has left.
LEMMA SocksFreed ==
  ASSUME NEW c \in ClientRec, c.live, ~c.refused, Counts(c), SocksSide(c),
         ~c.socks_closed, NEW fin \in BOOLEAN,
         IF c.client_closed
         THEN c.appEnd # "open" /\ (c.socksEnd = "open" => c.buf_used = 0)
         ELSE AppOpen(c) /\ c.socksEnd # "open"
  PROVE  LET d == client_free_socks(c, fin) IN Good(d) /\ d.socks_closed
<1> DEFINE b == IF c.socks_up THEN [c EXCEPT !.recv_cb = FALSE] ELSE c
           e == FreeSocks(b)
           d == client_free_socks(c, fin)
<1>1. /\ b \in ClientRec /\ (c.socks_up => ~b.recv_cb)
      /\ (b.live <=> c.live) /\ (b.client_closed <=> c.client_closed)
      /\ (b.refused <=> c.refused) /\ (b.socks_up <=> c.socks_up)
      /\ (b.waiting <=> c.waiting)
      /\ b.buf_used = c.buf_used /\ b.recv_used = c.recv_used
      /\ b.recv_sent = c.recv_sent /\ b.pending = c.pending
      /\ b.unacked = c.unacked /\ b.rcv_wnd = c.rcv_wnd /\ b.pcb = c.pcb
      /\ b.up = c.up /\ b.toSocks = c.toSocks
      /\ b.down = c.down /\ b.acked = c.acked
      /\ b.appEnd = c.appEnd /\ b.socksEnd = c.socksEnd
  <2>1. CASE c.socks_up
    BY <2>1 DEF ClientRec
  <2>2. CASE ~c.socks_up
    BY <2>2
  <2>3. QED BY <2>1, <2>2
<1> HIDE DEF b
<1>2. /\ e \in ClientRec /\ (c.socks_up => ~e.recv_cb)
      /\ e.socks_closed /\ e.sending = 0 /\ ~e.receiving
      /\ e.live /\ (e.client_closed <=> c.client_closed)
      /\ ~e.refused /\ (e.socks_up <=> c.socks_up) /\ (e.waiting <=> c.waiting)
      /\ e.buf_used = c.buf_used /\ e.recv_used = c.recv_used
      /\ e.recv_sent = c.recv_sent /\ e.pending = c.pending
      /\ e.unacked = c.unacked /\ e.rcv_wnd = c.rcv_wnd /\ e.pcb = c.pcb
      /\ e.up = c.up /\ e.toSocks = c.toSocks
      /\ e.down = c.down /\ e.acked = c.acked
      /\ e.appEnd = c.appEnd /\ e.socksEnd = c.socksEnd
  BY <1>1, FreeSocksFields
<1> HIDE DEF e
<1>3. Counts(e) /\ SocksSide(e)
  BY <1>2 DEF Counts, SocksSide
<1>4. CASE c.socks_up /\ (c.recv_used >= 0 \/ c.pending > 0) /\ ~c.client_closed
  <2>1. d = e
    BY <1>4 DEF client_free_socks, e, b
  <2>2. AppOpen(e)
    BY <1>2, <1>4 DEF AppOpen, Counts, Unsent, ClientRec
  <2>3. QED BY <1>2, <1>3, <1>4, <2>1, <2>2 DEF Good, SocksEnd, Ended
<1>5. CASE ~c.client_closed /\ ~(c.socks_up /\ (c.recv_used >= 0 \/ c.pending > 0))
  <2>1. d = client_free_client(e, fin)
    BY <1>5 DEF client_free_socks, e, b
  <2>2. e.acked = e.down
    BY <1>2, <1>5 DEF AppOpen, Counts, Unsent, SocksSide, ClientRec
  <2>3. SocksEnd(e)
    BY <1>2, <1>5 DEF SocksEnd
  <2>4. Good(d) /\ d.client_closed /\ Keeps(e, d)
    BY <1>2, <1>3, <2>1, <2>2, <2>3, FreeClient
  <2>5. QED BY <1>2, <2>4 DEF Keeps
<1>6. CASE c.client_closed
  <2>1. d = client_dealloc(e)
    BY <1>6 DEF client_free_socks, e, b
  <2>2. e.socksEnd = "open" => e.toSocks = e.up
    BY <1>2, <1>6 DEF Counts, ClientRec
  <2>3. QED BY <1>2, <1>3, <1>6, <2>1, <2>2, Deallocated
<1>7. QED BY <1>4, <1>5, <1>6

\* A client with data from the proxy at hand for lwIP.
HasData(c) ==
  /\ c \in ClientRec /\ c.live /\ ~c.client_closed /\ ~c.refused /\ c.socks_up
  /\ Counts(c) /\ SocksSide(c) /\ SocksEnd(c)
  /\ c.pcb \in {"ESTABLISHED", "CLOSE_WAIT"}
  /\ c.recv_cb <=> ~c.socks_closed
  /\ c.pending = c.unacked /\ c.down = c.acked + c.unacked + Unsent(c)
  /\ c.recv_used > 0 /\ c.recv_sent < c.recv_used
  /\ ~c.socks_closed => c.rcv_wnd + c.buf_used = TCP_WND

\* What is handed to lwIP fits, and what does not fit waits for an
\* acknowledgement that will come, or the connection is aborted.
LEMMA SendOut ==
  ASSUME NEW c, HasData(c), NEW mem \in BOOLEAN, NEW ok \in BOOLEAN
  PROVE  LET d == ContinueReceiving(client_socks_recv_send_out(c, mem, ok))
         IN  Good(d) /\ Keeps(c, d)
<1> DEFINE w == IF mem THEN Smaller(c.recv_used - c.recv_sent, tcp_sndbuf(c)) ELSE 0
           f == [c EXCEPT !.recv_sent = @ + w, !.pending = @ + w, !.unacked = @ + w]
           e == client_socks_recv_send_out(c, mem, ok)
           d == ContinueReceiving(e)
<1> SUFFICES Good(d) /\ Keeps(c, d)
  OBVIOUS
<1>1. /\ w \in Int /\ w >= 0 /\ w <= c.recv_used - c.recv_sent
      /\ c.unacked + w <= TCP_SND_BUF
  BY SizeAssumption DEF Smaller, tcp_sndbuf, HasData, ClientRec, Counts
<1> HIDE DEF w
<1>2. /\ f \in ClientRec /\ f.recv_sent = c.recv_sent + w
      /\ f.pending = c.pending + w /\ f.unacked = c.unacked + w
  <2> DEFINE a == [c EXCEPT !.recv_sent = @ + w]
             b == [a EXCEPT !.pending = @ + w]
  <2>1. c \in ClientRec /\ {c.recv_sent, c.pending, c.unacked} \subseteq Int
    BY DEF HasData, ClientRec
  <2>2. a \in ClientRec
    BY <1>1, <2>1 DEF ClientRec
  <2>3. a.recv_sent = c.recv_sent + w /\ a.pending = c.pending /\ a.unacked = c.unacked
    BY <2>1 DEF ClientRec
  <2>4. f = [b EXCEPT !.unacked = @ + w]
    BY <2>1 DEF ClientRec
  <2> HIDE DEF a, f
  <2>5. b \in ClientRec
    BY <1>1, <2>1, <2>2, <2>3 DEF ClientRec
  <2>6. b.recv_sent = a.recv_sent /\ b.pending = a.pending + w /\ b.unacked = a.unacked
    BY <2>2 DEF ClientRec
  <2> HIDE DEF b
  <2>7. f \in ClientRec
    BY <1>1, <2>1, <2>3, <2>4, <2>5, <2>6 DEF ClientRec
  <2>8. f.recv_sent = b.recv_sent /\ f.pending = b.pending /\ f.unacked = b.unacked + w
    BY <2>4, <2>5 DEF ClientRec
  <2>9. QED BY <2>3, <2>6, <2>7, <2>8
<1>3. /\ f.live /\ ~f.client_closed /\ ~f.refused /\ f.socks_up /\ ~f.receiving
      /\ c.socks_up
      /\ (f.socks_closed <=> c.socks_closed) /\ (f.recv_cb <=> c.recv_cb)
      /\ f.buf_used = c.buf_used /\ f.recv_used = c.recv_used
      /\ f.rcv_wnd = c.rcv_wnd /\ f.pcb = c.pcb /\ f.sending = c.sending
  BY <1>1 DEF HasData, ClientRec, SocksSide
<1>4. /\ f.up = c.up /\ f.toSocks = c.toSocks /\ f.down = c.down /\ f.acked = c.acked
      /\ f.appEnd = c.appEnd /\ f.socksEnd = c.socksEnd
  BY <1>1 DEF HasData, ClientRec
<1> HIDE DEF f
<1>5. /\ f.recv_sent <= f.recv_used /\ f.pending = f.unacked
      /\ f.down = f.acked + f.unacked + (f.recv_used - f.recv_sent)
  BY <1>1, <1>2, <1>3, <1>4 DEF HasData, Counts, Unsent, ClientRec
<1>6. Counts(f)
  BY <1>1, <1>2, <1>3, <1>4, <1>5, SizeAssumption DEF HasData, Counts, ClientRec
<1>7. SocksSide(f) /\ SocksEnd(f)
  BY <1>2, <1>3, <1>4 DEF HasData, SocksSide, SocksEnd
<1>8. CASE ~ok \/ (f.recv_sent < f.recv_used /\ f.pending = 0)
  <2>1. e = client_abort_client(f)
    BY <1>8 DEF client_socks_recv_send_out, f, w
  <2>2. Good(e) /\ e.client_closed /\ Keeps(f, e)
    BY <1>2, <1>3, <1>6, <1>7, <2>1, AbortClient
  <2> HIDE DEF e
  <2>3. d = e
    BY <2>2 DEF ContinueReceiving
  <2> HIDE DEF d
  <2>4. QED BY <1>3, <2>2, <2>3 DEF Keeps
<1>9. CASE f.recv_sent < f.recv_used /\ f.pending # 0 /\ ok
  <2>1. e = [f EXCEPT !.waiting = TRUE]
    BY <1>9 DEF client_socks_recv_send_out, f, w
  <2>2. /\ e \in ClientRec /\ e.waiting /\ ~e.client_closed /\ ~e.refused /\ ~e.receiving
        /\ (e.live <=> f.live) /\ (e.socks_closed <=> f.socks_closed)
        /\ (e.socks_up <=> f.socks_up) /\ (e.recv_cb <=> f.recv_cb)
        /\ e.buf_used = f.buf_used /\ e.recv_used = f.recv_used
        /\ e.recv_sent = f.recv_sent /\ e.pending = f.pending
        /\ e.unacked = f.unacked /\ e.rcv_wnd = f.rcv_wnd /\ e.pcb = f.pcb
    BY <1>2, <1>3, <2>1 DEF ClientRec
  <2>3. /\ e.up = f.up /\ e.toSocks = f.toSocks /\ e.sending = f.sending
        /\ e.down = f.down /\ e.acked = f.acked
        /\ e.appEnd = f.appEnd /\ e.socksEnd = f.socksEnd
    BY <1>2, <2>1 DEF ClientRec
  <2> HIDE DEF e
  <2>4. d = e
    <3>1. e.recv_used # -1
      BY <1>3, <2>2 DEF HasData, ClientRec
    <3>2. QED BY <3>1 DEF ContinueReceiving
  <2> HIDE DEF d
  <2>5. Counts(e) /\ SocksSide(e) /\ SocksEnd(e)
    BY <1>3, <1>6, <1>7, <2>2, <2>3 DEF Counts, SocksSide, SocksEnd
  <2>6. AppOpen(e)
    BY <1>2, <1>3, <1>4, <1>5, <1>6, <1>9, <2>2, <2>3
       DEF AppOpen, Unsent, Counts, HasData, ClientRec
  <2>7. QED BY <1>3, <2>2, <2>4, <2>5, <2>6 DEF Good, Ended, Keeps
<1>10. CASE ~(f.recv_sent < f.recv_used) /\ ok
  <2>1. e = [f EXCEPT !.recv_used = -1]
    BY <1>10 DEF client_socks_recv_send_out, f, w
  <2>2. /\ e \in ClientRec /\ e.recv_used = -1
        /\ ~e.client_closed /\ ~e.refused /\ ~e.receiving
        /\ (e.live <=> f.live) /\ (e.socks_closed <=> f.socks_closed)
        /\ (e.socks_up <=> f.socks_up) /\ (e.recv_cb <=> f.recv_cb)
        /\ e.buf_used = f.buf_used
        /\ e.recv_sent = f.recv_sent /\ e.pending = f.pending
        /\ e.unacked = f.unacked /\ e.rcv_wnd = f.rcv_wnd /\ e.pcb = f.pcb
    BY <1>2, <1>3, <2>1 DEF ClientRec
  <2>3. /\ e.up = f.up /\ e.toSocks = f.toSocks /\ e.sending = f.sending
        /\ e.down = f.down /\ e.acked = f.acked
        /\ e.appEnd = f.appEnd /\ e.socksEnd = f.socksEnd
    BY <1>2, <2>1 DEF ClientRec
  <2> HIDE DEF e
  <2>4. /\ d \in ClientRec /\ (d.receiving <=> ~e.socks_closed)
        /\ d.recv_used = e.recv_used
        /\ ~d.client_closed /\ ~d.refused
        /\ (d.live <=> e.live) /\ (d.socks_closed <=> e.socks_closed)
        /\ (d.socks_up <=> e.socks_up) /\ (d.recv_cb <=> e.recv_cb)
        /\ d.buf_used = e.buf_used
        /\ d.recv_sent = e.recv_sent /\ d.pending = e.pending
        /\ d.unacked = e.unacked /\ d.rcv_wnd = e.rcv_wnd /\ d.pcb = e.pcb
    BY <2>2 DEF ContinueReceiving, client_socks_recv_initiate, ClientRec
  <2>5. /\ d.up = e.up /\ d.toSocks = e.toSocks /\ d.sending = e.sending
        /\ d.down = e.down /\ d.acked = e.acked
        /\ d.appEnd = e.appEnd /\ d.socksEnd = e.socksEnd
    BY <2>2 DEF ContinueReceiving, client_socks_recv_initiate, ClientRec
  <2> HIDE DEF d
  <2>6. Counts(d) /\ SocksEnd(d)
    BY <1>6, <1>7, <2>2, <2>3, <2>4, <2>5, SizeAssumption DEF Counts, SocksEnd
  <2>7. SocksSide(d)
    BY <1>3, <1>7, <2>2, <2>3, <2>4, <2>5 DEF SocksSide
  <2>8. AppOpen(d)
    <3>1. d.pending > 0
      BY <1>1, <1>2, <1>3, <1>10, <2>2, <2>4 DEF HasData, Counts, ClientRec
    <3>2. d.down = d.acked + d.unacked + Unsent(d)
      BY <1>2, <1>3, <1>4, <1>5, <1>10, <2>2, <2>3, <2>4, <2>5
         DEF HasData, Unsent, ClientRec
    <3>3. QED
      BY <1>3, <1>5, <2>2, <2>3, <2>4, <3>1, <3>2 DEF AppOpen, HasData
  <2>9. QED BY <1>3, <2>2, <2>4, <2>6, <2>7, <2>8 DEF Good, Ended, Keeps
<1>11. QED BY <1>8, <1>9, <1>10

-----------------------------------------------------------------------------
(* The steps.                                                              *)

\* With the SOCKS client freed where its side of the client is, both agree.
LEMMA KeepsAgreement ==
  ASSUME SocksInv, SidesAgree, KeepSocks, Keeps(t, t')
  PROVE  SocksInv' /\ SidesAgree'
<1>1. CASE t'.socks_closed
  <2>1. socks' = Client("FREED", FALSE)
    BY <1>1 DEF KeepSocks, FreedClient
  <2>2. socks'.state = "FREED"
    BY <2>1 DEF Client
  <2>3. QED BY <1>1, <2>1, <2>2, SocksFresh DEF SidesAgree
<1>2. CASE ~t'.socks_closed
  <2>1. socks' = socks
    BY <1>2 DEF KeepSocks
  <2>2. QED
    BY <1>2, <2>1 DEF SocksInv, SocksTypeOK, SidesAgree, Keeps
<1>3. QED BY <1>1, <1>2

\* listener_accept_func begins a flow with clean books.
LEMMA Accepts ==
  ASSUME SocksInv, Good(t), SidesAgree, listener_accept_func
  PROVE  Good(t') /\ SocksInv' /\ SidesAgree'
<1>1. t' = NewClient
  BY DEF listener_accept_func
<1>2. PICK creds \in BOOLEAN : socks' = Client("CONNECTING", creds)
  BY DEF listener_accept_func
<1>3. t' \in ClientRec /\ ~t'.refused /\ t'.live /\ ~t'.client_closed /\ ~t'.socks_closed
      /\ ~t'.socks_up
  BY <1>1, SizeAssumption DEF NewClient, ClientRec, PcbStates
<1>4. Counts(t') /\ SocksSide(t') /\ SocksEnd(t')
  BY <1>1, SizeAssumption DEF NewClient, Counts, SocksSide, SocksEnd
<1>5. AppOpen(t')
  BY <1>1, SizeAssumption DEF NewClient, AppOpen, Unsent
<1>6. socks'.state = "CONNECTING"
  BY <1>2 DEF Client
<1>7. QED
  BY <1>2, <1>3, <1>4, <1>5, <1>6, SocksFresh DEF Good, Ended, SidesAgree

\* The app side ends by FIN or by an error of the connection.
LEMMA AppEnds ==
  ASSUME SocksInv, Good(t), SidesAgree,
         client_recv_func_closed \/ client_err_func
  PROVE  Good(t') /\ SocksInv' /\ SidesAgree'
<1>1. t \in ClientRec /\ t.live /\ ~t.client_closed /\ ~t.refused /\ KeepSocks /\ AppOpen(t)
      /\ Counts(t) /\ SocksSide(t) /\ SocksEnd(t)
  BY DEF Good, client_recv_func_closed, client_err_func, FromLwip
<1>2. ASSUME NEW p \in PcbStates, NEW x \in {"fin", "reset"}
      PROVE  LET c == [t EXCEPT !.pcb = p, !.appEnd = x]
             IN  /\ c \in ClientRec /\ c.live /\ ~c.client_closed /\ ~c.refused
                 /\ c.appEnd = x /\ Counts(c) /\ SocksSide(c) /\ SocksEnd(c)
                 /\ Keeps(t, c)
                 /\ \A d : Keeps(c, d) => Keeps(t, d)
                 /\ p = "CLOSE_WAIT" => AppOpen(c)
  <2> DEFINE c == [t EXCEPT !.pcb = p, !.appEnd = x]
  <2>1. /\ c \in ClientRec /\ c.live /\ ~c.client_closed /\ ~c.refused
        /\ c.appEnd = x
    BY <1>1 DEF ClientRec
  <2>2. Counts(c) /\ SocksSide(c) /\ SocksEnd(c)
    BY <1>1 DEF ClientRec, Counts, SocksSide, SocksEnd
  <2>3. (c.socks_closed <=> t.socks_closed) /\ (c.socks_up <=> t.socks_up)
    BY <1>1 DEF ClientRec
  <2>4. p = "CLOSE_WAIT" => AppOpen(c)
    BY <1>1 DEF ClientRec, AppOpen, Unsent
  <2> HIDE DEF c
  <2>5. Keeps(t, c) /\ \A d : Keeps(c, d) => Keeps(t, d)
    BY <2>3 DEF Keeps
  <2>6. QED BY <2>1, <2>2, <2>4, <2>5 DEF c
<1>3. CASE client_err_func
  <2> DEFINE c == [t EXCEPT !.pcb = "FREE", !.appEnd = "reset"]
  <2>1. t' = client_handle_freed_client(c)
    BY <1>3 DEF client_err_func
  <2>2. /\ c \in ClientRec /\ c.live /\ ~c.refused /\ c.appEnd = "reset"
        /\ Counts(c) /\ SocksSide(c) /\ SocksEnd(c)
        /\ \A d : Keeps(c, d) => Keeps(t, d)
    BY <1>2 DEF PcbStates
  <2> HIDE DEF c
  <2>3. Good(t') /\ Keeps(c, t')
    BY <2>1, <2>2, HandleFreed
  <2>4. QED BY <1>1, <2>2, <2>3, KeepsAgreement
<1>4. CASE client_recv_func_closed
  <2> DEFINE c == [t EXCEPT !.pcb = "CLOSE_WAIT", !.appEnd = "fin"]
  <2>1. IF t.recv_cb THEN \E fin \in BOOLEAN : t' = client_free_client(c, fin)
                     ELSE t' = c
    BY <1>4 DEF client_recv_func_closed
  <2>2. /\ c \in ClientRec /\ c.live /\ ~c.client_closed /\ ~c.refused /\ c.appEnd = "fin"
        /\ Counts(c) /\ SocksSide(c) /\ SocksEnd(c) /\ Keeps(t, c)
        /\ AppOpen(c) /\ \A d : Keeps(c, d) => Keeps(t, d)
    BY <1>2 DEF PcbStates
  <2> HIDE DEF c
  <2>3. CASE t.recv_cb
    <3>1. Good(t') /\ Keeps(c, t')
      BY <2>1, <2>2, <2>3, FreeClient
    <3>2. QED BY <1>1, <2>2, <3>1, KeepsAgreement
  <2>4. CASE ~t.recv_cb
    <3>1. t' = c
      BY <2>1, <2>4
    <3>2. Good(t')
      BY <2>2, <3>1 DEF Good, Ended
    <3>3. QED BY <1>1, <2>2, <3>1, <3>2, KeepsAgreement
  <2>5. QED BY <2>3, <2>4
<1>5. QED BY <1>3, <1>4

\* client_recv_func takes a segment within the window.
LEMMA AppSends ==
  ASSUME SocksInv, Good(t), SidesAgree, client_recv_func
  PROVE  Good(t') /\ SocksInv' /\ SidesAgree'
<1>1. t \in ClientRec /\ t.live /\ ~t.client_closed /\ ~t.refused /\ AppOpen(t)
      /\ Counts(t) /\ SocksSide(t) /\ SocksEnd(t)
  BY DEF Good, client_recv_func, FromLwip
<1>2. PICK n \in 1..Smaller(t.rcv_wnd, MaxUp - t.up) : client_recv_func!2!(n)
  BY DEF client_recv_func
<1>3. n \in Nat /\ n > 0 /\ n <= t.rcv_wnd /\ t.up + n <= MaxUp
  BY <1>1, <1>2, SizeAssumption DEF Smaller, ClientRec
<1>4. SocksInv'
  BY DEF client_recv_func, SocksInv, SocksTypeOK
<1> DEFINE c == [t EXCEPT !.rcv_wnd = @ - n, !.up = @ + n]
<1>5. /\ c \in ClientRec /\ c.rcv_wnd = t.rcv_wnd - n /\ c.up = t.up + n
  <2>1. t.rcv_wnd - n \in Int /\ t.up + n \in Int
    BY <1>1, <1>3 DEF ClientRec
  <2>2. ASSUME NEW a \in Int, NEW b \in Int
        PROVE  [t EXCEPT !.rcv_wnd = a, !.up = b] \in ClientRec
    BY <1>1 DEF ClientRec
  <2>3. c \in ClientRec
    BY <2>1, <2>2
  <2>4. QED BY <1>1, <2>3 DEF ClientRec
<1>51. /\ c.live /\ ~c.client_closed /\ ~c.refused /\ c.pcb = t.pcb
      /\ (c.socks_closed <=> t.socks_closed) /\ (c.socks_up <=> t.socks_up)
      /\ (c.recv_cb <=> t.recv_cb) /\ (c.waiting <=> t.waiting)
      /\ (c.receiving <=> t.receiving)
  BY <1>1, <1>3 DEF ClientRec
<1>6. /\ c.buf_used = t.buf_used /\ c.recv_used = t.recv_used /\ c.recv_sent = t.recv_sent
      /\ c.pending = t.pending /\ c.unacked = t.unacked /\ c.sending = t.sending
      /\ c.toSocks = t.toSocks /\ c.down = t.down /\ c.acked = t.acked
      /\ c.appEnd = t.appEnd /\ c.socksEnd = t.socksEnd
  BY <1>1, <1>3 DEF ClientRec
<1> HIDE DEF c
<1>7. CASE ~t.recv_cb /\ t' = tcp_recved(c, n)
  <2>1. t' = [c EXCEPT !.rcv_wnd = t.rcv_wnd]
    BY <1>1, <1>3, <1>5, <1>51, <1>7, SizeAssumption DEF tcp_recved, ClientRec, Counts
  <2>2. /\ t' \in ClientRec /\ t'.rcv_wnd = t.rcv_wnd /\ t'.up = c.up
        /\ t'.live /\ ~t'.client_closed /\ ~t'.refused /\ t'.pcb = c.pcb
        /\ (t'.socks_closed <=> c.socks_closed) /\ (t'.socks_up <=> c.socks_up)
        /\ (t'.recv_cb <=> c.recv_cb) /\ (t'.waiting <=> c.waiting)
        /\ (t'.receiving <=> c.receiving)
    BY <1>1, <1>5, <1>51, <2>1 DEF ClientRec
  <2>3. /\ t'.buf_used = c.buf_used /\ t'.recv_used = c.recv_used
        /\ t'.recv_sent = c.recv_sent
        /\ t'.pending = c.pending /\ t'.unacked = c.unacked /\ t'.sending = c.sending
        /\ t'.toSocks = c.toSocks /\ t'.down = c.down /\ t'.acked = c.acked
        /\ t'.appEnd = c.appEnd /\ t'.socksEnd = c.socksEnd
    BY <1>5, <1>51, <2>1 DEF ClientRec
  <2>4. Counts(t')
    BY <1>1, <1>3, <1>5, <1>51, <1>6, <1>7, <2>2, <2>3, SizeAssumption
       DEF Counts, ClientRec, AppOpen, SocksEnd
  <2>5. SocksSide(t') /\ SocksEnd(t') /\ AppOpen(t')
    BY <1>1, <1>5, <1>51, <1>6, <1>7, <2>2, <2>3 DEF SocksSide, SocksEnd, AppOpen, Unsent
  <2>6. SidesAgree'
    BY <1>5, <1>51, <2>2 DEF client_recv_func, SidesAgree
  <2>7. QED BY <1>4, <2>2, <2>4, <2>5, <2>6 DEF Good, Ended
<1>8. t.recv_cb => ~(n > TCP_WND - t.buf_used)
  BY <1>1, <1>3, SizeAssumption DEF AppOpen, ClientRec
<1>9. CASE t.recv_cb
  <2> DEFINE d == [c EXCEPT !.buf_used = @ + n]
  <2>1. t' = IF d.buf_used = n /\ d.socks_up THEN client_send_to_socks(d) ELSE d
    BY <1>2, <1>8, <1>9 DEF c
  <2>2. /\ d \in ClientRec /\ d.buf_used = t.buf_used + n
        /\ d.live /\ ~d.client_closed /\ ~d.refused /\ d.pcb = c.pcb
        /\ (d.socks_closed <=> c.socks_closed) /\ (d.socks_up <=> c.socks_up)
        /\ (d.recv_cb <=> c.recv_cb) /\ (d.waiting <=> c.waiting)
        /\ (d.receiving <=> c.receiving)
    BY <1>3, <1>5, <1>51, <1>6 DEF ClientRec
  <2>3. /\ d.rcv_wnd = c.rcv_wnd /\ d.recv_used = c.recv_used
        /\ d.recv_sent = c.recv_sent
        /\ d.pending = c.pending /\ d.unacked = c.unacked /\ d.sending = c.sending
        /\ d.up = c.up /\ d.toSocks = c.toSocks /\ d.down = c.down /\ d.acked = c.acked
        /\ d.appEnd = c.appEnd /\ d.socksEnd = c.socksEnd
    BY <1>3, <1>5 DEF ClientRec
  <2> HIDE DEF d
  <2>4. /\ t' \in ClientRec /\ t'.buf_used = d.buf_used
        /\ t'.live /\ ~t'.client_closed /\ ~t'.refused /\ t'.pcb = d.pcb
        /\ (t'.socks_closed <=> d.socks_closed) /\ (t'.socks_up <=> d.socks_up)
        /\ (t'.recv_cb <=> d.recv_cb) /\ (t'.waiting <=> d.waiting)
        /\ (t'.receiving <=> d.receiving)
        /\ t'.sending = IF d.buf_used = n /\ d.socks_up THEN d.buf_used ELSE d.sending
    BY <2>1, <2>2 DEF client_send_to_socks, ClientRec
  <2>5. /\ t'.rcv_wnd = d.rcv_wnd /\ t'.recv_used = d.recv_used
        /\ t'.recv_sent = d.recv_sent
        /\ t'.pending = d.pending /\ t'.unacked = d.unacked
        /\ t'.up = d.up /\ t'.toSocks = d.toSocks /\ t'.down = d.down /\ t'.acked = d.acked
        /\ t'.appEnd = d.appEnd /\ t'.socksEnd = d.socksEnd
    BY <2>1, <2>2 DEF client_send_to_socks, ClientRec
  <2>6. Counts(t')
    BY <1>1, <1>3, <1>5, <1>51, <1>6, <1>8, <1>9, <2>2, <2>3, <2>4, <2>5, SizeAssumption
       DEF Counts, ClientRec
  <2>7. SocksSide(t')
    BY <1>1, <1>3, <1>5, <1>51, <1>6, <1>9, <2>2, <2>3, <2>4, <2>5
       DEF SocksSide, Counts, ClientRec, AppOpen
  <2>8. AppOpen(t')
    BY <1>1, <1>3, <1>5, <1>51, <1>6, <1>9, <2>2, <2>3, <2>4, <2>5, SizeAssumption
       DEF AppOpen, Unsent, ClientRec
  <2>9. SocksEnd(t')
    BY <1>1, <1>5, <1>51, <1>6, <2>2, <2>3, <2>4, <2>5 DEF SocksEnd
  <2>10. SidesAgree'
    BY <1>5, <1>51, <2>2, <2>4 DEF client_recv_func, SidesAgree
  <2>11. QED BY <1>4, <2>4, <2>6, <2>7, <2>8, <2>9, <2>10 DEF Good, Ended
<1>10. QED BY <1>2, <1>7, <1>8, <1>9 DEF c

\* The app acknowledges n bytes of those it was sent.
Acked(c, n) == [c EXCEPT !.unacked = @ - n, !.acked = @ + n, !.pending = @ - n]

\* What an acknowledgement changes, and what it leaves alone.
LEMMA AckedFields ==
  ASSUME NEW c \in ClientRec, NEW n \in Int
  PROVE  LET d == Acked(c, n)
         IN  /\ d \in ClientRec
             /\ d.unacked = c.unacked - n /\ d.acked = c.acked + n
             /\ d.pending = c.pending - n
             /\ (d.live <=> c.live) /\ (d.client_closed <=> c.client_closed)
             /\ (d.refused <=> c.refused) /\ (d.socks_up <=> c.socks_up)
             /\ (d.socks_closed <=> c.socks_closed)
             /\ (d.waiting <=> c.waiting) /\ (d.recv_cb <=> c.recv_cb)
             /\ (d.receiving <=> c.receiving)
             /\ d.buf_used = c.buf_used /\ d.recv_used = c.recv_used
             /\ d.recv_sent = c.recv_sent /\ d.sending = c.sending
             /\ d.rcv_wnd = c.rcv_wnd /\ d.pcb = c.pcb
             /\ d.up = c.up /\ d.toSocks = c.toSocks /\ d.down = c.down
             /\ d.appEnd = c.appEnd /\ d.socksEnd = c.socksEnd
<1> DEFINE d == Acked(c, n)
<1>1. d \in ClientRec
  <2>1. c.unacked - n \in Int /\ c.acked + n \in Int /\ c.pending - n \in Int
    BY DEF ClientRec
  <2>2. ASSUME NEW x \in ClientRec, NEW i \in Int, NEW j \in Int
        PROVE  [x EXCEPT !.unacked = i, !.acked = j] \in ClientRec
    BY DEF ClientRec
  <2>3. ASSUME NEW x \in ClientRec, NEW i \in Int
        PROVE  [x EXCEPT !.pending = i] \in ClientRec
    BY DEF ClientRec
  <2> DEFINE a == [c EXCEPT !.unacked = c.unacked - n, !.acked = c.acked + n]
  <2>4. d = [a EXCEPT !.pending = c.pending - n]
    BY DEF Acked, ClientRec
  <2>5. a \in ClientRec
    BY <2>1, <2>2
  <2> HIDE DEF a, d
  <2>6. QED BY <2>1, <2>3, <2>4, <2>5
<1>2. d.unacked = c.unacked - n /\ d.acked = c.acked + n /\ d.pending = c.pending - n
  BY DEF Acked, ClientRec
<1>3. /\ (d.live <=> c.live) /\ (d.client_closed <=> c.client_closed)
      /\ (d.refused <=> c.refused) /\ (d.socks_up <=> c.socks_up)
      /\ (d.socks_closed <=> c.socks_closed)
      /\ (d.waiting <=> c.waiting) /\ (d.recv_cb <=> c.recv_cb)
      /\ (d.receiving <=> c.receiving)
  BY DEF Acked, ClientRec
<1>4. /\ d.buf_used = c.buf_used /\ d.recv_used = c.recv_used
      /\ d.recv_sent = c.recv_sent /\ d.sending = c.sending
      /\ d.rcv_wnd = c.rcv_wnd /\ d.pcb = c.pcb
      /\ d.up = c.up /\ d.toSocks = c.toSocks /\ d.down = c.down
      /\ d.appEnd = c.appEnd /\ d.socksEnd = c.socksEnd
  BY DEF Acked, ClientRec
<1>5. QED BY <1>1, <1>2, <1>3, <1>4

\* client_sent_func moves more data, or frees the client when SOCKS is gone
\* and all is acknowledged.
LEMMA AppAcks ==
  ASSUME SocksInv, Good(t), SidesAgree, client_sent_func
  PROVE  Good(t') /\ SocksInv' /\ SidesAgree'
<1>1. t \in ClientRec /\ t.live /\ ~t.client_closed /\ ~t.refused /\ AppOpen(t)
      /\ Counts(t) /\ SocksSide(t) /\ SocksEnd(t) /\ KeepSocks
  BY DEF Good, client_sent_func, FromLwip
<1>2. PICK n \in 1..t.unacked, mem, ok, fin \in BOOLEAN :
        client_sent_func!2!(n, mem, ok, fin)
  BY DEF client_sent_func
<1>3. n \in Int /\ n > 0 /\ n <= t.unacked
  BY <1>1, <1>2 DEF ClientRec
<1> DEFINE c == Acked(t, n)
<1>4. /\ c \in ClientRec
      /\ c.unacked = t.unacked - n /\ c.acked = t.acked + n /\ c.pending = t.pending - n
      /\ c.live /\ ~c.client_closed /\ ~c.refused /\ (c.socks_up <=> t.socks_up)
      /\ (c.socks_closed <=> t.socks_closed)
      /\ (c.waiting <=> t.waiting) /\ (c.recv_cb <=> t.recv_cb)
      /\ (c.receiving <=> t.receiving)
      /\ c.buf_used = t.buf_used /\ c.recv_used = t.recv_used
      /\ c.recv_sent = t.recv_sent /\ c.sending = t.sending
      /\ c.rcv_wnd = t.rcv_wnd /\ c.pcb = t.pcb
      /\ c.up = t.up /\ c.toSocks = t.toSocks /\ c.down = t.down
      /\ c.appEnd = t.appEnd /\ c.socksEnd = t.socksEnd
  BY <1>1, <1>3, AckedFields
<1>5. IF c.recv_used > 0
      THEN t' = ContinueReceiving(
                  client_socks_recv_send_out([c EXCEPT !.waiting = FALSE], mem, ok))
      ELSE t' = IF c.socks_closed /\ c.pending = 0 THEN client_free_client(c, fin) ELSE c
  BY <1>2 DEF Acked
<1> HIDE DEF c
<1>6. /\ t.pending = t.unacked /\ t.down = t.acked + t.unacked + Unsent(t)
      /\ (t.recv_used # -1 => t.recv_sent < t.recv_used)
  BY <1>1 DEF AppOpen
<1>7. /\ Counts(c) /\ SocksEnd(c)
      /\ c.pending = c.unacked /\ c.down = c.acked + c.unacked + Unsent(c)
  <2>1. c.down = c.acked + c.unacked + Unsent(c) /\ c.acked <= c.down
    BY <1>1, <1>3, <1>4, <1>6 DEF Counts, ClientRec, Unsent
  <2>2. QED
    BY <1>1, <1>3, <1>4, <1>6, <2>1, SizeAssumption DEF Counts, ClientRec, SocksEnd
<1>8. SocksSide(c) /\ c.socks_up
  <2>1. t.socks_up
    BY <1>1, <1>3 DEF SocksSide
  <2>2. QED BY <1>1, <1>4, <2>1 DEF SocksSide
<1>9. CASE c.recv_used > 0
  <2> DEFINE e == [c EXCEPT !.waiting = FALSE]
  <2>1. HasData(e)
    <3>1. /\ e \in ClientRec /\ e.live /\ ~e.client_closed /\ ~e.refused /\ e.socks_up
          /\ (e.recv_cb <=> c.recv_cb) /\ (e.socks_closed <=> c.socks_closed)
          /\ e.pcb = c.pcb /\ e.pending = c.pending /\ e.unacked = c.unacked
          /\ e.down = c.down /\ e.acked = c.acked /\ e.recv_used = c.recv_used
          /\ e.recv_sent = c.recv_sent /\ e.rcv_wnd = c.rcv_wnd /\ e.buf_used = c.buf_used
      BY <1>4, <1>8 DEF ClientRec
    <3>2. Counts(e) /\ SocksSide(e) /\ SocksEnd(e)
      BY <1>4, <1>7, <1>8 DEF Counts, SocksSide, SocksEnd, ClientRec
    <3> HIDE DEF e
    <3>3. Unsent(e) = Unsent(c)
      BY <3>1 DEF Unsent
    <3>4. QED
      BY <1>1, <1>4, <1>7, <1>9, <3>1, <3>2, <3>3 DEF HasData, AppOpen, ClientRec
  <2>2. (e.socks_closed <=> t.socks_closed) /\ (e.socks_up <=> t.socks_up)
    BY <1>4 DEF ClientRec
  <2> HIDE DEF e
  <2>3. t' = ContinueReceiving(client_socks_recv_send_out(e, mem, ok))
    BY <1>5, <1>9 DEF e
  <2>4. Good(t') /\ Keeps(e, t')
    BY <2>1, <2>3, SendOut
  <2>5. Keeps(t, t')
    BY <2>2, <2>4 DEF Keeps
  <2>6. QED BY <1>1, <2>4, <2>5, KeepsAgreement
<1>10. CASE ~(c.recv_used > 0)
  <2>1. c.recv_used = -1
    BY <1>1, <1>4, <1>6, <1>10 DEF Counts, ClientRec
  <2>2. CASE c.socks_closed /\ c.pending = 0
    <3>1. t' = client_free_client(c, fin)
      BY <1>5, <1>10, <2>2
    <3>2. c.acked = c.down
      BY <1>4, <1>7, <2>1, <2>2 DEF Unsent, ClientRec
    <3>3. Good(t') /\ Keeps(c, t')
      BY <1>4, <1>7, <1>8, <2>2, <3>1, <3>2, FreeClient
    <3>4. Keeps(t, t')
      BY <1>4, <3>3 DEF Keeps
    <3>5. QED BY <1>1, <3>3, <3>4, KeepsAgreement
  <2>3. CASE ~(c.socks_closed /\ c.pending = 0)
    <3>1. t' = c
      BY <1>5, <1>10, <2>3
    <3>2. AppOpen(c)
      BY <1>1, <1>4, <1>7, <1>8, <2>1, <2>3 DEF AppOpen, Counts, ClientRec
    <3>3. Keeps(t, t')
      BY <1>4, <3>1 DEF Keeps
    <3>4. Good(t')
      BY <1>4, <1>7, <1>8, <3>1, <3>2 DEF Good, Ended
    <3>5. QED BY <1>1, <3>3, <3>4, KeepsAgreement
  <2>4. QED BY <2>2, <2>3
<1>11. QED BY <1>9, <1>10

\* The SOCKS client reports that it is up once, from its last receiving state,
\* and errors only before.
LEMMA SocksEvents ==
  ASSUME SocksInv, NEW ev, SocksStep(ev)
  PROVE  /\ socks.state \notin {"UP", "FREED"}
         /\ ev = "NONE" => socks'.state \notin {"UP", "FREED"}
         /\ ev = "ERROR" => socks' = FreedClient
         /\ ev = "UP" => socks'.state = "UP"
<1>1. socks \in SocksRec
  BY DEF SocksInv, SocksTypeOK, SocksRec
<1>2. CASE connector_handler(ev)
  BY <1>1, <1>2 DEF connector_handler, Become, report_error, SocksRec
<1>3. CASE send_handler_done(ev)
  BY <1>1, <1>3 DEF send_handler_done, Become, report_error, Sending, start_receive,
     SocksRec
<1>4. CASE recv_handler_done(ev)
  <2>1. PICK data_len \in 1..(socks.recv_total - socks.recv_len) :
          recv_handler_done(ev)!2!(data_len)
    BY <1>4 DEF recv_handler_done
  <2> DEFINE s == [socks EXCEPT !.recv_len = @ + data_len, !.taken = @ + data_len]
  <2>2. s.state = socks.state /\ \A x : [s EXCEPT !.state = x].state = x
    BY <1>1 DEF SocksRec
  <2>3. \A x : auth_finished([s EXCEPT !.method = x]).state = "SENDING_REQUEST"
    BY <1>1 DEF SocksRec, auth_finished
  <2>4. \A x : [[s EXCEPT !.method = x] EXCEPT !.state = "SENDING_PASSWORD"].state
               = "SENDING_PASSWORD"
    BY <1>1 DEF SocksRec
  <2>5. auth_finished(s).state = "SENDING_REQUEST"
    BY <1>1 DEF SocksRec, auth_finished
  <2>6. \A x, y : start_receive([s EXCEPT !.atyp = x], "RECEIVED_REPLY_HEADER", y).state
                  = "RECEIVED_REPLY_HEADER"
    BY <1>1 DEF SocksRec, start_receive
  <2>7. socks.state \in Receiving
    BY <1>4 DEF recv_handler_done
  <2> HIDE DEF s
  <2>8. \/ s.recv_len < s.recv_total /\ Become(ev, s)
        \/ ReceivedHello(s, ev) \/ ReceivedPasswordReply(s, ev)
        \/ ReceivedReplyHeader(s, ev)
        \/ ev = "UP" /\ socks' = [s EXCEPT !.state = "UP"]
    BY <2>1 DEF s
  <2>9. s.state \notin {"UP", "FREED"}
    BY <2>2, <2>7 DEF Receiving
  <2>10. CASE ReceivedHello(s, ev)
    BY <2>2, <2>3, <2>4, <2>9, <2>10 DEF ReceivedHello, Become, report_error
  <2>11. CASE ReceivedPasswordReply(s, ev)
    BY <2>2, <2>5, <2>9, <2>11 DEF ReceivedPasswordReply, Become, report_error
  <2>12. CASE ReceivedReplyHeader(s, ev)
    <3>1. ASSUME NEW a \in DOMAIN AddrLen,
                 Become(ev, start_receive([s EXCEPT !.atyp = a],
                                          "RECEIVED_REPLY_HEADER", AddrLen[a]))
          PROVE  ev = "NONE" /\ socks'.state = "RECEIVED_REPLY_HEADER"
      BY <2>6, <3>1, Zenon DEF Become
    <3>2. CASE report_error(ev, "ERROR")
      BY <2>2, <2>9, <3>2 DEF report_error
    <3>3. CASE \E a \in DOMAIN AddrLen :
                 Become(ev, start_receive([s EXCEPT !.atyp = a],
                                          "RECEIVED_REPLY_HEADER", AddrLen[a]))
      <4>1. ev = "NONE" /\ socks'.state = "RECEIVED_REPLY_HEADER"
        BY <3>1, <3>3
      <4>2. QED BY <2>2, <2>9, <4>1
    <3>4. QED BY <2>12, <3>2, <3>3 DEF ReceivedReplyHeader
  <2>13. CASE Become(ev, s)
    BY <2>2, <2>9, <2>13 DEF Become
  <2>14. CASE ev = "UP" /\ socks' = [s EXCEPT !.state = "UP"]
    BY <2>2, <2>9, <2>14
  <2>15. QED BY <2>8, <2>10, <2>11, <2>12, <2>13, <2>14
<1>5. CASE connection_handler(ev)
  BY <1>5 DEF connection_handler, report_error
<1>6. QED BY <1>2, <1>3, <1>4, <1>5 DEF SocksStep

\* The SOCKS side of a client fails or ends.
LEMMA SocksSideEnds ==
  ASSUME Good(t), t.live, ~t.socks_closed, NEW end \in {"eof", "error"},
         NEW fin \in BOOLEAN
  PROVE  LET d == client_free_socks([t EXCEPT !.socksEnd = end], fin)
         IN  Good(d) /\ d.socks_closed
<1> DEFINE c == [t EXCEPT !.socksEnd = end]
<1>1. /\ c \in ClientRec /\ c.live /\ ~c.refused /\ ~c.socks_closed /\ c.socksEnd = end
      /\ (c.client_closed <=> t.client_closed) /\ c.appEnd = t.appEnd
  BY DEF Good, ClientRec
<1>2. Counts(c) /\ SocksSide(c)
  BY DEF Good, ClientRec, Counts, SocksSide
<1>3. t.client_closed => c.appEnd # "open"
  BY <1>1 DEF Good, AppGone
<1>4. ~t.client_closed => AppOpen(c)
  BY DEF Good, ClientRec, AppOpen, Unsent
<1> HIDE DEF c
<1>5. QED BY <1>1, <1>2, <1>3, <1>4, SocksFreed DEF c

\* client_socks_handler: SOCKS came up, ended or failed.
LEMMA SocksReports ==
  ASSUME SocksInv, Good(t), SidesAgree, client_socks_handler
  PROVE  Good(t') /\ SocksInv' /\ SidesAgree'
<1>1. PICK ev \in Events, fin \in BOOLEAN : client_socks_handler!2!(ev, fin)
  BY DEF client_socks_handler
<1>2. t.live /\ ~t.socks_closed /\ SocksStep(ev)
  BY <1>1 DEF client_socks_handler
<1>3. SocksInv'
  BY <1>2, SocksStepInv
<1>4. ~t.socks_up
  BY <1>2, SocksEvents DEF SidesAgree
<1>5. CASE ev = "NONE" /\ UNCHANGED t
  BY <1>2, <1>3, <1>5, SocksEvents DEF SidesAgree
<1>6. CASE ev = "ERROR" /\ t' = client_free_socks([t EXCEPT !.socksEnd = "error"], fin)
  <2>1. Good(t') /\ t'.socks_closed
    BY <1>2, <1>6, SocksSideEnds
  <2>2. socks'.state = "FREED"
    BY <1>2, <1>6, SocksEvents DEF FreedClient, Client
  <2>3. QED BY <1>3, <2>1, <2>2 DEF SidesAgree
<1>7. CASE ev = "UP"
  <2> DEFINE c == [t EXCEPT !.socks_up = TRUE, !.recv_used = -1, !.pending = 0]
             d == IF c.buf_used > 0 THEN client_send_to_socks(c) ELSE c
  <2>1. t' = IF ~d.client_closed THEN client_socks_recv_initiate(d) ELSE d
    BY <1>1, <1>7
  <2>2. t \in ClientRec /\ ~t.refused /\ Counts(t) /\ SocksSide(t) /\ SocksEnd(t)
        /\ t.recv_used = -1 /\ t.pending = 0 /\ t.sending = 0
    BY <1>4 DEF Good, SocksSide
  <2>3. c = [t EXCEPT !.socks_up = TRUE]
    BY <2>2 DEF ClientRec
  <2>4. c \in ClientRec
    BY <2>2, <2>3 DEF ClientRec
  <2>5. /\ c.socks_up /\ c.live /\ ~c.socks_closed /\ ~c.refused
        /\ (c.client_closed <=> t.client_closed)
        /\ (c.waiting <=> t.waiting) /\ (c.recv_cb <=> t.recv_cb)
        /\ c.buf_used = t.buf_used /\ c.recv_used = -1
        /\ c.recv_sent = t.recv_sent /\ c.pending = 0 /\ c.sending = 0
    BY <1>2, <2>2, <2>3 DEF ClientRec
  <2>6. /\ c.unacked = t.unacked /\ c.rcv_wnd = t.rcv_wnd /\ c.pcb = t.pcb
        /\ c.up = t.up /\ c.toSocks = t.toSocks /\ c.down = t.down /\ c.acked = t.acked
        /\ c.appEnd = t.appEnd /\ c.socksEnd = t.socksEnd
    BY <2>2, <2>3 DEF ClientRec
  <2> HIDE DEF c
  <2>7. d = [c EXCEPT !.sending = c.buf_used]
    BY <2>2, <2>4, <2>5 DEF client_send_to_socks, ClientRec, Counts
  <2>8. /\ d \in ClientRec /\ d.sending = c.buf_used
        /\ d.socks_up /\ d.live /\ ~d.socks_closed /\ ~d.refused
        /\ (d.client_closed <=> c.client_closed)
        /\ (d.waiting <=> c.waiting) /\ (d.recv_cb <=> c.recv_cb)
        /\ d.buf_used = c.buf_used /\ d.recv_used = -1
        /\ d.recv_sent = c.recv_sent /\ d.pending = 0
    BY <2>4, <2>5, <2>7 DEF ClientRec
  <2>9. /\ d.unacked = c.unacked /\ d.rcv_wnd = c.rcv_wnd /\ d.pcb = c.pcb
        /\ d.up = c.up /\ d.toSocks = c.toSocks /\ d.down = c.down /\ d.acked = c.acked
        /\ d.appEnd = c.appEnd /\ d.socksEnd = c.socksEnd
    BY <2>4, <2>7 DEF ClientRec
  <2> HIDE DEF d
  <2>10. /\ t' \in ClientRec /\ (~t'.client_closed => t'.receiving)
         /\ t'.sending = t.buf_used
         /\ t'.socks_up /\ t'.live /\ ~t'.socks_closed /\ ~t'.refused
         /\ (t'.client_closed <=> t.client_closed)
         /\ (t'.waiting <=> t.waiting) /\ (t'.recv_cb <=> t.recv_cb)
         /\ t'.buf_used = t.buf_used /\ t'.recv_used = -1
         /\ t'.recv_sent = t.recv_sent /\ t'.pending = 0
    BY <2>1, <2>5, <2>8 DEF client_socks_recv_initiate, ClientRec
  <2>11. /\ t'.unacked = t.unacked /\ t'.rcv_wnd = t.rcv_wnd /\ t'.pcb = t.pcb
         /\ t'.up = t.up /\ t'.toSocks = t.toSocks /\ t'.down = t.down
         /\ t'.acked = t.acked /\ t'.appEnd = t.appEnd /\ t'.socksEnd = t.socksEnd
    BY <2>1, <2>6, <2>8, <2>9 DEF client_socks_recv_initiate, ClientRec
  <2>12. Counts(t') /\ SocksSide(t') /\ SocksEnd(t')
    BY <1>2, <2>2, <2>10, <2>11, SizeAssumption
       DEF Counts, SocksSide, SocksEnd, ClientRec
  <2>13. t'.client_closed => AppGone(t')
    BY <1>2, <2>10, <2>11 DEF Good, AppGone
  <2>14. ~t'.client_closed => AppOpen(t')
    BY <1>2, <2>2, <2>10, <2>11 DEF Good, AppOpen, Unsent
  <2>15. SidesAgree'
    BY <1>2, <1>7, <2>10, SocksEvents DEF SidesAgree
  <2>16. QED BY <1>3, <2>10, <2>12, <2>13, <2>14, <2>15 DEF Good, Ended
<1>8. QED BY <1>1, <1>5, <1>6, <1>7

\* The proxy took bytes of the buffer (client_socks_send_handler_done).
LEMMA SocksTakes ==
  ASSUME SocksInv, Good(t), SidesAgree, client_socks_send_handler_done
  PROVE  Good(t') /\ SocksInv' /\ SidesAgree'
<1>1. t \in ClientRec /\ ~t.refused /\ Counts(t) /\ SocksSide(t) /\ SocksEnd(t)
      /\ t.sending > 0 /\ KeepSocks
  BY DEF Good, client_socks_send_handler_done
<1>2. t.live /\ t.socks_up /\ ~t.socks_closed
  BY <1>1 DEF SocksSide
<1>3. PICK n \in 1..t.sending, fin \in BOOLEAN :
        client_socks_send_handler_done!2!(n, fin)
  BY DEF client_socks_send_handler_done
<1>4. n \in Int /\ n > 0 /\ n <= t.sending /\ t.sending <= t.buf_used
  BY <1>1, <1>3 DEF ClientRec, Counts
<1> DEFINE c == [t EXCEPT !.buf_used = @ - n, !.toSocks = @ + n, !.sending = 0]
           d == IF c.client_closed THEN c ELSE tcp_recved(c, n)
<1>5. t' = IF d.buf_used > 0 THEN client_send_to_socks(d)
           ELSE IF d.client_closed THEN client_free_socks(d, fin) ELSE d
  BY <1>3
<1>6. c \in ClientRec
  <2>1. t.buf_used - n \in Int /\ t.toSocks + n \in Int
    BY <1>1, <1>4 DEF ClientRec
  <2>2. ASSUME NEW i \in Int, NEW j \in Int
        PROVE  [t EXCEPT !.buf_used = i, !.toSocks = j] \in ClientRec
    BY <1>1 DEF ClientRec
  <2>3. ASSUME NEW x \in ClientRec PROVE [x EXCEPT !.sending = 0] \in ClientRec
    BY DEF ClientRec
  <2> DEFINE a == [t EXCEPT !.buf_used = t.buf_used - n, !.toSocks = t.toSocks + n]
  <2>4. c = [a EXCEPT !.sending = 0]
    BY <1>1 DEF ClientRec
  <2>5. a \in ClientRec
    BY <2>1, <2>2
  <2> HIDE DEF a, c
  <2>6. QED BY <2>3, <2>4, <2>5
<1>7. /\ c.buf_used = t.buf_used - n /\ c.toSocks = t.toSocks + n /\ c.sending = 0
      /\ (c.live <=> t.live) /\ (c.client_closed <=> t.client_closed)
      /\ (c.refused <=> t.refused) /\ (c.socks_up <=> t.socks_up)
      /\ (c.socks_closed <=> t.socks_closed)
      /\ (c.waiting <=> t.waiting) /\ (c.recv_cb <=> t.recv_cb)
      /\ (c.receiving <=> t.receiving)
  BY <1>1 DEF ClientRec
<1>8. /\ c.recv_used = t.recv_used /\ c.recv_sent = t.recv_sent
      /\ c.pending = t.pending /\ c.unacked = t.unacked
      /\ c.rcv_wnd = t.rcv_wnd /\ c.pcb = t.pcb /\ c.up = t.up
      /\ c.down = t.down /\ c.acked = t.acked
      /\ c.appEnd = t.appEnd /\ c.socksEnd = t.socksEnd
  BY <1>1 DEF ClientRec
<1> HIDE DEF c
<1>9. ~t.client_closed => t.rcv_wnd + n <= TCP_WND /\ AppOpen(t)
  BY <1>1, <1>2, <1>4, SizeAssumption DEF Good, AppOpen, ClientRec
<1>10. /\ d \in ClientRec
       /\ d.rcv_wnd = IF t.client_closed THEN t.rcv_wnd ELSE t.rcv_wnd + n
  BY <1>1, <1>4, <1>6, <1>7, <1>8, <1>9, SizeAssumption DEF tcp_recved, ClientRec
<1>11. /\ d.buf_used = c.buf_used /\ d.toSocks = c.toSocks /\ d.sending = 0
       /\ d.live /\ (d.client_closed <=> t.client_closed)
       /\ ~d.refused /\ d.socks_up /\ ~d.socks_closed
       /\ (d.waiting <=> t.waiting) /\ (d.recv_cb <=> t.recv_cb)
       /\ (d.receiving <=> t.receiving)
  BY <1>1, <1>2, <1>6, <1>7 DEF tcp_recved, ClientRec
<1>12. /\ d.recv_used = t.recv_used /\ d.recv_sent = t.recv_sent
       /\ d.pending = t.pending /\ d.unacked = t.unacked
       /\ d.pcb = t.pcb /\ d.up = t.up /\ d.down = t.down /\ d.acked = t.acked
       /\ d.appEnd = t.appEnd /\ d.socksEnd = t.socksEnd
  BY <1>6, <1>8 DEF tcp_recved, ClientRec
<1> HIDE DEF d
<1>13. Counts(d) /\ SocksEnd(d)
  BY <1>1, <1>2, <1>4, <1>7, <1>9, <1>10, <1>11, <1>12, SizeAssumption
     DEF Counts, SocksEnd, ClientRec
<1>14. ~d.client_closed => AppOpen(d)
  BY <1>1, <1>2, <1>4, <1>7, <1>9, <1>10, <1>11, <1>12, SizeAssumption
     DEF AppOpen, Unsent, ClientRec
<1>15. d.client_closed => d.appEnd # "open"
  BY <1>2, <1>11, <1>12 DEF Good, AppGone
<1>16. d.receiving => d.recv_used = -1
  BY <1>1, <1>11, <1>12 DEF SocksSide
<1>17. CASE d.buf_used > 0
  <2>1. t' = [d EXCEPT !.sending = d.buf_used]
    BY <1>5, <1>17 DEF client_send_to_socks
  <2>2. /\ t' \in ClientRec /\ t'.sending = d.buf_used /\ t'.buf_used = d.buf_used
        /\ t'.live /\ (t'.client_closed <=> d.client_closed) /\ ~t'.refused
        /\ t'.socks_up /\ ~t'.socks_closed /\ t'.appEnd = d.appEnd
        /\ (t'.receiving <=> d.receiving) /\ t'.recv_used = d.recv_used
    BY <1>10, <1>11, <2>1 DEF ClientRec
  <2>3. Counts(t') /\ SocksEnd(t')
    BY <1>10, <1>13, <1>17, <2>1 DEF ClientRec, Counts, SocksEnd
  <2>4. ~t'.client_closed => AppOpen(t')
    BY <1>10, <1>14, <2>1 DEF ClientRec, AppOpen, Unsent
  <2>5. SocksSide(t')
    BY <1>16, <1>17, <2>2 DEF SocksSide
  <2>6. Good(t')
    BY <1>15, <1>17, <2>2, <2>3, <2>4, <2>5 DEF Good, Ended, AppGone
  <2>7. QED BY <1>1, <1>2, <2>2, <2>6, KeepsAgreement DEF Keeps
<1>18. CASE ~(d.buf_used > 0)
  <2>1. d.buf_used = 0
    BY <1>10, <1>13, <1>18 DEF Counts, ClientRec
  <2>2. SocksSide(d)
    BY <1>11, <1>16, <2>1 DEF SocksSide
  <2>3. CASE d.client_closed
    <3>1. t' = client_free_socks(d, fin)
      BY <1>5, <1>18, <2>3
    <3>2. Good(t') /\ t'.socks_closed
      BY <1>10, <1>11, <1>13, <1>15, <2>1, <2>2, <2>3, <3>1, SocksFreed
    <3>3. QED BY <1>1, <3>2, KeepsAgreement DEF Keeps
  <2>4. CASE ~d.client_closed
    <3>1. t' = d
      BY <1>5, <1>18, <2>4
    <3>2. Good(t')
      BY <1>10, <1>11, <1>13, <1>14, <2>2, <2>4, <3>1 DEF Good, Ended
    <3>3. QED BY <1>1, <1>2, <1>11, <3>1, <3>2, KeepsAgreement DEF Keeps
  <2>5. QED BY <2>3, <2>4
<1>19. QED BY <1>17, <1>18

\* The proxy delivered bytes (client_socks_recv_handler_done).
LEMMA SocksDelivers ==
  ASSUME SocksInv, Good(t), SidesAgree, client_socks_recv_handler_done
  PROVE  Good(t') /\ SocksInv' /\ SidesAgree'
<1>1. t \in ClientRec /\ ~t.refused /\ Counts(t) /\ SocksSide(t) /\ SocksEnd(t)
      /\ t.receiving /\ KeepSocks
  BY DEF Good, client_socks_recv_handler_done
<1>2. t.live /\ t.socks_up /\ ~t.socks_closed /\ t.recv_used = -1
  BY <1>1 DEF SocksSide
<1>3. PICK n \in 1..Smaller(RecvBuf, MaxDown - t.down), mem, ok \in BOOLEAN :
        client_socks_recv_handler_done!2!(n, mem, ok)
  BY DEF client_socks_recv_handler_done
<1>4. n \in Int /\ n > 0 /\ n <= RecvBuf /\ t.down + n <= MaxDown
  BY <1>1, <1>3, SizeAssumption DEF ClientRec, Smaller
<1> DEFINE c == [t EXCEPT !.receiving = FALSE, !.down = @ + n]
           e == [c EXCEPT !.recv_used = n, !.recv_sent = 0, !.waiting = FALSE]
<1>5. t' = IF c.client_closed THEN c
           ELSE ContinueReceiving(client_socks_recv_send_out(e, mem, ok))
  BY <1>3
<1>6. c \in ClientRec
  <2>1. t.down + n \in Int
    BY <1>1, <1>4 DEF ClientRec
  <2>2. ASSUME NEW i \in Int
        PROVE  [t EXCEPT !.receiving = FALSE, !.down = i] \in ClientRec
    BY <1>1 DEF ClientRec
  <2>3. QED BY <2>1, <2>2
<1>7. /\ c.down = t.down + n /\ ~c.receiving
      /\ c.live /\ (c.client_closed <=> t.client_closed)
      /\ ~c.refused /\ c.socks_up /\ ~c.socks_closed /\ (c.recv_cb <=> t.recv_cb)
      /\ c.recv_used = t.recv_used /\ c.recv_sent = t.recv_sent
      /\ c.pending = t.pending /\ c.unacked = t.unacked
  BY <1>1, <1>2 DEF ClientRec
<1>8. /\ c.buf_used = t.buf_used /\ c.sending = t.sending
      /\ c.rcv_wnd = t.rcv_wnd /\ c.pcb = t.pcb
      /\ c.up = t.up /\ c.toSocks = t.toSocks /\ c.acked = t.acked
      /\ c.appEnd = t.appEnd /\ c.socksEnd = t.socksEnd
  BY <1>1 DEF ClientRec
<1> HIDE DEF c
<1>9. Counts(c) /\ SocksSide(c) /\ SocksEnd(c)
  BY <1>1, <1>2, <1>4, <1>7, <1>8, SizeAssumption DEF Counts, SocksSide, SocksEnd, ClientRec
<1>10. CASE c.client_closed
  <2>1. t' = c
    BY <1>5, <1>10
  <2>2. AppGone(c)
    BY <1>2, <1>7, <1>8, <1>10 DEF Good, AppGone
  <2>3. Good(t')
    BY <1>6, <1>7, <1>9, <1>10, <2>1, <2>2 DEF Good, Ended
  <2>4. QED BY <1>1, <1>2, <1>7, <2>1, <2>3, KeepsAgreement DEF Keeps
<1>11. CASE ~c.client_closed
  <2>1. t' = ContinueReceiving(client_socks_recv_send_out(e, mem, ok))
    BY <1>5, <1>11
  <2>2. e \in ClientRec
    <3>1. ASSUME NEW x \in ClientRec PROVE [x EXCEPT !.waiting = FALSE] \in ClientRec
      BY DEF ClientRec
    <3> DEFINE a == [c EXCEPT !.recv_used = n, !.recv_sent = 0]
    <3>2. a \in ClientRec
      <4>1. ASSUME NEW i \in Int, NEW j \in Int
            PROVE  [c EXCEPT !.recv_used = i, !.recv_sent = j] \in ClientRec
        BY <1>6 DEF ClientRec
      <4>2. 0 \in Int
        OBVIOUS
      <4>3. QED BY <1>4, <4>1, <4>2, Zenon
    <3>3. e = [a EXCEPT !.waiting = FALSE]
      BY <1>6 DEF ClientRec
    <3> HIDE DEF a, e
    <3>4. QED BY <3>1, <3>2, <3>3
  <2>3. /\ e.recv_used = n /\ e.recv_sent = 0
        /\ e.live /\ ~e.client_closed /\ ~e.refused /\ e.socks_up /\ ~e.socks_closed
        /\ (e.recv_cb <=> c.recv_cb) /\ ~e.receiving
        /\ e.down = c.down /\ e.pending = c.pending /\ e.unacked = c.unacked
    BY <1>6, <1>7, <1>11 DEF ClientRec
  <2>4. /\ e.buf_used = c.buf_used /\ e.sending = c.sending
        /\ e.rcv_wnd = c.rcv_wnd /\ e.pcb = c.pcb
        /\ e.up = c.up /\ e.toSocks = c.toSocks /\ e.acked = c.acked
        /\ e.appEnd = c.appEnd /\ e.socksEnd = c.socksEnd
    BY <1>6 DEF ClientRec
  <2> HIDE DEF e
  <2>5. Counts(e) /\ SocksSide(e) /\ SocksEnd(e)
    BY <1>4, <1>6, <1>7, <1>9, <2>3, <2>4, SizeAssumption
       DEF Counts, SocksSide, SocksEnd, ClientRec
  <2>6. AppOpen(t)
    BY <1>7, <1>11 DEF Good
  <2>7. HasData(e)
    BY <1>1, <1>2, <1>4, <1>7, <1>8, <2>2, <2>3, <2>4, <2>5, <2>6
       DEF HasData, AppOpen, Unsent, ClientRec
  <2>8. Good(t') /\ Keeps(e, t')
    BY <2>1, <2>7, SendOut
  <2>9. Keeps(t, t')
    BY <1>2, <2>3, <2>8 DEF Keeps
  <2>10. QED BY <1>1, <2>8, <2>9, KeepsAgreement
<1>12. QED BY <1>10, <1>11

\* The connection to the proxy ends or fails.
LEMMA SocksLost ==
  ASSUME SocksInv, Good(t), SidesAgree, SocksConnectionLost
  PROVE  Good(t') /\ SocksInv' /\ SidesAgree'
<1>1. PICK end \in {"eof", "error"}, fin \in BOOLEAN : SocksConnectionLost!(end, fin)
  BY DEF SocksConnectionLost
<1>2. t.live /\ ~t.socks_closed
  BY <1>1 DEF Good, SocksSide
<1>3. Good(t') /\ t'.socks_closed
  BY <1>1, <1>2, SocksSideEnds
<1>4. QED BY <1>1, <1>3, KeepsAgreement DEF Keeps

\* client_murder ends both sides.
LEMMA Murdered ==
  ASSUME SocksInv, Good(t), SidesAgree, client_murder
  PROVE  Good(t') /\ SocksInv' /\ SidesAgree'
<1> DEFINE p == IF t.client_closed THEN t.pcb ELSE "FREE"
           x == IF t.client_closed THEN t.appEnd ELSE "aborted"
           y == IF t.socks_closed THEN t.socksEnd ELSE "error"
           c == [t EXCEPT !.pcb = p, !.appEnd = x, !.socksEnd = y,
                          !.client_closed = TRUE, !.recv_cb = FALSE]
           f == FreeSocks(c)
<1>1. t \in ClientRec /\ t.live /\ ~t.refused /\ Counts(t) /\ SocksSide(t) /\ SocksEnd(t)
      /\ KeepSocks
  BY DEF Good, client_murder
<1>2. t' = client_dealloc(f)
  BY <1>1 DEF client_murder, ClientRec
<1>3. /\ p \in PcbStates /\ x \in {"open", "fin", "reset", "aborted"} /\ x # "open"
      /\ y \in {"eof", "error"}
  <2>1. t.client_closed => t.appEnd # "open"
    BY <1>1 DEF Good, AppGone
  <2>2. t.socks_closed => t.socksEnd # "open"
    BY <1>1 DEF SocksEnd
  <2>3. QED BY <1>1, <2>1, <2>2 DEF ClientRec, PcbStates
<1> HIDE DEF p, x, y
<1>4. c \in ClientRec
  <2> DEFINE a == [t EXCEPT !.pcb = p, !.appEnd = x]
             b == [a EXCEPT !.socksEnd = y]
  <2>1. a \in ClientRec
    BY <1>1, <1>3 DEF ClientRec
  <2>2. c = [b EXCEPT !.client_closed = TRUE, !.recv_cb = FALSE]
    BY <1>1 DEF ClientRec
  <2> HIDE DEF a, c
  <2>3. b \in ClientRec
    BY <1>3, <2>1 DEF ClientRec
  <2> HIDE DEF b
  <2>4. QED BY <2>2, <2>3 DEF ClientRec
<1>5. /\ c.client_closed /\ ~c.refused /\ c.appEnd = x /\ c.socksEnd = y
      /\ (c.socks_up <=> t.socks_up) /\ c.buf_used = t.buf_used
      /\ c.recv_used = t.recv_used /\ c.recv_sent = t.recv_sent
      /\ c.pending = t.pending /\ c.unacked = t.unacked
  BY <1>1 DEF ClientRec
<1>6. /\ c.rcv_wnd = t.rcv_wnd /\ c.up = t.up /\ c.toSocks = t.toSocks
      /\ c.down = t.down /\ c.acked = t.acked
  BY <1>1 DEF ClientRec
<1> HIDE DEF c
<1>7. /\ f \in ClientRec /\ f.client_closed /\ f.socks_closed /\ ~f.refused
      /\ f.sending = 0 /\ ~f.receiving /\ (f.socks_up <=> t.socks_up)
      /\ f.buf_used = t.buf_used /\ f.recv_used = t.recv_used /\ f.recv_sent = t.recv_sent
      /\ f.pending = t.pending /\ f.unacked = t.unacked /\ f.rcv_wnd = t.rcv_wnd
      /\ f.up = t.up /\ f.toSocks = t.toSocks /\ f.down = t.down /\ f.acked = t.acked
      /\ f.appEnd = x /\ f.socksEnd = y
  BY <1>4, <1>5, <1>6, FreeSocksFields
<1> HIDE DEF f
<1>8. Counts(f) /\ SocksSide(f)
  BY <1>1, <1>3, <1>7 DEF Counts, SocksSide, ClientRec
<1>9. Good(t') /\ t'.socks_closed
  BY <1>2, <1>3, <1>7, <1>8, Deallocated
<1>10. QED BY <1>1, <1>9, KeepsAgreement DEF Keeps

\* tun2socks starts without a flow.
LEMMA TcpInvInit == Init => TcpInv
<1> SUFFICES ASSUME Init PROVE TcpInv
  OBVIOUS
<1>1. socks = Client("FREED", FALSE) /\ t = NoClient
  BY DEF Init, FreedClient
<1>2. SocksInv
  BY <1>1 DEF SocksInv, SocksTypeOK, TakenExact, Client, States, AuthMethods
<1>3. t = [live |-> FALSE, client_closed |-> TRUE, buf_used |-> 0,
           socks_up |-> FALSE, socks_closed |-> TRUE,
           recv_used |-> -1, recv_sent |-> 0, waiting |-> FALSE, pending |-> 0,
           pcb |-> "FREE", recv_cb |-> FALSE, rcv_wnd |-> TCP_WND,
           unacked |-> 0, refused |-> FALSE, sending |-> 0, receiving |-> FALSE,
           up |-> 0, toSocks |-> 0, down |-> 0, acked |-> 0,
           appEnd |-> "open", socksEnd |-> "open"]
  BY <1>1 DEF NoClient, NewClient
<1>4. t \in ClientRec
  BY <1>3, SizeAssumption DEF ClientRec, PcbStates
<1>5. Counts(t) /\ SocksSide(t) /\ SocksEnd(t) /\ Ended(t) /\ AppGone(t)
  BY <1>3, SizeAssumption DEF Counts, SocksSide, SocksEnd, Ended, AppGone
<1>6. ~t.refused /\ t.client_closed /\ t.socks_closed
  BY <1>3
<1>7. socks.state = "FREED"
  BY <1>1 DEF Client
<1>8. QED BY <1>2, <1>4, <1>5, <1>6, <1>7 DEF Init, TcpInv, Good, SidesAgree

\* No event, callback or job breaks the books of a flow.
LEMMA TcpInvStep == TcpInv /\ [Next]_vars => TcpInv'
<1> SUFFICES ASSUME TcpInv, [Next]_vars PROVE TcpInv'
  OBVIOUS
<1>1. SocksInv /\ Good(t) /\ SidesAgree
  BY DEF TcpInv
<1>2. Good(t') /\ SocksInv' /\ SidesAgree'
  <2>1. CASE \/ CallbackReturn \/ UNCHANGED vars
             \/ \E end \in {"app", "proxy"} : FallSilent(end)
    BY <1>1, <2>1
       DEF CallbackReturn, FallSilent, vars, SocksInv, SocksTypeOK, SidesAgree
  <2>2. QED
    BY <1>1, <2>1, Accepts, AppSends, AppEnds, AppAcks, SocksReports, SocksTakes,
       SocksDelivers, SocksLost, Murdered DEF Next
<1>3. cb' \in {"none", "accept", "recv", "sent"} /\ ret' \in {"ERR_OK", "ERR_ABRT"}
  <2>1. cb \in {"none", "accept", "recv", "sent"} /\ ret \in {"ERR_OK", "ERR_ABRT"}
    BY DEF TcpInv
  <2>2. \A killed : CallbackResult(killed) \in {"ERR_OK", "ERR_ABRT"}
    BY DEF CallbackResult
  <2>3. CASE listener_accept_func \/ client_err_func \/ CallbackReturn \/ client_murder
    BY <2>1, <2>2, <2>3
       DEF listener_accept_func, client_err_func, CallbackReturn, client_murder
  <2>4. CASE client_recv_func \/ client_recv_func_closed
    BY <2>1, <2>2, <2>4 DEF client_recv_func, client_recv_func_closed
  <2>5. CASE client_sent_func
    BY <2>1, <2>2, <2>5 DEF client_sent_func
  <2>6. CASE \/ client_socks_handler \/ client_socks_send_handler_done
             \/ client_socks_recv_handler_done \/ SocksConnectionLost
    <3>1. UNCHANGED <<cb, ret>>
      BY <2>6 DEF client_socks_handler, client_socks_send_handler_done,
         client_socks_recv_handler_done, SocksConnectionLost
    <3>2. QED BY <2>1, <3>1
  <2>7. CASE UNCHANGED vars \/ \E end \in {"app", "proxy"} : FallSilent(end)
    BY <2>1, <2>7 DEF vars, FallSilent
  <2>8. QED BY <2>3, <2>4, <2>5, <2>6, <2>7 DEF Next
<1>4. silent' \subseteq {"app", "proxy"}
  <2>1. silent \subseteq {"app", "proxy"}
    BY DEF TcpInv
  <2>2. silent' = silent \/ silent' = {}
        \/ \E end \in {"app", "proxy"} : silent' = silent \cup {end}
    BY DEF Next, vars, listener_accept_func, client_recv_func,
       client_recv_func_closed, client_sent_func, client_err_func, CallbackReturn,
       client_socks_handler, client_socks_send_handler_done,
       client_socks_recv_handler_done, SocksConnectionLost, client_murder, FallSilent
  <2>3. QED BY <2>1, <2>2
<1>5. QED BY <1>2, <1>3, <1>4 DEF TcpInv, Good

\* The SOCKS client of any flow consumes the proxy's side of the handshake to
\* the byte, in whatever pieces it comes and whatever methods are offered.
THEOREM HandshakeExactAlways == Spec => []HandshakeExact
<1>1. TcpInv => HandshakeExact
  BY SocksInvExact DEF TcpInv
<1>2. QED BY <1>1, TcpInvInit, TcpInvStep, PTL DEF Spec

\* For any window and buffer sizes, tun2socks's books on a flow agree with
\* lwIP's: "no buffer for data" cannot happen (client_recv_func), and no
\* acknowledgement exceeds what is pending (client_sent_func).
THEOREM BooksAgreeAlways == Spec => []BooksAgree
<1>1. TcpInv => BooksAgree
  BY DEF TcpInv, Good, AppOpen, BooksAgree
<1>2. QED BY <1>1, TcpInvInit, TcpInvStep, PTL DEF Spec

\* In no reachable state does a direction of a flow wait for nothing, and no
\* operation outlives the side it runs on.
THEOREM NoStallAlways == Spec => []NoStall
<1>1. ASSUME TcpInv PROVE NoStall
  <2>1. t \in ClientRec /\ Counts(t) /\ SocksSide(t)
        /\ IF t.client_closed THEN AppGone(t) ELSE AppOpen(t)
    BY <1>1 DEF TcpInv, Good
  <2>2. t.sending > 0 => t.live /\ t.socks_up /\ ~t.socks_closed
    BY <2>1 DEF SocksSide
  <2>3. t.receiving => t.live /\ t.socks_up /\ ~t.socks_closed /\ t.recv_used = -1
    BY <2>1 DEF SocksSide
  <2>4. QED BY <2>1, <2>2, <2>3 DEF NoStall, SocksSide, AppOpen
<1>2. QED BY <1>1, TcpInvInit, TcpInvStep, PTL DEF Spec

\* An orderly end of either side loses no byte of the other's, whatever happens
\* first and however much is buffered (client_handle_freed_client,
\* client_free_socks).
THEOREM OrderlyEndAlways == Spec => []OrderlyEndDelivers
<1>1. TcpInv => OrderlyEndDelivers
  BY DEF TcpInv, Good, Ended, OrderlyEndDelivers
<1>2. QED BY <1>1, TcpInvInit, TcpInvStep, PTL DEF Spec

\* A callback that returns ERR_OK leaves lwIP a pcb that still exists, whatever
\* the jobs it ran did to the client.
THEOREM ReturnsLive == Spec => ReturnsLivePcb
<1>1. ASSUME TcpInv, [Next]_vars, cb # "none", cb' = "none", ret' = "ERR_OK"
      PROVE  t.live /\ t.pcb \in {"ESTABLISHED", "CLOSE_WAIT"}
  <2>1. CallbackReturn
    <3>1. ~FromLwip
      BY <1>1 DEF FromLwip
    <3>2. QED
      BY <1>1, <3>1 DEF Next, vars, listener_accept_func, client_recv_func,
         client_recv_func_closed, client_sent_func, client_err_func,
         client_socks_handler, client_socks_send_handler_done,
         client_socks_recv_handler_done, SocksConnectionLost, client_murder,
         FallSilent
  <2>2. ~t.client_closed
    BY <1>1, <2>1 DEF CallbackReturn, CallbackResult
  <2>3. QED BY <1>1, <2>2 DEF TcpInv, Good, AppOpen
<1>2. TcpInv /\ [Next]_vars =>
        [cb # "none" /\ cb' = "none" /\ ret' = "ERR_OK" =>
           t.live /\ t.pcb \in {"ESTABLISHED", "CLOSE_WAIT"}]_vars
  BY <1>1
<1>3. QED
  BY <1>2, TcpInvInit, TcpInvStep, PTL DEF Spec, ReturnsLivePcb

\* Every counter of a flow stays within the buffer or window it counts.
THEOREM TcpTypeCorrect == Spec => []TypeOK
<1>1. ASSUME TcpInv PROVE TypeOK
  <2>1. t \in ClientRec /\ Counts(t)
    BY <1>1 DEF TcpInv, Good
  <2>2. /\ t.buf_used \in 0..TCP_WND /\ t.recv_used \in -1..RecvBuf
        /\ t.recv_sent \in 0..RecvBuf /\ t.pending \in 0..TCP_SND_BUF
        /\ t.rcv_wnd \in 0..TCP_WND /\ t.unacked \in 0..TCP_SND_BUF
        /\ t.sending \in 0..TCP_WND
        /\ t.up \in 0..MaxUp /\ t.toSocks \in 0..MaxUp
        /\ t.down \in 0..MaxDown /\ t.acked \in 0..MaxDown
    BY <2>1, SizeAssumption DEF Counts, ClientRec
  <2>3. QED
    BY <1>1, <2>1, <2>2 DEF TypeOK, TcpInv, SocksInv, ClientRec
<1>2. QED BY <1>1, TcpInvInit, TcpInvStep, PTL DEF Spec
=============================================================================
