------------------------------- MODULE UdpGw --------------------------------
(***************************************************************************)
(* UDP through tun2socks: the udpgw client in the app (UdpGwClient.c), the *)
(* SOCKS connection that carries it (SocksUdpGwClient.c), and the gateway  *)
(* at the far end (udpgw.c).  A connection is a (local, remote) pair that  *)
(* owns a conid; when all conids are taken the least recently used one is  *)
(* given to the new pair and the gateway is told by the flag REBIND.       *)
(*                                                                         *)
(* A datagram's payload is the pair it was sent for.  Keepalives, the DNS  *)
(* flag and IPv6 are left out; a gateway that timed out or failed is a     *)
(* session lost.                                                           *)
(***************************************************************************)
EXTENDS Naturals, FiniteSets, SequencesExt

CONSTANTS
    Locals, Remotes,            \* addresses of the device's sockets and of peers
    max_connections,            \* conids of the client
    max_connections_for_client, \* connections of the gateway
    send_buffer_size,           \* packets a client connection buffers
    CONNECTION_CLIENT_BUFFER_SIZE,  \* packets a gateway connection buffers
    Wire,                       \* bound: packets in each direction of the stream
    MaxSends,                   \* bound: datagrams of the device
    MaxLosses                   \* bound: failures

ASSUME UdpGwAssumption ==
    /\ max_connections \in Nat \ {0} /\ max_connections_for_client \in Nat \ {0}
    /\ send_buffer_size \in Nat \ {0} /\ CONNECTION_CLIENT_BUFFER_SIZE \in Nat \ {0}
    /\ Wire \in Nat \ {0} /\ MaxSends \in Nat /\ MaxLosses \in Nat

Conids == 0 .. (max_connections - 1)
Pair == [local : Locals, remote : Remotes]

VARIABLES
    cons,       \* the client's connections, least recently used first
    next_conid,
    cbuf,       \* packets each conid's flow holds for the gateway
    data,       \* the device's read buffer
    jobs,       \* pending jobs of the reactor, next one first
    have_socks, socks_up, reconnect_timer, have_server,
    silent,     \* the proxy may never answer the handshake under way
    alive,      \* the gateway holds this session
    up, down,   \* packets in the stream, to and from the gateway
    scons,      \* the gateway's connections, least recently used first
    closing,    \* its connections that still have packets to send
    sends, losses,
    reassigned, \* history: conids taken from one pair and given to another
    unsent,     \* history: conids a packet was dropped for
    crossed     \* history: conids that delivered an answer to another socket

client == <<cons, next_conid, cbuf, unsent>>
device == <<data, jobs, sends>>
link == <<have_socks, socks_up, reconnect_timer, have_server, silent, losses>>
gateway == <<alive, scons, closing>>
vars == <<client, device, link, gateway, up, down, reassigned, crossed>>

Init ==
    /\ cons = <<>> /\ next_conid = 0 /\ cbuf = [id \in Conids |-> <<>>]
    /\ data = (CHOOSE p \in Pair : TRUE) /\ jobs = <<>>
    /\ have_socks = TRUE /\ socks_up = FALSE /\ reconnect_timer = FALSE
    /\ have_server = FALSE /\ silent = FALSE /\ alive = FALSE
    /\ up = <<>> /\ down = <<>> /\ scons = <<>> /\ closing = {}
    /\ sends = 0 /\ losses = 0
    /\ reassigned = {} /\ unsent = {} /\ crossed = {}

Ids(s) == {s[k].conid : k \in DOMAIN s}
IndexOf(s, id) == CHOOSE k \in DOMAIN s : s[k].conid = id
ToFront(s, k) == Append(RemoveAt(s, k), s[k])
-----------------------------------------------------------------------------
(* The client. *)

\* The conid the search stops at: the first unused one from next_conid on.
find_unused_conid ==
    LET free == Conids \ Ids(cons)
        from == {id \in free : id >= next_conid}
        Least(S) == CHOOSE id \in S : \A other \in S : id <= other
    IN  IF from # {} THEN Least(from) ELSE Least(free)

\* Dropped when the connection's buffer is full.
connection_send(con, rebind, payload) ==
    IF Len(cbuf[con.conid]) >= send_buffer_size
    THEN unsent' = unsent \cup {con.conid} /\ UNCHANGED cbuf
    ELSE /\ cbuf' = [cbuf EXCEPT ![con.conid] = Append(@,
                       [conid |-> con.conid, rebind |-> rebind,
                        remote |-> con.remote, payload |-> payload])]
         /\ UNCHANGED unsent

\* Mutant of BPending_Set: jobs run in the order they were set.
BPending_SetFifo(group, job) == Append(group, job)

BPending_Set(group, job) == <<job>> \o group

\* The device's packet is accepted first (PacketPassInterface_Done).
Accepted == BPending_Set(jobs, [job |-> "read"])

\* The buffer is free again once the job that returns it has run.
Read(l, r) ==
    /\ sends < MaxSends /\ sends' = sends + 1
    /\ [job |-> "read"] \notin ToSet(jobs)
    /\ data' = [local |-> l, remote |-> r]

\* A known pair.
SubmitKnown(l, r) ==
    \E k \in DOMAIN cons :
       /\ cons[k].local = l /\ cons[k].remote = r
       /\ Read(l, r) /\ jobs' = Accepted
       /\ cons' = ToFront(cons, k)
       /\ connection_send(cons[k], FALSE, data')
       /\ UNCHANGED <<next_conid, link, gateway, up, down, reassigned, crossed>>

Unknown(l, r) == ~\E k \in DOMAIN cons : cons[k].local = l /\ cons[k].remote = r

\* connection_init: the packet is sent by a job, from the device's buffer.
connection_init(l, r) ==
    /\ Unknown(l, r) /\ Len(cons) < max_connections
    /\ Read(l, r)
    /\ LET id == find_unused_conid IN
       /\ cons' = Append(cons, [conid |-> id, local |-> l, remote |-> r])
       /\ next_conid' = id
       /\ jobs' = BPending_Set(Accepted, [job |-> "first", conid |-> id])
    /\ UNCHANGED <<cbuf, unsent, link, gateway, up, down, reassigned, crossed>>

\* malloc failed.
connection_init_failed(l, r) ==
    /\ Unknown(l, r) /\ Len(cons) < max_connections
    /\ losses < MaxLosses /\ losses' = losses + 1
    /\ Read(l, r) /\ jobs' = Accepted
    /\ UNCHANGED <<client, have_socks, socks_up, reconnect_timer, have_server, silent,
                   gateway, up, down, reassigned, crossed>>

\* Mutant of reuse_connection: the gateway is not told.
reuse_connectionSilent(l, r) ==
    /\ Unknown(l, r) /\ Len(cons) = max_connections
    /\ Read(l, r) /\ jobs' = Accepted
    /\ LET con == [Head(cons) EXCEPT !.local = l, !.remote = r] IN
       /\ cons' = Append(Tail(cons), con)
       /\ reassigned' = reassigned \cup {con.conid}
       /\ connection_send(con, FALSE, data')
    /\ UNCHANGED <<next_conid, link, gateway, up, down, crossed>>

\* Mutant of reuse_connection: the pair is recorded, its packet not sent.
reuse_connectionNoSend(l, r) ==
    /\ Unknown(l, r) /\ Len(cons) = max_connections
    /\ Read(l, r) /\ jobs' = Accepted
    /\ LET con == [Head(cons) EXCEPT !.local = l, !.remote = r] IN
       /\ cons' = Append(Tail(cons), con)
       /\ reassigned' = reassigned \cup {con.conid}
    /\ UNCHANGED <<next_conid, cbuf, unsent, link, gateway, up, down, crossed>>

reuse_connection(l, r) ==
    /\ Unknown(l, r) /\ Len(cons) = max_connections
    /\ Read(l, r) /\ jobs' = Accepted
    /\ LET con == [Head(cons) EXCEPT !.local = l, !.remote = r] IN
       /\ cons' = Append(Tail(cons), con)
       /\ reassigned' = reassigned \cup {con.conid}
       /\ connection_send(con, TRUE, data')
    /\ UNCHANGED <<next_conid, link, gateway, up, down, crossed>>

\* A new connection's first packet, from what the buffer holds now.
connection_first_job_handler ==
    /\ jobs # <<>> /\ Head(jobs).job = "first" /\ jobs' = Tail(jobs)
    /\ connection_send(cons[IndexOf(cons, Head(jobs).conid)], TRUE, data)
    /\ UNCHANGED <<cons, next_conid, data, sends, link, gateway, up, down,
                   reassigned, crossed>>

ReadDone ==
    /\ jobs # <<>> /\ Head(jobs).job = "read" /\ jobs' = Tail(jobs)
    /\ UNCHANGED <<client, data, sends, link, gateway, up, down, reassigned, crossed>>

\* The fair queue hands some flow's packet to the stream.
SendPacket(id) ==
    /\ jobs = <<>> /\ have_server /\ cbuf[id] # <<>>
    /\ IF alive THEN Len(up) < Wire /\ up' = Append(up, Head(cbuf[id]))
       ELSE UNCHANGED up
    /\ cbuf' = [cbuf EXCEPT ![id] = Tail(@)]
    /\ UNCHANGED <<cons, next_conid, unsent, device, link, gateway, down,
                   reassigned, crossed>>

\* Mutant of Deliverable: the address the gateway names is not compared.
DeliverableAny(p, con) == con.conid = p.conid

Deliverable(p, con) == con.conid = p.conid /\ con.remote = p.remote

recv_interface_handler_send ==
    /\ jobs = <<>> /\ have_server /\ down # <<>> /\ down' = Tail(down)
    /\ LET p == Head(down)
           match == {k \in DOMAIN cons : Deliverable(p, cons[k])}
       IN  IF match = {} THEN UNCHANGED <<cons, crossed>>
           ELSE \E k \in match :
                  /\ cons' = ToFront(cons, k)
                  /\ crossed' = IF p.payload = [local |-> cons[k].local,
                                                remote |-> cons[k].remote]
                                THEN crossed
                                ELSE crossed \cup {[conid |-> p.conid, of |-> p.payload,
                                                    remote |-> cons[k].remote]}
    /\ UNCHANGED <<next_conid, cbuf, unsent, device, link, gateway, up, reassigned>>
-----------------------------------------------------------------------------
(* The SOCKS connection. *)

Reconnect == have_socks' = FALSE /\ reconnect_timer' = TRUE

\* free_socks; socks_up keeps its value until the next attempt.
free_socks ==
    /\ IF socks_up THEN have_server' = FALSE /\ up' = <<>> /\ down' = <<>>
                        /\ alive' = FALSE /\ scons' = <<>> /\ closing' = {}
       ELSE UNCHANGED <<have_server, up, down, gateway>>
    /\ UNCHANGED socks_up

\* Mutant of reconnect_timer_handler: it believes the flag of the connection
\* that was freed.
reconnect_timer_handlerIfDown ==
    /\ jobs = <<>> /\ reconnect_timer /\ ~socks_up
    /\ have_socks' = TRUE /\ reconnect_timer' = FALSE /\ silent' = FALSE
    /\ UNCHANGED <<client, device, socks_up, losses, have_server, gateway, up, down,
                   reassigned, crossed>>

reconnect_timer_handler ==
    /\ jobs = <<>> /\ reconnect_timer
    /\ \/ have_socks' = TRUE /\ socks_up' = FALSE /\ reconnect_timer' = FALSE
          /\ silent' = FALSE /\ UNCHANGED losses
       \/ losses < MaxLosses /\ losses' = losses + 1   \* BSocksClient_Init failed
          /\ UNCHANGED <<have_socks, socks_up, reconnect_timer, silent>>
    /\ UNCHANGED <<client, device, have_server, gateway, up, down, reassigned, crossed>>

SocksUp ==
    /\ jobs = <<>> /\ have_socks /\ ~socks_up
    /\ socks_up' = TRUE /\ have_server' = TRUE /\ alive' = TRUE
    /\ UNCHANGED <<client, device, have_socks, reconnect_timer, silent, losses, scons,
                   closing, up, down, reassigned, crossed>>

\* A proxy that has accepted the connection may leave the handshake unanswered;
\* BSocksClient has no timer.
FallSilent ==
    /\ jobs = <<>> /\ have_socks /\ ~socks_up /\ ~silent
    /\ silent' = TRUE
    /\ UNCHANGED <<client, device, have_socks, socks_up, reconnect_timer, have_server,
                   losses, gateway, up, down, reassigned, crossed>>

\* An error event, a bad packet, or no memory to connect the client.
SocksError ==
    /\ jobs = <<>> /\ have_socks /\ losses < MaxLosses /\ losses' = losses + 1
    /\ Reconnect /\ free_socks
    /\ UNCHANGED <<client, device, silent, reassigned, crossed>>

\* The gateway gave the session up; what it sent before may still arrive.
SocksClosed ==
    /\ jobs = <<>> /\ have_server /\ ~alive /\ down = <<>>
    /\ Reconnect /\ free_socks
    /\ UNCHANGED <<client, device, silent, losses, reassigned, crossed>>
-----------------------------------------------------------------------------
(* The gateway. *)

\* Freed at once if nothing of it is being sent.  The code frees it with the
\* packet under way, if any, and drops the others; which flow the fair queue is
\* sending is not kept here, so all that is buffered may still be sent.
connection_close(S, k) ==
    [scons |-> RemoveAt(S.scons, k),
     closing |-> IF S.scons[k].buf = <<>> THEN S.closing
                 ELSE S.closing \cup {S.scons[k]}]

Rebinds(p, con) == p.rebind \/ con.orig # p.remote

client_recv_if_handler_send ==
    /\ alive /\ up # <<>> /\ up' = Tail(up)
    /\ LET p == Head(up)
           G == [scons |-> scons, closing |-> closing]
           known == p.conid \in Ids(scons)
           k == IndexOf(scons, p.conid)
           C == IF known THEN connection_close(G, k) ELSE G
           R == IF Len(C.scons) = max_connections_for_client
                THEN connection_close(C, 1) ELSE C
       IN  IF known /\ ~Rebinds(p, scons[k])
           THEN /\ scons' = ToFront([scons EXCEPT ![k].asked = @ \cup {p.payload}], k)
                /\ UNCHANGED closing
           ELSE /\ scons' = Append(R.scons, [conid |-> p.conid, orig |-> p.remote,
                                             asked |-> {p.payload}, buf |-> <<>>])
                /\ closing' = R.closing
    /\ UNCHANGED <<client, device, link, alive, down, reassigned, crossed>>

\* The peer answers one of the datagrams sent from this connection's socket.
connection_udp_recv_if_handler_send(k) ==
    /\ alive /\ k \in DOMAIN scons
    /\ \E payload \in scons[k].asked :
          LET reply == [conid |-> scons[k].conid, remote |-> scons[k].orig,
                        payload |-> payload]
          IN  scons' = ToFront([scons EXCEPT ![k].buf =
                          IF Len(@) < CONNECTION_CLIENT_BUFFER_SIZE
                          THEN Append(@, reply) ELSE @], k)
    /\ UNCHANGED <<client, device, link, alive, closing, up, down, reassigned, crossed>>

\* The socket failed.
connection_dgram_handler_event(k) ==
    /\ alive /\ k \in DOMAIN scons
    /\ losses < MaxLosses /\ losses' = losses + 1
    /\ LET C == connection_close([scons |-> scons, closing |-> closing], k) IN
       scons' = C.scons /\ closing' = C.closing
    /\ UNCHANGED <<client, device, have_socks, socks_up, reconnect_timer, have_server,
                   silent, alive, up, down, reassigned, crossed>>

SendReply(k) ==
    /\ alive /\ k \in DOMAIN scons /\ scons[k].buf # <<>> /\ Len(down) < Wire
    /\ down' = Append(down, Head(scons[k].buf))
    /\ scons' = [scons EXCEPT ![k].buf = Tail(@)]
    /\ UNCHANGED <<client, device, link, alive, closing, up, reassigned, crossed>>

\* A packet of a closing connection, which is freed with its last one.
connection_send_qflow_busy_handler ==
    /\ alive /\ Len(down) < Wire
    /\ \E con \in closing :
          /\ con.buf # <<>>
          /\ down' = Append(down, Head(con.buf))
          /\ closing' = (closing \ {con}) \cup
                (IF Len(con.buf) = 1 THEN {} ELSE {[con EXCEPT !.buf = Tail(@)]})
    /\ UNCHANGED <<client, device, link, alive, scons, up, reassigned, crossed>>

\* Timed out, closed or failed: client_free.
client_free ==
    /\ alive /\ losses < MaxLosses /\ losses' = losses + 1
    /\ alive' = FALSE /\ scons' = <<>> /\ closing' = {} /\ up' = <<>>
    /\ UNCHANGED <<client, device, have_socks, socks_up, reconnect_timer, have_server,
                   silent, down, reassigned, crossed>>
-----------------------------------------------------------------------------
ClientStep == connection_first_job_handler \/ ReadDone \/ recv_interface_handler_send
              \/ \E id \in Conids : SendPacket(id)
SocksStep == reconnect_timer_handler \/ SocksUp \/ FallSilent \/ SocksClosed
GatewayStep == \/ client_recv_if_handler_send \/ connection_send_qflow_busy_handler
               \/ \E k \in 1..max_connections_for_client : SendReply(k)

Next ==
    \/ \E l \in Locals, r \in Remotes :
          SubmitKnown(l, r) \/ connection_init(l, r) \/ connection_init_failed(l, r)
          \/ reuse_connection(l, r)
    \/ ClientStep \/ SocksStep \/ SocksError \/ GatewayStep \/ client_free
    \/ \E k \in 1..max_connections_for_client :
          connection_udp_recv_if_handler_send(k) \/ connection_dgram_handler_event(k)

Spec == Init /\ [][Next]_vars

\* Jobs run, sockets with data are served and the timer fires.  An attempt that
\* a proxy neither answers nor drops has no such promise.
Fairness ==
    /\ WF_vars(connection_first_job_handler \/ ReadDone)
    /\ WF_vars(recv_interface_handler_send) /\ SF_vars(~silent /\ SocksUp)
    /\ WF_vars(SocksClosed) /\ SF_vars(reconnect_timer_handler)

FairSpec == Spec /\ Fairness
-----------------------------------------------------------------------------
Packet == [conid : Conids, rebind : BOOLEAN, remote : Remotes, payload : Pair]
Reply == [conid : Conids, remote : Remotes, payload : Pair]

(* Connections and buffers stay within their limits and conids are not     *)
(* given twice, in the client and in the gateway.                          *)
TypeOK ==
    /\ \A k \in DOMAIN cons : cons[k] \in [conid : Conids, local : Locals, remote : Remotes]
    /\ Len(cons) <= max_connections /\ Cardinality(Ids(cons)) = Len(cons)
    /\ next_conid \in Conids
    /\ \A id \in Conids : Len(cbuf[id]) <= send_buffer_size /\ ToSet(cbuf[id]) \subseteq Packet
    /\ ToSet(up) \subseteq Packet /\ ToSet(down) \subseteq Reply
    /\ Len(scons) <= max_connections_for_client /\ Cardinality(Ids(scons)) = Len(scons)

(* A packet carries the datagram its header is about: a new connection's   *)
(* first packet is taken from the device's buffer after the handler        *)
(* returned, and the buffer has not been reused by then.                   *)
FirstDataIntact ==
    \A p \in ToSet(up) \cup UNION {ToSet(cbuf[id]) : id \in Conids} : p.remote = p.payload.remote

(* Two pairs never share a socket of the gateway, so that a peer can tell  *)
(* them apart, unless a packet of their conid had to be dropped.           *)
PrivateSocket ==
    \A k \in DOMAIN scons : Cardinality(scons[k].asked) > 1 => scons[k].conid \in unsent

(* An answer reaches another socket than the one that asked only through a *)
(* conid that was reassigned, and only from the peer both were talking to. *)
OwnAnswers ==
    \A x \in crossed : x.conid \in reassigned /\ x.of.remote = x.remote

(* When nothing of a conid is under way, and none of its packets was       *)
(* dropped, both ends agree about what it stands for.                      *)
EndsAgree ==
    \A k \in DOMAIN cons, j \in DOMAIN scons :
       /\ cons[k].conid = scons[j].conid /\ cons[k].conid \notin unsent
       /\ jobs = <<>> /\ cbuf[cons[k].conid] = <<>> /\ up = <<>>
       => /\ scons[j].orig = cons[k].remote
          /\ [local |-> cons[k].local, remote |-> cons[k].remote] \in scons[j].asked

(* Whatever phase a session is lost in, the client gets its gateway back   *)
(* or is held by an attempt whose proxy is silent: it is never left with   *)
(* neither an attempt nor the timer of the next one.                       *)
Reconnects ==
    ~have_server ~> \/ have_server
                    \/ have_socks /\ ~socks_up /\ silent
=============================================================================
