---------------------------- MODULE UdpGw_proofs ----------------------------
(***************************************************************************)
(* Proofs about UdpGw, for any number of conids, connections of the        *)
(* gateway, buffers and failures.                                          *)
(***************************************************************************)
EXTENDS UdpGw, FiniteSetTheorems, WellFoundedInduction, SequenceTheorems, TLAPS

-----------------------------------------------------------------------------
(* The invariant.                                                          *)

Connection == [conid : Conids, local : Locals, remote : Remotes]
PairOf(c) == [local |-> c.local, remote |-> c.remote]

\* No conid occurs twice.
Distinct(s) == \A i, j \in DOMAIN s : s[i].conid = s[j].conid => i = j

\* The pairs a conid stands for: none or one.
Owners(id) == {PairOf(c) : c \in {c \in ToSet(cons) : c.conid = id}}

\* A datagram of pair a may travel under a conid that stands for a, or that
\* was reassigned.
Owned(id, a) == \E c \in ToSet(cons) : c.conid = id /\ (id \in reassigned \/ a = PairOf(c))

\* The header of a packet, in either direction, is about its payload.
Sound(p) == p.remote = p.payload.remote /\ Owned(p.conid, p.payload)

\* A connection of the gateway, open or closing.
GatewayCon == [conid : Conids, orig : Remotes, asked : SUBSET Pair, buf : Seq(Reply)]

SoundCon(x) ==
  /\ x \in GatewayCon /\ x.asked # {}
  /\ \A a \in x.asked : a.remote = x.orig /\ Owned(x.conid, a)
  /\ \A r \in ToSet(x.buf) : Sound(r)

\* What the client and the stream hold.
ClientInv ==
  /\ cons \in Seq(Connection) /\ Distinct(cons) /\ Len(cons) <= max_connections
  /\ next_conid \in Conids /\ reassigned \subseteq Ids(cons)
  /\ cbuf \in [Conids -> Seq(Packet)] /\ up \in Seq(Packet) /\ down \in Seq(Reply)
  /\ \A id \in Conids : \A p \in ToSet(cbuf[id]) : p.conid = id /\ Sound(p)
  /\ \A p \in ToSet(up) : Sound(p)
  /\ \A r \in ToSet(down) : Sound(r)

\* The packet of a new connection is still in the device's buffer.
JobsInv ==
  \/ jobs = <<>>
  \/ jobs = <<[job |-> "read"]>>
  \/ \E c \in ToSet(cons) : /\ jobs = <<[job |-> "first", conid |-> c.conid], [job |-> "read"]>>
                            /\ data = PairOf(c)

GatewayInv ==
  /\ scons \in Seq(GatewayCon) /\ Distinct(scons)
  /\ \A x \in ToSet(scons) \cup closing : SoundCon(x)
  /\ ~alive => scons = <<>> /\ up = <<>>

\* The gateway is told: somewhere after position i of s, and not after j, a
\* packet of conid id says REBIND.
Told(s, id, i, j) == \E m \in (i + 1)..j : s[m].conid = id /\ s[m].rebind

\* Where datagrams of conid id have got to, the gateway's socket being at 0.
Source(id, asked, u, i, a) == \/ i = 0 /\ a \in asked
                              \/ i \in DOMAIN u /\ u[i].conid = id /\ u[i].payload = a

\* The datagrams of one conid: the pairs its socket was used for (asked), then
\* its packets in the stream u, then those in its buffer q, then the pair it
\* stands for now (owners).  Between datagrams of two pairs the gateway is told.
Chain(id, asked, u, q, owners) ==
  /\ \A i \in 0..Len(u), a \in Pair : Source(id, asked, u, i, a) =>
       /\ \A j \in (i + 1)..Len(u) :
             u[j].conid = id /\ u[j].payload # a => Told(u, id, i, j)
       /\ \A j \in 1..Len(q) :
             q[j].payload # a => Told(u, id, i, Len(u)) \/ Told(q, id, 0, j)
       /\ \A o \in owners :
             o # a => Told(u, id, i, Len(u)) \/ Told(q, id, 0, Len(q))
  /\ \A i \in 1..Len(q) :
       /\ \A j \in (i + 1)..Len(q) : q[j].payload # q[i].payload => Told(q, id, i, j)
       /\ \A o \in owners : o # q[i].payload => Told(q, id, i, Len(q))

Asked(id) == UNION {x.asked : x \in {x \in ToSet(scons) : x.conid = id}}

ChainInv ==
  \A id \in Conids \ unsent :
    /\ Chain(id, Asked(id), up, cbuf[id], Owners(id))
    /\ \A a, b \in Asked(id) : a = b

CrossedInv == OwnAnswers

UdpInv == ClientInv /\ JobsInv /\ GatewayInv /\ ChainInv /\ CrossedInv
-----------------------------------------------------------------------------
(* What the chain of a conid's datagrams survives.                         *)

\* A longer sequence still says what it said.
LEMMA ToldAppend ==
  ASSUME NEW s \in Seq(Packet), NEW x \in Packet, NEW id, NEW i \in Nat,
         NEW j \in 0..Len(s), NEW k \in Nat, j <= k, k <= Len(s) + 1,
         Told(s, id, i, j)
  PROVE  Told(Append(s, x), id, i, k)
<1>1. PICK m \in (i + 1)..j : s[m].conid = id /\ s[m].rebind
  BY DEF Told
<1>2. m \in (i + 1)..k /\ Append(s, x)[m] = s[m]
  OBVIOUS
<1>3. QED
  BY <1>1, <1>2 DEF Told

\* A REBIND packet at the end is heard from everywhere before it.
LEMMA ToldLast ==
  ASSUME NEW s \in Seq(Packet), NEW x \in Packet, NEW id, NEW i \in 0..Len(s),
         x.conid = id, x.rebind
  PROVE  Told(Append(s, x), id, i, Len(s) + 1)
<1>1. Len(s) + 1 \in (i + 1)..(Len(s) + 1) /\ Append(s, x)[Len(s) + 1] = x
  OBVIOUS
<1>2. QED
  BY <1>1 DEF Told

\* Without its head a sequence says the same, unless the head said it.
LEMMA ToldTail ==
  ASSUME NEW s \in Seq(Packet), s # <<>>, NEW id, NEW i \in Nat, NEW j \in 0..Len(s),
         Told(s, id, i, j), i > 0 \/ ~(s[1].conid = id /\ s[1].rebind)
  PROVE  Told(Tail(s), id, IF i = 0 THEN 0 ELSE i - 1, j - 1)
<1>1. PICK m \in (i + 1)..j : s[m].conid = id /\ s[m].rebind
  BY DEF Told
<1>2. m > 1
  BY <1>1
<1>3. Tail(s)[m - 1] = s[m] /\ m - 1 \in ((IF i = 0 THEN 0 ELSE i - 1) + 1)..(j - 1)
  BY <1>2
<1>4. QED
  BY <1>1, <1>3 DEF Told

\* A packet joins the buffer: it says REBIND, or its pair is the owner.
LEMMA ChainAppend ==
  ASSUME NEW id, NEW asked \in SUBSET Pair, NEW u \in Seq(Packet), NEW q \in Seq(Packet),
         NEW owners \in SUBSET Pair, Chain(id, asked, u, q, owners),
         NEW x \in Packet, x.conid = id, x.rebind \/ x.payload \in owners,
         NEW owners2 \in SUBSET {x.payload}
  PROVE  Chain(id, asked, u, Append(q, x), owners2)
<1> DEFINE r == Append(q, x)
<1>1. /\ r \in Seq(Packet) /\ Len(r) = Len(q) + 1 /\ r[Len(q) + 1] = x
      /\ \A j \in 1..Len(q) : r[j] = q[j]
      /\ x.payload \in Pair
  BY DEF Packet
<1> HIDE DEF r
<1>2. ASSUME NEW i \in 0..Len(u), NEW a \in Pair, Source(id, asked, u, i, a)
      PROVE  /\ \A j \in (i + 1)..Len(u) :
                   u[j].conid = id /\ u[j].payload # a => Told(u, id, i, j)
             /\ \A j \in 1..Len(r) :
                   r[j].payload # a => Told(u, id, i, Len(u)) \/ Told(r, id, 0, j)
             /\ \A o \in owners2 :
                   o # a => Told(u, id, i, Len(u)) \/ Told(r, id, 0, Len(r))
  <2>1. \A j \in (i + 1)..Len(u) :
           u[j].conid = id /\ u[j].payload # a => Told(u, id, i, j)
    BY <1>2 DEF Chain
  <2>2. ASSUME x.payload # a, ~Told(u, id, i, Len(u))
        PROVE  Told(r, id, 0, Len(r))
    <3>1. CASE x.rebind
      BY <1>1, <3>1, ToldLast, 0 \in 0..Len(q) DEF r
    <3>2. CASE x.payload \in owners
      <4>1. Told(q, id, 0, Len(q))
        BY <1>2, <2>2, <3>2 DEF Chain
      <4>2. QED
        BY <4>1, <1>1, ToldAppend, Len(q) \in 0..Len(q), Len(q) + 1 \in Nat DEF r
    <3>3. QED
      BY <3>1, <3>2
  <2>3. ASSUME NEW j \in 1..Len(r), r[j].payload # a, ~Told(u, id, i, Len(u))
        PROVE  Told(r, id, 0, j)
    <3>1. CASE j = Len(r)
      BY <3>1, <2>2, <2>3, <1>1
    <3>2. CASE j # Len(r)
      <4>1. j \in 1..Len(q) /\ r[j] = q[j]
        BY <3>2, <1>1
      <4>2. Told(q, id, 0, j)
        BY <4>1, <1>2, <2>3 DEF Chain
      <4>3. QED
        BY <4>1, <4>2, ToldAppend DEF r
    <3>3. QED
      BY <3>1, <3>2
  <2>4. QED
    BY <2>1, <2>2, <2>3
<1>3. ASSUME NEW i \in 1..Len(r)
      PROVE  /\ \A j \in (i + 1)..Len(r) : r[j].payload # r[i].payload => Told(r, id, i, j)
             /\ \A o \in owners2 : o # r[i].payload => Told(r, id, i, Len(r))
  <2>1. CASE i = Len(r)
    BY <2>1, <1>1
  <2>2. CASE i # Len(r)
    <3>1. i \in 1..Len(q) /\ r[i] = q[i]
      BY <2>2, <1>1
    <3>2. ASSUME x.payload # q[i].payload
          PROVE  Told(r, id, i, Len(r))
      <4>1. CASE x.rebind
        BY <1>1, <3>1, <4>1, ToldLast, i \in 0..Len(q) DEF r
      <4>2. CASE x.payload \in owners
        <5>1. Told(q, id, i, Len(q))
          BY <3>1, <3>2, <4>2 DEF Chain
        <5>2. QED
          BY <5>1, <1>1, ToldAppend, Len(q) \in 0..Len(q), Len(q) + 1 \in Nat DEF r
      <4>3. QED
        BY <4>1, <4>2
    <3>3. ASSUME NEW j \in (i + 1)..Len(r), r[j].payload # q[i].payload
          PROVE  Told(r, id, i, j)
      <4>1. CASE j = Len(r)
        BY <4>1, <3>2, <3>3, <1>1
      <4>2. CASE j # Len(r)
        <5>1. j \in (i + 1)..Len(q) /\ j \in 0..Len(q) /\ j \in Nat /\ r[j] = q[j]
          BY <4>2, <1>1
        <5>2. Told(q, id, i, j)
          BY <5>1, <3>1, <3>3 DEF Chain
        <5>3. QED
          BY <5>1, <5>2, ToldAppend DEF r
      <4>3. QED
        BY <4>1, <4>2
    <3>4. QED
      BY <3>1, <3>2, <3>3
  <2>3. QED
    BY <2>1, <2>2
<1>4. QED
  BY <1>2, <1>3 DEF Chain, r

\* The first packet of the buffer joins the stream.
LEMMA ChainMove ==
  ASSUME NEW id, NEW asked \in SUBSET Pair, NEW u \in Seq(Packet), NEW q \in Seq(Packet),
         NEW owners \in SUBSET Pair, Chain(id, asked, u, q, owners),
         q # <<>>, \A j \in DOMAIN q : q[j].conid = id
  PROVE  Chain(id, asked, Append(u, Head(q)), Tail(q), owners)
<1> DEFINE x == Head(q)
           r == Tail(q)
           v == Append(u, x)
<1>1. /\ x \in Packet /\ x.payload \in Pair /\ x = q[1] /\ x.conid = id /\ 1 \in 1..Len(q)
      /\ r \in Seq(Packet) /\ Len(r) = Len(q) - 1
      /\ \A j \in 1..Len(r) : r[j] = q[j + 1] /\ j + 1 \in 1..Len(q)
      /\ v \in Seq(Packet) /\ Len(v) = Len(u) + 1 /\ v[Len(u) + 1] = x
      /\ \A j \in 1..Len(u) : v[j] = u[j]
  <2>1. x = q[1] /\ 1 \in 1..Len(q) /\ x \in Packet
    OBVIOUS
  <2>2. x.payload \in Pair /\ x.conid = id
    BY <2>1 DEF Packet
  <2>3. r \in Seq(Packet) /\ Len(r) = Len(q) - 1
    OBVIOUS
  <2>4. \A j \in 1..Len(r) : r[j] = q[j + 1] /\ j + 1 \in 1..Len(q)
    BY <2>3
  <2>5. /\ v \in Seq(Packet) /\ Len(v) = Len(u) + 1 /\ v[Len(u) + 1] = x
        /\ \A j \in 1..Len(u) : v[j] = u[j]
    BY <2>1
  <2>6. QED
    BY <2>1, <2>2, <2>3, <2>4, <2>5
<1>2. ASSUME NEW i \in 0..Len(u), Told(u, id, i, Len(u)) \/ x.rebind
      PROVE  Told(v, id, i, Len(v))
  BY <1>1, <1>2, ToldLast, ToldAppend, Len(u) \in 0..Len(u), Len(u) + 1 \in Nat
<1>3. ASSUME NEW i \in 0..Len(u), NEW j \in 1..Len(q),
             Told(u, id, i, Len(u)) \/ Told(q, id, 0, j)
      PROVE  Told(v, id, i, Len(v)) \/ Told(r, id, 0, j - 1)
  <2>1. CASE Told(u, id, i, Len(u)) \/ x.rebind
    BY <2>1, <1>2
  <2>2. CASE ~x.rebind /\ Told(q, id, 0, j)
    BY <2>2, <1>1, ToldTail, 0 \in Nat, j \in 0..Len(q)
  <2>3. QED
    BY <1>3, <2>1, <2>2
<1>4. ASSUME NEW i \in 1..Len(q), NEW j \in 1..Len(q), Told(q, id, i, j)
      PROVE  Told(r, id, i - 1, j - 1)
  <2>1. i \in Nat /\ i > 0 /\ j \in 0..Len(q)
    OBVIOUS
  <2>2. QED
    BY <1>4, <2>1, ToldTail
<1>5. Len(r) = Len(q) - 1 /\ Len(q) \in 1..Len(q)
  BY <1>1
<1> HIDE DEF x, r, v
<1>6. ASSUME NEW i \in 0..Len(v), NEW a \in Pair, Source(id, asked, v, i, a)
      PROVE  /\ \A j \in (i + 1)..Len(v) :
                   v[j].conid = id /\ v[j].payload # a => Told(v, id, i, j)
             /\ \A j \in 1..Len(r) :
                   r[j].payload # a => Told(v, id, i, Len(v)) \/ Told(r, id, 0, j)
             /\ \A o \in owners :
                   o # a => Told(v, id, i, Len(v)) \/ Told(r, id, 0, Len(r))
  <2>1. CASE i = Len(v)
    <3>1. a = q[1].payload
      BY <1>6, <2>1, <1>1 DEF Source
    <3>2. ASSUME NEW j \in 1..Len(r), r[j].payload # a
          PROVE  Told(r, id, 0, j)
      <4>1. j + 1 \in 2..Len(q) /\ q[j + 1].payload # q[1].payload
        BY <3>1, <3>2, <1>1
      <4>2. Told(q, id, 1, j + 1)
        BY <4>1, <1>1 DEF Chain
      <4>3. QED
        BY <4>1, <4>2, <1>4, <1>1
    <3>3. ASSUME NEW o \in owners, o # a
          PROVE  Told(r, id, 0, Len(r))
      <4>1. Told(q, id, 1, Len(q))
        BY <3>1, <3>3, <1>1 DEF Chain
      <4>2. QED
        BY <4>1, <1>4, <1>1, <1>5
    <3>4. QED
      BY <2>1, <3>2, <3>3, <1>1
  <2>2. CASE i # Len(v)
    <3>1. i \in 0..Len(u) /\ Source(id, asked, u, i, a)
      BY <1>6, <2>2, <1>1 DEF Source
    <3>2. ASSUME NEW j \in (i + 1)..Len(v), v[j].conid = id, v[j].payload # a
          PROVE  Told(v, id, i, j)
      <4>1. CASE j = Len(v)
        <5>1. Told(u, id, i, Len(u)) \/ Told(q, id, 0, 1)
          BY <3>1, <3>2, <4>1, <1>1 DEF Chain
        <5>2. Told(u, id, i, Len(u)) \/ x.rebind
          BY <5>1, <1>1 DEF Told
        <5>3. QED
          BY <5>2, <1>2, <4>1, <3>1
      <4>2. CASE j # Len(v)
        <5>1. j \in (i + 1)..Len(u) /\ v[j] = u[j] /\ j \in 0..Len(u) /\ j \in Nat /\ i \in Nat
          BY <4>2, <1>1, <3>1
        <5>2. Told(u, id, i, j)
          BY <5>1, <3>1, <3>2 DEF Chain
        <5>3. QED
          BY <5>1, <5>2, <1>1, ToldAppend DEF v
      <4>3. QED
        BY <4>1, <4>2
    <3>3. ASSUME NEW j \in 1..Len(r), r[j].payload # a
          PROVE  Told(v, id, i, Len(v)) \/ Told(r, id, 0, j)
      <4>1. j + 1 \in 1..Len(q) /\ q[j + 1].payload # a /\ (j + 1) - 1 = j
        BY <3>3, <1>1
      <4>2. Told(u, id, i, Len(u)) \/ Told(q, id, 0, j + 1)
        BY <4>1, <3>1 DEF Chain
      <4>3. QED
        BY <4>1, <4>2, <1>3, <3>1
    <3>4. ASSUME NEW o \in owners, o # a
          PROVE  Told(v, id, i, Len(v)) \/ Told(r, id, 0, Len(r))
      <4>1. Told(u, id, i, Len(u)) \/ Told(q, id, 0, Len(q))
        BY <3>1, <3>4 DEF Chain
      <4>2. QED
        BY <4>1, <1>3, <3>1, <1>5
    <3>5. QED
      BY <3>2, <3>3, <3>4
  <2>3. QED
    BY <2>1, <2>2
<1>7. ASSUME NEW i \in 1..Len(r)
      PROVE  /\ \A j \in (i + 1)..Len(r) : r[j].payload # r[i].payload => Told(r, id, i, j)
             /\ \A o \in owners : o # r[i].payload => Told(r, id, i, Len(r))
  <2>1. i + 1 \in 1..Len(q) /\ r[i] = q[i + 1] /\ (i + 1) - 1 = i
    BY <1>1
  <2>2. ASSUME NEW j \in (i + 1)..Len(r), r[j].payload # r[i].payload
        PROVE  Told(r, id, i, j)
    <3>1. /\ j + 1 \in ((i + 1) + 1)..Len(q) /\ j + 1 \in 1..Len(q) /\ r[j] = q[j + 1]
          /\ (j + 1) - 1 = j
      BY <1>1
    <3>2. Told(q, id, i + 1, j + 1)
      BY <2>1, <2>2, <3>1 DEF Chain
    <3>3. QED
      BY <2>1, <3>1, <3>2, <1>4
  <2>3. ASSUME NEW o \in owners, o # r[i].payload
        PROVE  Told(r, id, i, Len(r))
    <3>1. Told(q, id, i + 1, Len(q))
      BY <2>1, <2>3 DEF Chain
    <3>2. QED
      BY <2>1, <3>1, <1>4, <1>5
  <2>4. QED
    BY <2>2, <2>3
<1>8. QED
  BY <1>6, <1>7 DEF Chain, v, r, x

\* A packet of another conid joins the stream.
LEMMA ChainOther ==
  ASSUME NEW id, NEW asked \in SUBSET Pair, NEW u \in Seq(Packet), NEW q \in Seq(Packet),
         NEW owners \in SUBSET Pair, Chain(id, asked, u, q, owners),
         NEW x \in Packet, x.conid # id
  PROVE  Chain(id, asked, Append(u, x), q, owners)
<1> DEFINE v == Append(u, x)
<1>1. /\ v \in Seq(Packet) /\ Len(v) = Len(u) + 1 /\ v[Len(u) + 1] = x
      /\ \A j \in 1..Len(u) : v[j] = u[j]
  OBVIOUS
<1>2. ASSUME NEW i \in 0..Len(u), NEW j \in 0..Len(u), NEW k \in Nat, j <= k, k <= Len(v),
             Told(u, id, i, j)
      PROVE  Told(v, id, i, k)
  BY <1>1, <1>2, ToldAppend, i \in Nat
<1> HIDE DEF v
<1>3. ASSUME NEW i \in 0..Len(v), NEW a \in Pair, Source(id, asked, v, i, a)
      PROVE  /\ \A j \in (i + 1)..Len(v) :
                   v[j].conid = id /\ v[j].payload # a => Told(v, id, i, j)
             /\ \A j \in 1..Len(q) :
                   q[j].payload # a => Told(v, id, i, Len(v)) \/ Told(q, id, 0, j)
             /\ \A o \in owners :
                   o # a => Told(v, id, i, Len(v)) \/ Told(q, id, 0, Len(q))
  <2>1. i \in 0..Len(u) /\ Source(id, asked, u, i, a)
    BY <1>1, <1>3 DEF Source
  <2>2. ASSUME NEW j \in (i + 1)..Len(v), v[j].conid = id, v[j].payload # a
        PROVE  Told(v, id, i, j)
    <3>1. j \in (i + 1)..Len(u) /\ j \in 0..Len(u) /\ j \in Nat /\ j <= Len(v) /\ v[j] = u[j]
      BY <1>1, <2>1, <2>2
    <3>2. Told(u, id, i, j)
      BY <2>1, <2>2, <3>1 DEF Chain
    <3>3. QED
      BY <3>1, <3>2, <2>1, <1>2
  <2>3. Told(u, id, i, Len(u)) => Told(v, id, i, Len(v))
    BY <2>1, <1>1, <1>2, Len(u) \in 0..Len(u), Len(u) + 1 \in Nat
  <2>4. /\ \A j \in 1..Len(q) :
              q[j].payload # a => Told(u, id, i, Len(u)) \/ Told(q, id, 0, j)
        /\ \A o \in owners :
              o # a => Told(u, id, i, Len(u)) \/ Told(q, id, 0, Len(q))
    BY <2>1 DEF Chain
  <2>5. QED
    BY <2>2, <2>3, <2>4
<1>4. QED
  BY <1>3 DEF Chain, v

\* The gateway takes a packet of the conid: its socket is now used for that
\* packet's pair, and for no other unless the packet says REBIND.
LEMMA ChainTake ==
  ASSUME NEW id, NEW asked \in SUBSET Pair, NEW u \in Seq(Packet), NEW q \in Seq(Packet),
         NEW owners \in SUBSET Pair, Chain(id, asked, u, q, owners),
         u # <<>>, Head(u).conid = id
  PROVE  /\ Chain(id, {Head(u).payload}, Tail(u), q, owners)
         /\ ~Head(u).rebind => asked \subseteq {Head(u).payload}
<1> DEFINE v == Tail(u)
<1>1. /\ Head(u) = u[1] /\ 1 \in 1..Len(u) /\ u[1] \in Packet
      /\ v \in Seq(Packet) /\ Len(v) = Len(u) - 1
      /\ \A j \in 1..Len(v) : v[j] = u[j + 1]
  OBVIOUS
<1>2. ASSUME NEW i \in 0..Len(v), NEW j \in 0..Len(v), Told(u, id, i + 1, j + 1)
      PROVE  Told(v, id, i, j)
  <2>1. u # <<>> /\ i + 1 \in Nat /\ i + 1 > 0 /\ i + 1 # 0 /\ j + 1 \in 0..Len(u)
    BY <1>1
  <2>2. Told(v, id, (i + 1) - 1, (j + 1) - 1)
    BY <1>2, <2>1, ToldTail
  <2>3. QED
    BY <2>2
<1> HIDE DEF v
<1>3. ASSUME NEW i \in 0..Len(v), NEW a \in Pair, Source(id, {Head(u).payload}, v, i, a)
      PROVE  /\ \A j \in (i + 1)..Len(v) :
                   v[j].conid = id /\ v[j].payload # a => Told(v, id, i, j)
             /\ \A j \in 1..Len(q) :
                   q[j].payload # a => Told(v, id, i, Len(v)) \/ Told(q, id, 0, j)
             /\ \A o \in owners :
                   o # a => Told(v, id, i, Len(v)) \/ Told(q, id, 0, Len(q))
  <2>1. i + 1 \in 0..Len(u) /\ Source(id, asked, u, i + 1, a)
    BY <1>1, <1>3 DEF Source
  <2>2. ASSUME NEW j \in (i + 1)..Len(v), v[j].conid = id, v[j].payload # a
        PROVE  Told(v, id, i, j)
    <3>1. j + 1 \in ((i + 1) + 1)..Len(u) /\ j \in 0..Len(v) /\ v[j] = u[j + 1]
      BY <1>1
    <3>2. Told(u, id, i + 1, j + 1)
      BY <2>1, <2>2, <3>1 DEF Chain
    <3>3. QED
      BY <3>1, <3>2, <1>2
  <2>3. Told(u, id, i + 1, Len(u)) => Told(v, id, i, Len(v))
    BY <1>1, <1>2, Len(v) \in 0..Len(v), Len(v) + 1 = Len(u)
  <2>4. /\ \A j \in 1..Len(q) :
              q[j].payload # a => Told(u, id, i + 1, Len(u)) \/ Told(q, id, 0, j)
        /\ \A o \in owners :
              o # a => Told(u, id, i + 1, Len(u)) \/ Told(q, id, 0, Len(q))
    BY <2>1 DEF Chain
  <2>5. QED
    BY <2>2, <2>3, <2>4
<1>4. Chain(id, {Head(u).payload}, v, q, owners)
  BY <1>3 DEF Chain
<1>5. ASSUME ~u[1].rebind, NEW a \in asked
      PROVE  a = u[1].payload
  <2>1. 0 \in 0..Len(u) /\ a \in Pair /\ Source(id, asked, u, 0, a)
    BY DEF Source
  <2>2. u[1].payload # a => Told(u, id, 0, 1)
    BY <2>1, <1>1 DEF Chain
  <2>3. ~Told(u, id, 0, 1)
    BY <1>5 DEF Told
  <2>4. QED
    BY <2>2, <2>3
<1>6. QED
  BY <1>1, <1>4, <1>5 DEF v

\* The gateway takes a packet of another conid.
LEMMA ChainTakeOther ==
  ASSUME NEW id, NEW asked \in SUBSET Pair, NEW u \in Seq(Packet), NEW q \in Seq(Packet),
         NEW owners \in SUBSET Pair, Chain(id, asked, u, q, owners),
         u # <<>>, Head(u).conid # id
  PROVE  Chain(id, asked, Tail(u), q, owners)
<1> DEFINE v == Tail(u)
           Old(i) == IF i = 0 THEN 0 ELSE i + 1
<1>1. /\ Head(u) = u[1] /\ 1 \in 1..Len(u) /\ u[1] \in Packet
      /\ v \in Seq(Packet) /\ Len(v) = Len(u) - 1
      /\ \A j \in 1..Len(v) : v[j] = u[j + 1]
  OBVIOUS
<1>2. ASSUME NEW i \in 0..Len(v), NEW j \in 0..Len(v), Told(u, id, Old(i), j + 1)
      PROVE  Told(v, id, i, j)
  <2>1. u # <<>> /\ Old(i) \in Nat /\ j + 1 \in 0..Len(u) /\ u[1].conid # id
    BY <1>1
  <2>2. Told(v, id, IF Old(i) = 0 THEN 0 ELSE Old(i) - 1, (j + 1) - 1)
    BY <1>2, <2>1, ToldTail
  <2>3. QED
    BY <2>2
<1> HIDE DEF v
<1>3. ASSUME NEW i \in 0..Len(v), NEW a \in Pair, Source(id, asked, v, i, a)
      PROVE  /\ \A j \in (i + 1)..Len(v) :
                   v[j].conid = id /\ v[j].payload # a => Told(v, id, i, j)
             /\ \A j \in 1..Len(q) :
                   q[j].payload # a => Told(v, id, i, Len(v)) \/ Told(q, id, 0, j)
             /\ \A o \in owners :
                   o # a => Told(v, id, i, Len(v)) \/ Told(q, id, 0, Len(q))
  <2>1. Old(i) \in 0..Len(u) /\ Source(id, asked, u, Old(i), a)
    BY <1>1, <1>3 DEF Source
  <2>2. ASSUME NEW j \in (i + 1)..Len(v), v[j].conid = id, v[j].payload # a
        PROVE  Told(v, id, i, j)
    <3>1. j + 1 \in (Old(i) + 1)..Len(u) /\ j \in 0..Len(v) /\ v[j] = u[j + 1]
      BY <1>1
    <3>2. Told(u, id, Old(i), j + 1)
      BY <2>1, <2>2, <3>1 DEF Chain
    <3>3. QED
      BY <3>1, <3>2, <1>2
  <2>3. Told(u, id, Old(i), Len(u)) => Told(v, id, i, Len(v))
    BY <1>1, <1>2, Len(v) \in 0..Len(v), Len(v) + 1 = Len(u)
  <2>4. /\ \A j \in 1..Len(q) :
              q[j].payload # a => Told(u, id, Old(i), Len(u)) \/ Told(q, id, 0, j)
        /\ \A o \in owners :
              o # a => Told(u, id, Old(i), Len(u)) \/ Told(q, id, 0, Len(q))
    BY <2>1 DEF Chain
  <2>5. QED
    BY <2>2, <2>3, <2>4
<1>4. QED
  BY <1>3 DEF Chain, v

\* A socket of the gateway is closed, or a session lost with the stream.
LEMMA ChainForget ==
  ASSUME NEW id, NEW asked, NEW u \in Seq(Packet), NEW q \in Seq(Packet),
         NEW owners, Chain(id, asked, u, q, owners), NEW fewer \in SUBSET asked
  PROVE  Chain(id, fewer, u, q, owners)
<1>1. \A i, a : Source(id, fewer, u, i, a) => Source(id, asked, u, i, a)
  BY DEF Source
<1>2. QED
  BY <1>1 DEF Chain

\* Losing the gateway's socket and the stream loses no obligation to rebind.
LEMMA ChainLost ==
  ASSUME NEW id, NEW asked, NEW u \in Seq(Packet), NEW q \in Seq(Packet),
         NEW owners, Chain(id, asked, u, q, owners)
  PROVE  Chain(id, {}, <<>>, q, owners)
<1>1. \A i \in 0..Len(<<>>), a \in Pair : ~Source(id, {}, <<>>, i, a)
  BY DEF Source
<1>2. QED
  BY <1>1 DEF Chain

\* No session takes the first packet of the buffer: it is lost.
LEMMA ChainDrop ==
  ASSUME NEW id, NEW q \in Seq(Packet), NEW owners,
         Chain(id, {}, <<>>, q, owners), q # <<>>
  PROVE  Chain(id, {}, <<>>, Tail(q), owners)
<1> DEFINE r == Tail(q)
<1>1. /\ r \in Seq(Packet) /\ Len(r) = Len(q) - 1
      /\ \A j \in 1..Len(r) : r[j] = q[j + 1] /\ j + 1 \in 1..Len(q)
  OBVIOUS
<1>2. ASSUME NEW i \in 1..Len(r), NEW j \in 1..Len(r), Told(q, id, i + 1, j + 1)
      PROVE  Told(r, id, i, j)
  <2>1. i + 1 \in Nat /\ i + 1 > 0 /\ i + 1 # 0 /\ j + 1 \in 0..Len(q)
    BY <1>1
  <2>2. Told(r, id, (i + 1) - 1, (j + 1) - 1)
    BY <1>2, <2>1, ToldTail
  <2>3. QED
    BY <2>2
<1> HIDE DEF r
<1>3. \A i \in 0..Len(<<>>), a \in Pair : ~Source(id, {}, <<>>, i, a)
  BY DEF Source
<1>4. ASSUME NEW i \in 1..Len(r)
      PROVE  /\ \A j \in (i + 1)..Len(r) : r[j].payload # r[i].payload => Told(r, id, i, j)
             /\ \A o \in owners : o # r[i].payload => Told(r, id, i, Len(r))
  <2>1. ASSUME NEW j \in (i + 1)..Len(r), r[j].payload # r[i].payload
        PROVE  Told(r, id, i, j)
    <3>1. /\ j + 1 \in ((i + 1) + 1)..Len(q) /\ j \in 1..Len(r)
          /\ r[j] = q[j + 1] /\ r[i] = q[i + 1] /\ i + 1 \in 1..Len(q)
      BY <1>1
    <3>2. Told(q, id, i + 1, j + 1)
      BY <2>1, <3>1 DEF Chain
    <3>3. QED
      BY <3>1, <3>2, <1>2
  <2>2. ASSUME NEW o \in owners, o # r[i].payload
        PROVE  Told(r, id, i, Len(r))
    <3>1. r[i] = q[i + 1] /\ i + 1 \in 1..Len(q) /\ Len(r) \in 1..Len(r) /\ Len(q) = Len(r) + 1
      BY <1>1
    <3>2. Told(q, id, i + 1, Len(q))
      BY <2>2, <3>1 DEF Chain
    <3>3. QED
      BY <3>1, <3>2, <1>2
  <2>3. QED
    BY <2>1, <2>2
<1>5. QED
  BY <1>3, <1>4 DEF Chain, r

\* A conid nothing travels under.
LEMMA ChainFresh ==
  ASSUME NEW id, NEW u \in Seq(Packet), NEW owners, \A j \in DOMAIN u : u[j].conid # id
  PROVE  Chain(id, {}, u, <<>>, owners)
<1>1. \A i \in 0..Len(u), a \in Pair : ~Source(id, {}, u, i, a)
  BY DEF Source
<1>2. QED
  BY <1>1 DEF Chain

-----------------------------------------------------------------------------
(* The sequences the connections are kept in.                              *)

\* The elements of a sequence with one more.
LEMMA SetOfAppend ==
  ASSUME NEW S, NEW s \in Seq(S), NEW x \in S
  PROVE  ToSet(Append(s, x)) = ToSet(s) \cup {x}
<1> DEFINE r == Append(s, x)
<1>1. /\ Len(r) = Len(s) + 1 /\ DOMAIN r = 1..(Len(s) + 1) /\ DOMAIN s = 1..Len(s)
      /\ r[Len(s) + 1] = x
      /\ \A i \in 1..Len(s) : r[i] = s[i]
  OBVIOUS
<1> HIDE DEF r
<1>2. ASSUME NEW y \in ToSet(r) PROVE y \in ToSet(s) \cup {x}
  <2>1. PICK i \in DOMAIN r : y = r[i]
    BY DEF ToSet
  <2>2. QED
    BY <1>1, <2>1 DEF ToSet
<1>3. ASSUME NEW y \in ToSet(s) PROVE y \in ToSet(r)
  <2>1. PICK i \in DOMAIN s : y = s[i]
    BY DEF ToSet
  <2>2. i \in DOMAIN r /\ y = r[i]
    BY <1>1, <2>1
  <2>3. QED
    BY <2>2 DEF ToSet
<1>4. x \in ToSet(r)
  BY <1>1, Len(s) + 1 \in 1..(Len(s) + 1) DEF ToSet
<1>5. QED
  BY <1>2, <1>3, <1>4 DEF r

\* The elements of a sequence without its head.
LEMMA SetOfTail ==
  ASSUME NEW S, NEW s \in Seq(S), s # <<>>
  PROVE  /\ Head(s) \in ToSet(s) /\ ToSet(Tail(s)) \subseteq ToSet(s)
         /\ \A y \in ToSet(s) : y = Head(s) \/ y \in ToSet(Tail(s))
<1>1. /\ Tail(s) \in Seq(S) /\ Len(Tail(s)) = Len(s) - 1 /\ Head(s) = s[1]
      /\ DOMAIN Tail(s) = 1..(Len(s) - 1) /\ DOMAIN s = 1..Len(s) /\ 1 \in DOMAIN s
      /\ \A i \in 1..(Len(s) - 1) : Tail(s)[i] = s[i + 1]
  OBVIOUS
<1>2. ASSUME NEW y \in ToSet(Tail(s)) PROVE y \in ToSet(s)
  BY <1>1 DEF ToSet
<1>3. ASSUME NEW y \in ToSet(s), y # Head(s) PROVE y \in ToSet(Tail(s))
  <2>1. PICK i \in DOMAIN s : y = s[i]
    BY DEF ToSet
  <2>2. i - 1 \in DOMAIN Tail(s) /\ Tail(s)[i - 1] = y
    BY <1>1, <1>3, <2>1
  <2>3. QED
    BY <2>2 DEF ToSet
<1>4. QED
  BY <1>1, <1>2, <1>3 DEF ToSet

\* RemoveAt, position by position.
LEMMA Removed ==
  ASSUME NEW S, NEW s \in Seq(S), NEW k \in DOMAIN s
  PROVE  /\ RemoveAt(s, k) \in Seq(S) /\ Len(RemoveAt(s, k)) = Len(s) - 1
         /\ \A i \in 1..(Len(s) - 1) :
               RemoveAt(s, k)[i] = s[IF i < k THEN i ELSE i + 1]
<1> DEFINE a == SubSeq(s, 1, k - 1)
           b == SubSeq(s, k + 1, Len(s))
<1>1. k \in 1..Len(s) /\ Len(s) \in Nat
  OBVIOUS
<1>2. /\ a \in Seq(S) /\ Len(a) = k - 1
      /\ \A i \in 1..(k - 1) : a[i] = s[i]
  <2>1. \A i \in 1..(k - 1) : s[i] \in S
    BY <1>1
  <2>2. /\ a \in Seq(S) /\ Len(a) = IF 1 <= k - 1 THEN (k - 1) - 1 + 1 ELSE 0
        /\ \A i \in 1..((k - 1) - 1 + 1) : a[i] = s[1 + i - 1]
    BY <2>1, <1>1, SubSeqProperties, 1 \in Int, k - 1 \in Int
  <2>3. QED
    BY <2>2, <1>1
<1>3. /\ b \in Seq(S) /\ Len(b) = Len(s) - k
      /\ \A i \in 1..(Len(s) - k) : b[i] = s[k + i]
  <2>1. \A i \in (k + 1)..Len(s) : s[i] \in S
    BY <1>1
  <2>2. /\ b \in Seq(S) /\ Len(b) = IF k + 1 <= Len(s) THEN Len(s) - (k + 1) + 1 ELSE 0
        /\ \A i \in 1..(Len(s) - (k + 1) + 1) : b[i] = s[(k + 1) + i - 1]
    BY <2>1, <1>1, SubSeqProperties, k + 1 \in Int, Len(s) \in Int
  <2>3. QED
    BY <2>2, <1>1
<1> HIDE DEF a, b
<1>4. /\ a \o b \in Seq(S) /\ Len(a \o b) = Len(a) + Len(b)
      /\ \A i \in 1..(Len(a) + Len(b)) :
            (a \o b)[i] = IF i <= Len(a) THEN a[i] ELSE b[i - Len(a)]
  BY <1>2, <1>3, ConcatProperties
<1>5. ASSUME NEW i \in 1..(Len(s) - 1)
      PROVE  (a \o b)[i] = s[IF i < k THEN i ELSE i + 1]
  <2>1. CASE i < k
    <3>1. i \in 1..(Len(a) + Len(b)) /\ i <= Len(a) /\ i \in 1..(k - 1)
      BY <2>1, <1>1, <1>2, <1>3
    <3>2. (a \o b)[i] = a[i]
      BY <3>1, <1>4
    <3>3. QED
      BY <2>1, <3>1, <3>2, <1>2
  <2>2. CASE ~(i < k)
    <3>1. /\ i \in 1..(Len(a) + Len(b)) /\ ~(i <= Len(a)) /\ i - Len(a) = i - (k - 1)
          /\ i - (k - 1) \in 1..(Len(s) - k)
      BY <2>2, <1>1, <1>2, <1>3
    <3>2. (a \o b)[i] = b[i - (k - 1)]
      BY <3>1, <1>4
    <3>3. b[i - (k - 1)] = s[k + (i - (k - 1))]
      BY <3>1, <1>3
    <3>4. QED
      BY <2>2, <3>2, <3>3, <1>1
  <2>3. QED
    BY <2>1, <2>2
<1>6. RemoveAt(s, k) = a \o b
  BY DEF a, b, RemoveAt
<1>7. Len(a \o b) = Len(s) - 1
  BY <1>1, <1>2, <1>3, <1>4
<1>8. QED
  BY <1>4, <1>5, <1>6, <1>7

\* RemoveAt takes one connection and leaves the conids distinct.
LEMMA RemovedSet ==
  ASSUME NEW S, NEW s \in Seq(S), NEW k \in DOMAIN s
  PROVE  /\ ToSet(s) = ToSet(RemoveAt(s, k)) \cup {s[k]}
         /\ Distinct(s) => /\ Distinct(RemoveAt(s, k))
                           /\ \A x \in ToSet(RemoveAt(s, k)) : x.conid # s[k].conid
<1> DEFINE r == RemoveAt(s, k)
           Old(i) == IF i < k THEN i ELSE i + 1
<1>1. /\ DOMAIN s = 1..Len(s) /\ Len(s) \in Nat /\ k \in 1..Len(s)
      /\ r \in Seq(S) /\ DOMAIN r = 1..(Len(s) - 1)
      /\ \A i \in 1..(Len(s) - 1) : r[i] = s[Old(i)]
  <2>1. /\ r \in Seq(S) /\ Len(r) = Len(s) - 1
        /\ \A i \in 1..(Len(s) - 1) : r[i] = s[Old(i)]
    BY Removed
  <2>2. DOMAIN s = 1..Len(s) /\ Len(s) \in Nat /\ k \in 1..Len(s)
    OBVIOUS
  <2>3. DOMAIN r = 1..(Len(s) - 1)
    <3> HIDE DEF r
    <3>1. QED
      BY <2>1
  <2>4. QED
    BY <2>1, <2>2, <2>3
<1> HIDE DEF r
<1>2. ASSUME NEW x \in ToSet(r)
      PROVE  x \in ToSet(s) /\ (Distinct(s) => x.conid # s[k].conid)
  <2>1. PICK i \in DOMAIN r : x = r[i]
    BY DEF ToSet
  <2>2. Old(i) \in DOMAIN s /\ Old(i) # k /\ x = s[Old(i)]
    BY <1>1, <2>1
  <2>3. QED
    BY <2>2, <1>1 DEF ToSet, Distinct
<1>3. ASSUME NEW x \in ToSet(s), x # s[k] PROVE x \in ToSet(r)
  <2>1. PICK i \in DOMAIN s : x = s[i]
    BY DEF ToSet
  <2>2. CASE i < k
    <3>1. i \in DOMAIN r /\ r[i] = x
      BY <1>1, <2>1, <2>2
    <3>2. QED
      BY <3>1 DEF ToSet
  <2>3. CASE ~(i < k)
    <3>1. i - 1 \in DOMAIN r /\ r[i - 1] = x
      BY <1>1, <2>1, <2>3, <1>3
    <3>2. QED
      BY <3>1 DEF ToSet
  <2>4. QED
    BY <2>2, <2>3
<1>4. ASSUME Distinct(s) PROVE Distinct(r)
  <2>1. SUFFICES ASSUME NEW i \in DOMAIN r, NEW j \in DOMAIN r, r[i].conid = r[j].conid
                 PROVE  i = j
    BY DEF Distinct
  <2>2. Old(i) \in DOMAIN s /\ Old(j) \in DOMAIN s /\ s[Old(i)].conid = s[Old(j)].conid
    BY <1>1, <2>1
  <2>3. Old(i) = Old(j)
    BY <2>2, <1>4 DEF Distinct
  <2>4. QED
    BY <2>3, <1>1
<1>5. s[k] \in ToSet(s)
  BY <1>1 DEF ToSet
<1>6. QED
  BY <1>2, <1>3, <1>4, <1>5 DEF r

\* A connection of a new conid keeps the conids distinct.
LEMMA Appended ==
  ASSUME NEW S, NEW s \in Seq(S), NEW x \in S, Distinct(s),
         \A y \in ToSet(s) : y.conid # x.conid
  PROVE  Append(s, x) \in Seq(S) /\ Distinct(Append(s, x))
<1> DEFINE r == Append(s, x)
<1>1. /\ r \in Seq(S) /\ DOMAIN r = 1..(Len(s) + 1) /\ DOMAIN s = 1..Len(s)
      /\ r[Len(s) + 1] = x
      /\ \A i \in 1..Len(s) : r[i] = s[i]
  OBVIOUS
<1>2. \A i \in 1..Len(s) : r[i].conid # x.conid
  BY <1>1 DEF ToSet
<1> HIDE DEF r
<1>3. SUFFICES ASSUME NEW i \in DOMAIN r, NEW j \in DOMAIN r, r[i].conid = r[j].conid
               PROVE  i = j
  BY <1>1 DEF Distinct, r
<1>4. CASE i \in DOMAIN s /\ j \in DOMAIN s
  BY <1>1, <1>3, <1>4 DEF Distinct
<1>5. CASE i \in DOMAIN s /\ j = Len(s) + 1
  BY <1>1, <1>2, <1>3, <1>5
<1>6. CASE j \in DOMAIN s /\ i = Len(s) + 1
  BY <1>1, <1>2, <1>3, <1>6
<1>7. QED
  BY <1>1, <1>4, <1>5, <1>6

\* Moving a connection to the front of the LRU order changes the order only.
LEMMA ToFrontKeeps ==
  ASSUME NEW S, NEW s \in Seq(S), NEW k \in DOMAIN s, Distinct(s)
  PROVE  /\ ToFront(s, k) \in Seq(S) /\ Len(ToFront(s, k)) = Len(s)
         /\ Distinct(ToFront(s, k)) /\ ToSet(ToFront(s, k)) = ToSet(s)
<1>1. /\ RemoveAt(s, k) \in Seq(S) /\ Len(RemoveAt(s, k)) = Len(s) - 1
      /\ s[k] \in S /\ Len(s) \in Nat
  BY Removed
<1>2. /\ ToSet(s) = ToSet(RemoveAt(s, k)) \cup {s[k]} /\ Distinct(RemoveAt(s, k))
      /\ \A x \in ToSet(RemoveAt(s, k)) : x.conid # s[k].conid
  BY RemovedSet
<1>3. ToSet(ToFront(s, k)) = ToSet(s)
  BY <1>1, <1>2, SetOfAppend DEF ToFront
<1>4. ToFront(s, k) \in Seq(S) /\ Distinct(ToFront(s, k))
  BY <1>1, <1>2, Appended DEF ToFront
<1>5. Len(ToFront(s, k)) = Len(s)
  BY <1>1 DEF ToFront
<1>6. QED
  BY <1>3, <1>4, <1>5

\* Two members of a sequence without repeated conids are told apart by them.
LEMMA SameConid ==
  ASSUME NEW s, Distinct(s), NEW x \in ToSet(s), NEW y \in ToSet(s), x.conid = y.conid
  PROVE  x = y
BY DEF Distinct, ToSet

\* IndexOf finds the connection of a conid that is in use.
LEMMA IndexFound ==
  ASSUME NEW s, NEW id \in Ids(s)
  PROVE  IndexOf(s, id) \in DOMAIN s /\ s[IndexOf(s, id)].conid = id
<1>1. \E k \in DOMAIN s : s[k].conid = id
  BY DEF Ids
<1>2. QED
  BY <1>1 DEF IndexOf

\* connection_init finds a conid while fewer than max_connections are in use.
LEMMA LeastMember ==
  ASSUME NEW S \in SUBSET Nat, S # {}
  PROVE  (CHOOSE id \in S : \A other \in S : id <= other) \in S
<1>1. PICK x \in S : \A y \in S : ~(<<y, x>> \in OpToRel(<, Nat))
  BY NatLessThanWellFounded, WFMin
<1>2. ASSUME NEW y \in S PROVE x <= y
  <2>1. ~(y < x)
    BY <1>1 DEF OpToRel
  <2>2. QED
    BY <2>1
<1>3. QED
  BY <1>2

\* While the client has room, find_unused_conid finds a conid not in use.
LEMMA UnusedConid ==
  ASSUME cons \in Seq(Connection), Len(cons) < max_connections
  PROVE  find_unused_conid \in Conids \ Ids(cons)
<1> DEFINE free == Conids \ Ids(cons)
           from == {id \in free : id >= next_conid}
           f == [k \in 1..Len(cons) |-> cons[k].conid]
<1>1. free \subseteq Nat /\ from \subseteq free
  BY UdpGwAssumption DEF Conids
<1>2. Ids(cons) \subseteq Conids
  <2>1. \A k \in DOMAIN cons : cons[k] \in Connection
    OBVIOUS
  <2>2. \A k \in DOMAIN cons : cons[k].conid \in Conids
    BY <2>1 DEF Connection
  <2>3. QED
    BY <2>2 DEF Ids
<1>3. IsFiniteSet(Ids(cons)) /\ Cardinality(Ids(cons)) <= Len(cons)
  <2>1. f \in Surjection(1..Len(cons), Ids(cons))
    BY DEF Surjection, Ids
  <2>2. IsFiniteSet(1..Len(cons)) /\ Cardinality(1..Len(cons)) = Len(cons)
    BY FS_Interval, 1 \in Int, Len(cons) \in Nat
  <2>3. QED
    BY <2>1, <2>2, FS_Surjection
<1>4. IsFiniteSet(Conids) /\ Cardinality(Conids) = max_connections
  <2>1. 0 \in Int /\ max_connections - 1 \in Int /\ ~(0 > max_connections - 1)
        /\ (max_connections - 1) - 0 + 1 = max_connections
    BY UdpGwAssumption
  <2>2. /\ IsFiniteSet(0..(max_connections - 1))
        /\ Cardinality(0..(max_connections - 1)) = (max_connections - 1) - 0 + 1
    BY <2>1, FS_Interval
  <2>3. QED
    BY <2>1, <2>2 DEF Conids
<1>5. free # {}
  <2>1. SUFFICES ASSUME free = {} PROVE FALSE
    OBVIOUS
  <2>2. Ids(cons) = Conids
    BY <2>1, <1>2
  <2>3. QED
    BY <2>2, <1>3, <1>4, UdpGwAssumption, Len(cons) \in Nat
<1> HIDE DEF free, from, f
<1>6. CASE from # {}
  <2>1. (CHOOSE id \in from : \A other \in from : id <= other) \in from
    BY <1>1, <1>6, LeastMember
  <2>2. QED
    BY <2>1, <1>1, <1>6 DEF find_unused_conid, free, from
<1>7. CASE from = {}
  <2>1. (CHOOSE id \in free : \A other \in free : id <= other) \in free
    BY <1>1, <1>5, LeastMember
  <2>2. QED
    BY <2>1, <1>7 DEF find_unused_conid, free, from
<1>8. QED
  BY <1>6, <1>7

-----------------------------------------------------------------------------
(* What a step does to the owners of the conids.                           *)

\* Owners and askers are pairs.
LEMMA TypedState ==
  ASSUME ClientInv, GatewayInv
  PROVE  \A id : Owners(id) \in SUBSET Pair /\ Asked(id) \in SUBSET Pair
<1>1. \A c \in ToSet(cons) : c \in Connection
  BY DEF ClientInv, ToSet
<1>2. \A c \in ToSet(cons) : PairOf(c) \in Pair
  BY <1>1 DEF Connection, Pair, PairOf
<1>3. \A x \in ToSet(scons) : x \in GatewayCon
  BY DEF GatewayInv, ToSet
<1>4. \A x \in ToSet(scons) : x.asked \in SUBSET Pair
  BY <1>3 DEF GatewayCon
<1>5. QED
  BY <1>2, <1>4 DEF Owners, Asked

\* The conids in use are those of the connections.
LEMMA IdsOfSet ==
  ASSUME NEW s
  PROVE  /\ \A x \in ToSet(s) : x.conid \in Ids(s)
         /\ \A id \in Ids(s) : \E x \in ToSet(s) : x.conid = id
BY DEF Ids, ToSet

\* Every conid keeps an owner; it may get another one, when it is reassigned.
Keeps ==
  /\ reassigned \subseteq reassigned'
  /\ \A c \in ToSet(cons) : \E d \in ToSet(cons') :
        d.conid = c.conid /\ (c.conid \in reassigned' \/ PairOf(d) = PairOf(c))

\* What was sound stays sound while conids keep their owners.
LEMMA SoundKept ==
  ASSUME Keeps
  PROVE  /\ \A id, a : Owned(id, a) => Owned(id, a)'
         /\ \A p : Sound(p) => Sound(p)'
         /\ \A x : SoundCon(x) => SoundCon(x)'
<1>1. ASSUME NEW id, NEW a, Owned(id, a)
      PROVE  Owned(id, a)'
  <2>1. PICK c \in ToSet(cons) : c.conid = id /\ (id \in reassigned \/ a = PairOf(c))
    BY <1>1 DEF Owned
  <2>2. PICK d \in ToSet(cons') :
           d.conid = c.conid /\ (c.conid \in reassigned' \/ PairOf(d) = PairOf(c))
    BY DEF Keeps
  <2>3. id \in reassigned' \/ a = PairOf(d)
    BY <2>1, <2>2 DEF Keeps
  <2>4. QED
    BY <2>1, <2>2, <2>3 DEF Owned
<1>2. \A p : Sound(p) => Sound(p)'
  BY <1>1 DEF Sound
<1>3. ASSUME NEW x, SoundCon(x) PROVE SoundCon(x)'
  BY <1>1, <1>2, <1>3 DEF SoundCon
<1>4. QED
  BY <1>1, <1>2, <1>3

\* Reordering the connections changes no owner.
LEMMA SameOwners ==
  ASSUME ToSet(cons') = ToSet(cons), reassigned' = reassigned
  PROVE  Keeps /\ (\A id : Owners(id)' = Owners(id)) /\ Ids(cons') = Ids(cons)
<1>1. Keeps
  BY DEF Keeps
<1>2. \A id : Owners(id)' = Owners(id)
  BY DEF Owners
<1>3. Ids(cons') = Ids(cons)
  <2>1. ASSUME NEW id PROVE id \in Ids(cons') <=> id \in Ids(cons)
    BY IdsOfSet
  <2>2. QED
    BY <2>1
<1>4. QED
  BY <1>1, <1>2, <1>3

\* A step of the client alone keeps what holds of the gateway ...
LEMMA GatewayKept ==
  ASSUME GatewayInv, Keeps, UNCHANGED <<scons, closing, alive, up>>
  PROVE  GatewayInv'
<1>1. \A x \in ToSet(scons) \cup closing : SoundCon(x)'
  BY SoundKept DEF GatewayInv
<1>2. QED
  BY <1>1 DEF GatewayInv

\* ... and of the answers delivered so far.
LEMMA CrossedKept ==
  ASSUME CrossedInv, Keeps, crossed' = crossed
  PROVE  CrossedInv'
BY DEF CrossedInv, OwnAnswers, Keeps

\* The chain does not miss pairs that stop using the gateway's socket.
LEMMA ChainKept ==
  ASSUME ClientInv, ChainInv, UNCHANGED <<unsent, up, cbuf>>,
         \A id \in Conids : Asked(id)' \in SUBSET Asked(id) /\ Owners(id)' = Owners(id)
  PROVE  ChainInv'
<1>1. SUFFICES ASSUME NEW id \in Conids \ unsent
               PROVE  /\ Chain(id, Asked(id)', up', cbuf'[id], Owners(id)')
                      /\ \A a, b \in Asked(id)' : a = b
  BY DEF ChainInv
<1>2. Chain(id, Asked(id), up, cbuf[id], Owners(id)) /\ \A a, b \in Asked(id) : a = b
  BY DEF ChainInv
<1>3. Chain(id, Asked(id)', up, cbuf[id], Owners(id))
  BY <1>2, ChainForget DEF ClientInv
<1>4. QED
  BY <1>2, <1>3

\* The client's packet joins its connection's buffer, or is dropped.
LEMMA SendKeeps ==
  ASSUME ClientInv, GatewayInv, ChainInv, NEW con \in Connection, NEW rebind \in BOOLEAN,
         connection_send(con, rebind, PairOf(con)),
         con \in ToSet(cons'), Distinct(cons'), Keeps,
         rebind \/ PairOf(con) \in Owners(con.conid),
         \A id \in Conids \ {con.conid} : Owners(id)' = Owners(id),
         UNCHANGED <<up, scons>>
  PROVE  /\ cbuf' \in [Conids -> Seq(Packet)]
         /\ \A id \in Conids : \A p \in ToSet(cbuf'[id]) : p.conid = id /\ Sound(p)'
         /\ ChainInv'
<1> DEFINE x == [conid |-> con.conid, rebind |-> rebind, remote |-> con.remote,
                 payload |-> PairOf(con)]
<1>1. con.conid \in Conids /\ PairOf(con) \in Pair /\ con.remote \in Remotes
  BY DEF Connection, PairOf, Pair
<1>2. /\ x \in Packet /\ x.conid = con.conid /\ x.payload = PairOf(con)
      /\ (x.rebind <=> rebind) /\ x.remote = con.remote
  BY <1>1 DEF Packet
<1>3. Sound(x)'
  <2>1. x.remote = x.payload.remote
    BY <1>2 DEF PairOf
  <2>2. Owned(x.conid, x.payload)'
    BY <1>2 DEF Owned
  <2>3. QED
    BY <2>1, <2>2 DEF Sound
<1>4. cbuf \in [Conids -> Seq(Packet)] /\ up \in Seq(Packet)
  BY DEF ClientInv
<1>5. \A id \in Conids : \A p \in ToSet(cbuf[id]) : p.conid = id /\ Sound(p)'
  BY SoundKept DEF ClientInv
<1>6. \A id : Asked(id)' = Asked(id)
  BY DEF Asked
<1>7. \A id : Owners(id) \in SUBSET Pair /\ Asked(id) \in SUBSET Pair
  BY TypedState
<1>8. CASE unsent' = unsent \cup {con.conid} /\ cbuf' = cbuf
  <2>1. ASSUME NEW id \in Conids \ unsent'
        PROVE  /\ Chain(id, Asked(id), up, cbuf[id], Owners(id))'
               /\ \A a, b \in Asked(id)' : a = b
    <3>1. id \in Conids \ unsent /\ Owners(id)' = Owners(id)
      BY <1>8
    <3>2. Chain(id, Asked(id), up, cbuf[id], Owners(id)) /\ \A a, b \in Asked(id) : a = b
      BY <3>1 DEF ChainInv
    <3>3. QED
      BY <1>6, <1>8, <3>1, <3>2
  <2>2. QED
    BY <1>4, <1>5, <1>8, <2>1 DEF ChainInv
<1>9. CASE unsent' = unsent /\ cbuf' = [cbuf EXCEPT ![con.conid] = Append(@, x)]
  <2>1. /\ cbuf'[con.conid] = Append(cbuf[con.conid], x) /\ cbuf[con.conid] \in Seq(Packet)
        /\ \A id \in Conids \ {con.conid} : cbuf'[id] = cbuf[id]
    BY <1>1, <1>4, <1>9
  <2> HIDE DEF x
  <2>2. cbuf' \in [Conids -> Seq(Packet)]
    BY <1>1, <1>2, <1>4, <1>9, <2>1
  <2>3. ASSUME NEW id \in Conids, NEW p \in ToSet(cbuf'[id])
        PROVE  p.conid = id /\ Sound(p)'
    <3>1. CASE id = con.conid
      <4>1. p \in ToSet(cbuf[id]) \/ p = x
        <5>1. ToSet(Append(cbuf[con.conid], x)) = ToSet(cbuf[con.conid]) \cup {x}
          BY <2>1, <1>2, SetOfAppend
        <5>2. QED
          BY <5>1, <2>1, <2>3, <3>1
      <4>2. QED
        BY <4>1, <3>1, <1>2, <1>3, <1>5
    <3>2. CASE id # con.conid
      BY <3>2, <2>1, <2>3, <1>5
    <3>3. QED
      BY <3>1, <3>2
  <2>4. ASSUME NEW id \in Conids \ unsent'
        PROVE  /\ Chain(id, Asked(id)', up', cbuf'[id], Owners(id)')
               /\ \A a, b \in Asked(id)' : a = b
    <3>1. Chain(id, Asked(id), up, cbuf[id], Owners(id)) /\ \A a, b \in Asked(id) : a = b
      BY <1>9 DEF ChainInv
    <3>2. CASE id = con.conid
      <4>1. Owners(id)' \in SUBSET {x.payload}
        BY <1>2, <3>2, SameConid DEF Owners
      <4>2. Chain(id, Asked(id), up, Append(cbuf[id], x), Owners(id)')
        BY <3>1, <3>2, <4>1, <1>2, <1>4, <1>7, <2>1, ChainAppend
      <4>3. QED
        BY <3>1, <3>2, <4>2, <2>1, <1>6
    <3>3. CASE id # con.conid
      BY <3>1, <3>3, <2>1, <1>6
    <3>4. QED
      BY <3>2, <3>3
  <2>5. ChainInv'
    BY <2>4 DEF ChainInv
  <2>6. QED
    BY <2>2, <2>3, <2>5
<1>10. QED
  BY <1>8, <1>9 DEF connection_send

-----------------------------------------------------------------------------
(* The steps of the client.                                                *)

\* Without a pending read nothing is pending.
LEMMA JobsFree ==
  ASSUME JobsInv, [job |-> "read"] \notin ToSet(jobs)
  PROVE  jobs = <<>>
<1>1. ASSUME jobs = <<[job |-> "read"]>> PROVE FALSE
  BY <1>1 DEF ToSet
<1>2. ASSUME NEW c, jobs = <<[job |-> "first", conid |-> c], [job |-> "read"]>> PROVE FALSE
  <2>1. 2 \in DOMAIN jobs /\ jobs[2] = [job |-> "read"]
    BY <1>2
  <2>2. QED
    BY <2>1 DEF ToSet
<1>3. QED
  BY <1>1, <1>2 DEF JobsInv

\* The jobs after a datagram was accepted, and with one set above them.
LEMMA AcceptedJobs ==
  ASSUME jobs = <<>>
  PROVE  /\ Accepted = <<[job |-> "read"]>>
         /\ \A j : BPending_Set(Accepted, j) = <<j, [job |-> "read"]>>
<1> DEFINE read == [job |-> "read"]
<1>1. Accepted = <<read>>
  <2>1. <<read>> \in Seq({read})
    OBVIOUS
  <2>2. <<read>> \o <<>> = <<read>>
    BY <2>1, ConcatEmptySeq
  <2>3. QED
    BY <2>2 DEF Accepted, BPending_Set
<1> HIDE DEF read
<1>2. ASSUME NEW j PROVE <<j>> \o <<read>> = <<j, read>>
  <2>1. <<j>> \in Seq({j, read}) /\ read \in {j, read}
    OBVIOUS
  <2>2. Append(<<j>>, read) = <<j>> \o <<read>>
    BY <2>1, AppendIsConcat
  <2>3. Append(<<j>>, read) = <<j, read>>
    <3> DEFINE s == Append(<<j>>, read)
               t == <<j, read>>
    <3>1. s \in Seq({j, read}) /\ t \in Seq({j, read}) /\ Len(s) = 2 /\ Len(t) = 2
      BY <2>1
    <3>2. s[1] = j /\ s[2] = read /\ t[1] = j /\ t[2] = read
      BY <2>1
    <3> HIDE DEF s, t
    <3>3. \A i \in 1..Len(s) : s[i] = t[i]
      BY <3>1, <3>2
    <3>4. s = t
      BY <3>1, <3>3, SeqEqual
    <3>5. QED
      BY <3>4 DEF s, t
  <2>4. QED
    BY <2>2, <2>3
<1>3. QED
  BY <1>1, <1>2 DEF BPending_Set, read

\* A datagram of a pair that has a connection.
LEMMA SubmitKnownKeeps ==
  ASSUME UdpInv, NEW l \in Locals, NEW r \in Remotes, SubmitKnown(l, r)
  PROVE  UdpInv'
<1>1. PICK k \in DOMAIN cons :
         /\ cons[k].local = l /\ cons[k].remote = r
         /\ Read(l, r) /\ jobs' = Accepted
         /\ cons' = ToFront(cons, k)
         /\ connection_send(cons[k], FALSE, data')
         /\ UNCHANGED <<next_conid, link, gateway, up, down, reassigned, crossed>>
  BY DEF SubmitKnown
<1>2. cons \in Seq(Connection) /\ Distinct(cons) /\ Len(cons) <= max_connections
  BY DEF UdpInv, ClientInv
<1>3. cons[k] \in Connection /\ cons[k] \in ToSet(cons) /\ data' = PairOf(cons[k])
  BY <1>1, <1>2 DEF Read, PairOf, ToSet
<1>4. /\ cons' \in Seq(Connection) /\ Distinct(cons') /\ Len(cons') <= max_connections
      /\ ToSet(cons') = ToSet(cons)
  BY <1>1, <1>2, ToFrontKeeps
<1>5. Keeps /\ (\A id : Owners(id)' = Owners(id)) /\ Ids(cons') = Ids(cons)
  BY <1>1, <1>4, SameOwners
<1>6. PairOf(cons[k]) \in Owners(cons[k].conid)
  BY <1>3 DEF Owners
<1>7. /\ cbuf' \in [Conids -> Seq(Packet)]
      /\ \A id \in Conids : \A p \in ToSet(cbuf'[id]) : p.conid = id /\ Sound(p)'
      /\ ChainInv'
  <2>1. connection_send(cons[k], FALSE, PairOf(cons[k])) /\ FALSE \in BOOLEAN
    BY <1>1, <1>3
  <2>2. UNCHANGED <<up, scons>>
    BY <1>1 DEF gateway
  <2>3. QED
    BY <2>1, <2>2, <1>3, <1>4, <1>5, <1>6, SendKeeps DEF UdpInv
<1>8. ClientInv'
  BY <1>1, <1>4, <1>5, <1>7, SoundKept DEF UdpInv, ClientInv
<1>9. JobsInv'
  BY <1>1, JobsFree, AcceptedJobs DEF UdpInv, JobsInv, Read
<1>10. GatewayInv' /\ CrossedInv'
  BY <1>1, <1>5, GatewayKept, CrossedKept DEF UdpInv, gateway
<1>11. QED
  BY <1>7, <1>8, <1>9, <1>10 DEF UdpInv

\* A new connection could not be made.
LEMMA ConnectionInitFailedKeeps ==
  ASSUME UdpInv, NEW l \in Locals, NEW r \in Remotes, connection_init_failed(l, r)
  PROVE  UdpInv'
<1>1. /\ Read(l, r) /\ jobs' = Accepted
      /\ UNCHANGED <<cons, next_conid, cbuf, unsent, alive, scons, closing, up, down,
                     reassigned, crossed>>
  BY DEF connection_init_failed, client, gateway
<1>2. Keeps
  BY <1>1, SameOwners
<1>3. ClientInv'
  BY <1>1, <1>2, SoundKept DEF UdpInv, ClientInv
<1>4. JobsInv'
  BY <1>1, JobsFree, AcceptedJobs DEF UdpInv, JobsInv, Read
<1>5. GatewayInv' /\ CrossedInv'
  BY <1>1, <1>2, GatewayKept, CrossedKept DEF UdpInv
<1>6. ChainInv'
  <2>1. \A id : Asked(id)' = Asked(id) /\ Owners(id)' = Owners(id)
    BY <1>1 DEF Asked, Owners
  <2>2. QED
    BY <1>1, <2>1, ChainKept DEF UdpInv
<1>7. QED
  BY <1>3, <1>4, <1>5, <1>6 DEF UdpInv

\* A datagram of a new pair, with a conid to spare.
LEMMA ConnectionInitKeeps ==
  ASSUME UdpInv, NEW l \in Locals, NEW r \in Remotes, connection_init(l, r)
  PROVE  UdpInv'
<1> DEFINE id == find_unused_conid
           con == [conid |-> id, local |-> l, remote |-> r]
<1>1. /\ Len(cons) < max_connections /\ Read(l, r)
      /\ cons' = Append(cons, con) /\ next_conid' = id
      /\ jobs' = BPending_Set(Accepted, [job |-> "first", conid |-> id])
      /\ UNCHANGED <<cbuf, unsent, alive, scons, closing, up, down, reassigned, crossed>>
  BY DEF connection_init, gateway
<1>2. cons \in Seq(Connection) /\ Distinct(cons) /\ Len(cons) \in Nat
  BY DEF UdpInv, ClientInv
<1>3. id \in Conids \ Ids(cons)
  BY <1>1, <1>2, UnusedConid
<1> HIDE DEF id
<1>4. /\ con \in Connection /\ con.conid = id
      /\ PairOf(con) = [local |-> l, remote |-> r]
  BY <1>3 DEF Connection, PairOf
<1> HIDE DEF con
<1>5. \A c \in ToSet(cons) : c.conid # id
  BY <1>3, IdsOfSet
<1>6. /\ cons' \in Seq(Connection) /\ Distinct(cons') /\ Len(cons') <= max_connections
      /\ ToSet(cons') = ToSet(cons) \cup {con}
  <2>1. cons' \in Seq(Connection) /\ Distinct(cons')
    BY <1>1, <1>2, <1>4, <1>5, Appended
  <2>2. Len(cons') <= max_connections
    BY <1>1, <1>2, <1>4, UdpGwAssumption
  <2>3. ToSet(cons') = ToSet(cons) \cup {con}
    BY <1>1, <1>2, <1>4, SetOfAppend
  <2>4. QED
    BY <2>1, <2>2, <2>3
<1>7. Keeps
  BY <1>1, <1>6 DEF Keeps
<1>8. reassigned' \subseteq Ids(cons')
  <2>1. ASSUME NEW i \in reassigned PROVE i \in Ids(cons')
    <3>1. PICK c \in ToSet(cons) : c.conid = i
      BY IdsOfSet DEF UdpInv, ClientInv
    <3>2. QED
      BY <3>1, <1>6, IdsOfSet
  <2>2. QED
    BY <1>1, <2>1
<1>9. ClientInv'
  BY <1>1, <1>3, <1>6, <1>7, <1>8, SoundKept DEF UdpInv, ClientInv
<1>10. JobsInv'
  <2>1. jobs' = <<[job |-> "first", conid |-> con.conid], [job |-> "read"]>>
    BY <1>1, <1>4, JobsFree, AcceptedJobs DEF UdpInv, Read
  <2>2. con \in ToSet(cons') /\ data' = PairOf(con)
    BY <1>1, <1>4, <1>6 DEF Read
  <2>3. QED
    BY <2>1, <2>2 DEF JobsInv
<1>11. GatewayInv' /\ CrossedInv'
  BY <1>1, <1>7, GatewayKept, CrossedKept DEF UdpInv
<1>12. ChainInv'
  <2>1. SUFFICES ASSUME NEW i \in Conids \ unsent
                 PROVE  /\ Chain(i, Asked(i)', up', cbuf'[i], Owners(i)')
                        /\ \A a, b \in Asked(i)' : a = b
    BY <1>1 DEF ChainInv
  <2>2. Chain(i, Asked(i), up, cbuf[i], Owners(i)) /\ \A a, b \in Asked(i) : a = b
    BY DEF UdpInv, ChainInv
  <2>3. Asked(i)' = Asked(i)
    BY <1>1 DEF Asked
  <2>4. CASE i # id
    <3>1. Owners(i)' = Owners(i)
      BY <1>4, <1>6, <2>4 DEF Owners
    <3>2. QED
      BY <1>1, <2>2, <2>3, <3>1
  <2>5. CASE i = id
    <3>1. \A a : ~Owned(i, a)
      BY <1>5, <2>5 DEF Owned
    <3>2. Asked(i) = {}
      BY <3>1 DEF UdpInv, GatewayInv, SoundCon, Asked
    <3>3. cbuf[i] = <<>>
      <4>1. cbuf[i] \in Seq(Packet) /\ \A p \in ToSet(cbuf[i]) : p.conid = i /\ Sound(p)
        BY DEF UdpInv, ClientInv
      <4>2. \A p \in ToSet(cbuf[i]) : FALSE
        BY <4>1, <3>1 DEF Sound
      <4>3. QED
        BY <4>1, <4>2, SetOfTail
    <3>4. up \in Seq(Packet) /\ \A j \in DOMAIN up : up[j].conid # i
      BY <3>1 DEF UdpInv, ClientInv, Sound, ToSet
    <3>5. QED
      BY <1>1, <2>3, <3>2, <3>3, <3>4, ChainFresh
  <2>6. QED
    BY <2>4, <2>5
<1>13. QED
  BY <1>9, <1>10, <1>11, <1>12 DEF UdpInv

\* The head's conid is not in the tail.
LEMMA TailDistinct ==
  ASSUME NEW S, NEW s \in Seq(S), s # <<>>, Distinct(s)
  PROVE  Distinct(Tail(s)) /\ \A y \in ToSet(Tail(s)) : y.conid # Head(s).conid
<1> DEFINE r == Tail(s)
<1>1. /\ DOMAIN s = 1..Len(s) /\ 1 \in DOMAIN s /\ Head(s) = s[1] /\ DOMAIN r = 1..(Len(s) - 1)
      /\ \A i \in DOMAIN r : r[i] = s[i + 1] /\ i + 1 \in DOMAIN s /\ i + 1 # 1
  OBVIOUS
<1> HIDE DEF r
<1>2. Distinct(r)
  <2>1. SUFFICES ASSUME NEW i \in DOMAIN r, NEW j \in DOMAIN r, r[i].conid = r[j].conid
                 PROVE  i = j
    BY DEF Distinct
  <2>2. i + 1 = j + 1
    BY <1>1, <2>1 DEF Distinct
  <2>3. QED
    BY <2>2, <1>1
<1>3. \A y \in ToSet(r) : y.conid # Head(s).conid
  BY <1>1 DEF ToSet, Distinct
<1>4. QED
  BY <1>2, <1>3 DEF r

\* A datagram of a new pair that takes over the oldest conid.
LEMMA ReuseConnectionKeeps ==
  ASSUME UdpInv, NEW l \in Locals, NEW r \in Remotes, reuse_connection(l, r)
  PROVE  UdpInv'
<1> DEFINE h == Head(cons)
           con == [h EXCEPT !.local = l, !.remote = r]
<1>1. /\ Len(cons) = max_connections /\ Read(l, r) /\ jobs' = Accepted
      /\ cons' = Append(Tail(cons), con)
      /\ reassigned' = reassigned \cup {con.conid}
      /\ connection_send(con, TRUE, data')
      /\ UNCHANGED <<next_conid, alive, scons, closing, up, down, crossed>>
  BY DEF reuse_connection, gateway
<1>2. cons \in Seq(Connection) /\ Distinct(cons) /\ cons # <<>>
  <2>1. cons \in Seq(Connection) /\ Distinct(cons)
    BY DEF UdpInv, ClientInv
  <2>2. QED
    BY <2>1, <1>1, UdpGwAssumption
<1>3. h \in Connection /\ Tail(cons) \in Seq(Connection) /\ Len(Tail(cons)) = Len(cons) - 1
  BY <1>2
<1> HIDE DEF h
<1>4. /\ con \in Connection /\ con.conid = h.conid
      /\ PairOf(con) = [local |-> l, remote |-> r]
  BY <1>3 DEF Connection, PairOf
<1> HIDE DEF con
<1>5. /\ Distinct(Tail(cons)) /\ (\A c \in ToSet(Tail(cons)) : c.conid # con.conid)
      /\ h \in ToSet(cons) /\ ToSet(Tail(cons)) \subseteq ToSet(cons)
      /\ \A c \in ToSet(cons) : c = h \/ c \in ToSet(Tail(cons))
  BY <1>2, <1>4, TailDistinct, SetOfTail DEF h
<1>6. /\ cons' \in Seq(Connection) /\ Distinct(cons') /\ Len(cons') <= max_connections
      /\ ToSet(cons') = ToSet(Tail(cons)) \cup {con}
  <2>1. cons' \in Seq(Connection) /\ Distinct(cons')
    BY <1>1, <1>3, <1>4, <1>5, Appended
  <2>2. Len(cons') = Len(Tail(cons)) + 1
    BY <1>1, <1>3, <1>4
  <2>3. Len(cons') <= max_connections
    BY <2>2, <1>1, <1>3, UdpGwAssumption
  <2>4. ToSet(cons') = ToSet(Tail(cons)) \cup {con}
    <3>1. \A t \in Seq(Connection) : ToSet(Append(t, con)) = ToSet(t) \cup {con}
      BY <1>4, SetOfAppend
    <3>2. QED
      BY <3>1, <1>1, <1>3, Zenon
  <2>5. QED
    BY <2>1, <2>3, <2>4
<1>7. Keeps
  <2>1. ASSUME NEW c \in ToSet(cons)
        PROVE  \E d \in ToSet(cons') :
                  d.conid = c.conid /\ (c.conid \in reassigned' \/ PairOf(d) = PairOf(c))
    BY <1>1, <1>4, <1>5, <1>6
  <2>2. QED
    BY <1>1, <2>1 DEF Keeps
<1>8. reassigned' \subseteq Ids(cons')
  <2>1. ASSUME NEW i \in reassigned' PROVE i \in Ids(cons')
    <3>1. PICK c \in ToSet(cons) : c.conid = i
      BY <1>1, <1>4, <1>5, IdsOfSet DEF UdpInv, ClientInv
    <3>2. PICK d \in ToSet(cons') : d.conid = i
      BY <3>1, <1>7 DEF Keeps
    <3>3. QED
      BY <3>2, IdsOfSet
  <2>2. QED
    BY <2>1
<1>9. \A id \in Conids \ {con.conid} : Owners(id)' = Owners(id)
  <2>1. ASSUME NEW id \in Conids \ {con.conid}
        PROVE  {c \in ToSet(cons') : c.conid = id} = {c \in ToSet(cons) : c.conid = id}
    BY <1>4, <1>5, <1>6
  <2>2. QED
    BY <2>1 DEF Owners
<1>10. /\ cbuf' \in [Conids -> Seq(Packet)]
       /\ \A id \in Conids : \A p \in ToSet(cbuf'[id]) : p.conid = id /\ Sound(p)'
       /\ ChainInv'
  <2>1. connection_send(con, TRUE, PairOf(con)) /\ TRUE \in BOOLEAN
    BY <1>1, <1>4 DEF Read
  <2>2. con \in ToSet(cons')
    BY <1>6
  <2>3. QED
    BY <2>1, <2>2, <1>1, <1>4, <1>6, <1>7, <1>9, SendKeeps DEF UdpInv
<1>11. ClientInv'
  BY <1>1, <1>6, <1>7, <1>8, <1>10, SoundKept DEF UdpInv, ClientInv
<1>12. JobsInv'
  BY <1>1, JobsFree, AcceptedJobs DEF UdpInv, JobsInv, Read
<1>13. GatewayInv' /\ CrossedInv'
  BY <1>1, <1>7, GatewayKept, CrossedKept DEF UdpInv
<1>14. QED
  BY <1>10, <1>11, <1>12, <1>13 DEF UdpInv

\* The job that sends a new connection's first packet.
LEMMA FirstJobKeeps ==
  ASSUME UdpInv, connection_first_job_handler
  PROVE  UdpInv'
<1>1. /\ jobs # <<>> /\ Head(jobs).job = "first" /\ jobs' = Tail(jobs)
      /\ connection_send(cons[IndexOf(cons, Head(jobs).conid)], TRUE, data)
      /\ UNCHANGED <<cons, next_conid, data, alive, scons, closing, up, down, reassigned,
                     crossed>>
  BY DEF connection_first_job_handler, gateway
<1>2. PICK c \in ToSet(cons) :
         /\ jobs = <<[job |-> "first", conid |-> c.conid], [job |-> "read"]>>
         /\ data = PairOf(c)
  BY <1>1 DEF UdpInv, JobsInv
<1>3. Head(jobs).conid = c.conid /\ jobs' = <<[job |-> "read"]>>
  BY <1>1, <1>2
<1>4. cons \in Seq(Connection) /\ Distinct(cons) /\ c \in Connection
  BY DEF UdpInv, ClientInv, ToSet
<1>5. cons[IndexOf(cons, c.conid)] = c
  <2>1. c.conid \in Ids(cons)
    BY IdsOfSet
  <2>2. /\ IndexOf(cons, c.conid) \in DOMAIN cons
        /\ cons[IndexOf(cons, c.conid)].conid = c.conid
    BY <2>1, IndexFound
  <2>3. cons[IndexOf(cons, c.conid)] \in ToSet(cons)
    BY <2>2 DEF ToSet
  <2>4. QED
    BY <2>2, <2>3, <1>4, SameConid
<1>6. Keeps /\ \A id : Owners(id)' = Owners(id)
  BY <1>1, SameOwners
<1>7. /\ cbuf' \in [Conids -> Seq(Packet)]
      /\ \A id \in Conids : \A p \in ToSet(cbuf'[id]) : p.conid = id /\ Sound(p)'
      /\ ChainInv'
  <2>1. connection_send(c, TRUE, PairOf(c)) /\ TRUE \in BOOLEAN
    BY <1>1, <1>2, <1>3, <1>5
  <2>2. QED
    BY <2>1, <1>1, <1>4, <1>6, SendKeeps DEF UdpInv
<1>8. ClientInv'
  BY <1>1, <1>6, <1>7, SoundKept DEF UdpInv, ClientInv
<1>9. JobsInv'
  BY <1>3 DEF JobsInv
<1>10. GatewayInv' /\ CrossedInv'
  BY <1>1, <1>6, GatewayKept, CrossedKept DEF UdpInv
<1>11. QED
  BY <1>7, <1>8, <1>9, <1>10 DEF UdpInv

\* What is left of the invariant when only the device and the link move.
LEMMA RestKept ==
  ASSUME UdpInv, JobsInv',
         UNCHANGED <<cons, next_conid, cbuf, unsent, scons, closing, up, down,
                     reassigned, crossed>>,
         ~alive' => ~alive
  PROVE  UdpInv'
<1>1. Keeps /\ \A id : Owners(id)' = Owners(id)
  BY SameOwners
<1>2. ClientInv'
  BY <1>1, SoundKept DEF UdpInv, ClientInv
<1>3. GatewayInv'
  <2>1. \A x \in ToSet(scons) \cup closing : SoundCon(x)'
    BY <1>1, SoundKept DEF UdpInv, GatewayInv
  <2>2. QED
    BY <2>1 DEF UdpInv, GatewayInv
<1>4. ChainInv'
  <2>1. \A id : Asked(id)' = Asked(id)
    BY DEF Asked
  <2>2. QED
    BY <1>1, <2>1, ChainKept DEF UdpInv
<1>5. CrossedInv'
  BY <1>1, CrossedKept DEF UdpInv
<1>6. QED
  BY <1>2, <1>3, <1>4, <1>5 DEF UdpInv

\* The job that gives the device its buffer back.
LEMMA ReadDoneKeeps ==
  ASSUME UdpInv, ReadDone
  PROVE  UdpInv'
<1>1. jobs # <<>> /\ Head(jobs).job = "read" /\ jobs' = Tail(jobs)
  BY DEF ReadDone
<1>2. jobs = <<[job |-> "read"]>>
  BY <1>1 DEF UdpInv, JobsInv
<1>3. JobsInv'
  BY <1>1, <1>2 DEF JobsInv
<1>4. QED
  BY <1>3, RestKept DEF ReadDone, client, gateway

\* A packet moves from its connection's buffer to the stream.
LEMMA SendPacketKeeps ==
  ASSUME UdpInv, NEW id \in Conids, SendPacket(id)
  PROVE  UdpInv'
<1>1. /\ jobs = <<>> /\ cbuf[id] # <<>>
      /\ IF alive THEN up' = Append(up, Head(cbuf[id])) ELSE up' = up
      /\ cbuf' = [cbuf EXCEPT ![id] = Tail(@)]
      /\ UNCHANGED <<cons, next_conid, unsent, jobs, alive, scons, closing, down,
                     reassigned, crossed>>
  BY DEF SendPacket, device, gateway
<1>2. /\ cbuf \in [Conids -> Seq(Packet)] /\ up \in Seq(Packet)
      /\ \A p \in ToSet(cbuf[id]) : p.conid = id /\ Sound(p)
      /\ ~alive => scons = <<>> /\ up = <<>>
  BY DEF UdpInv, ClientInv, GatewayInv
<1>3. /\ Head(cbuf[id]) \in Packet /\ Tail(cbuf[id]) \in Seq(Packet)
      /\ Head(cbuf[id]) \in ToSet(cbuf[id]) /\ ToSet(Tail(cbuf[id])) \subseteq ToSet(cbuf[id])
      /\ Head(cbuf[id]).conid = id
  <2>1. cbuf[id] \in Seq(Packet)
    BY <1>2
  <2>2. Head(cbuf[id]) \in ToSet(cbuf[id]) /\ ToSet(Tail(cbuf[id])) \subseteq ToSet(cbuf[id])
    BY <2>1, <1>1, SetOfTail
  <2>3. QED
    BY <2>1, <2>2, <1>1, <1>2
<1>4. /\ cbuf' \in [Conids -> Seq(Packet)] /\ cbuf'[id] = Tail(cbuf[id])
      /\ \A i \in Conids \ {id} : cbuf'[i] = cbuf[i]
  BY <1>1, <1>2, <1>3
<1>5. Keeps /\ \A i : Owners(i)' = Owners(i)
  BY <1>1, SameOwners
<1>6. up' \in Seq(Packet) /\ \A p \in ToSet(up') : Sound(p)'
  <2>1. CASE alive
    <3>1. up' = Append(up, Head(cbuf[id]))
      BY <1>1, <2>1
    <3>2. ToSet(up') = ToSet(up) \cup {Head(cbuf[id])}
      BY <3>1, <1>2, <1>3, SetOfAppend
    <3>3. \A p \in ToSet(up') : Sound(p)
      BY <3>2, <1>2, <1>3 DEF UdpInv, ClientInv
    <3>4. QED
      BY <3>1, <3>3, <1>2, <1>3, <1>5, SoundKept
  <2>2. CASE ~alive
    BY <2>2, <1>1, <1>5, SoundKept DEF UdpInv, ClientInv
  <2>3. QED
    BY <2>1, <2>2
<1>7. ClientInv'
  <2>1. \A i \in Conids : \A p \in ToSet(cbuf'[i]) : p \in ToSet(cbuf[i])
    BY <1>3, <1>4
  <2>2. \A i \in Conids : \A p \in ToSet(cbuf'[i]) : p.conid = i /\ Sound(p)'
    BY <2>1, <1>5, SoundKept DEF UdpInv, ClientInv
  <2>3. \A r \in ToSet(down) : Sound(r)'
    BY <1>5, SoundKept DEF UdpInv, ClientInv
  <2>4. QED
    BY <1>1, <1>4, <1>6, <2>2, <2>3 DEF UdpInv, ClientInv
<1>8. GatewayInv'
  <2>1. \A x \in ToSet(scons) \cup closing : SoundCon(x)'
    BY <1>5, SoundKept DEF UdpInv, GatewayInv
  <2>2. ~alive' => scons' = <<>> /\ up' = <<>>
    BY <1>1, <1>2
  <2>3. QED
    BY <1>1, <2>1, <2>2 DEF UdpInv, GatewayInv
<1>9. ChainInv'
  <2>1. SUFFICES ASSUME NEW i \in Conids \ unsent
                 PROVE  /\ Chain(i, Asked(i)', up', cbuf'[i], Owners(i)')
                        /\ \A a, b \in Asked(i)' : a = b
    BY <1>1 DEF ChainInv
  <2>2. Chain(i, Asked(i), up, cbuf[i], Owners(i)) /\ \A a, b \in Asked(i) : a = b
    BY DEF UdpInv, ChainInv
  <2>3. /\ Asked(i)' = Asked(i) /\ cbuf[i] \in Seq(Packet)
        /\ Owners(i) \in SUBSET Pair /\ Asked(i) \in SUBSET Pair
    BY <1>1, <1>2, TypedState DEF Asked, UdpInv
  <2>4. CASE ~alive
    <3>1. Asked(i) = {} /\ up = <<>> /\ up' = <<>>
      BY <2>4, <1>1, <1>2 DEF Asked, ToSet
    <3>2. CASE i = id
      <4>1. Chain(i, {}, <<>>, Tail(cbuf[i]), Owners(i))
        BY <2>2, <2>3, <3>1, <3>2, <1>1, ChainDrop
      <4>2. QED
        BY <4>1, <2>2, <2>3, <3>1, <3>2, <1>4, <1>5
    <3>3. CASE i # id
      BY <2>2, <2>3, <3>1, <3>3, <1>4, <1>5
    <3>4. QED
      BY <3>2, <3>3
  <2>5. CASE alive
    <3>1. up' = Append(up, Head(cbuf[id]))
      BY <1>1, <2>5
    <3>2. CASE i = id
      <4>1. \A j \in DOMAIN cbuf[i] : cbuf[i][j].conid = i
        BY <1>2, <3>2 DEF ToSet
      <4>2. Chain(i, Asked(i), Append(up, Head(cbuf[i])), Tail(cbuf[i]), Owners(i))
        BY <4>1, <2>2, <2>3, <3>2, <1>1, <1>2, ChainMove
      <4>3. QED
        BY <4>2, <2>2, <2>3, <3>1, <3>2, <1>4, <1>5
    <3>3. CASE i # id
      <4>1. Chain(i, Asked(i), Append(up, Head(cbuf[id])), cbuf[i], Owners(i))
        BY <2>2, <2>3, <3>3, <1>2, <1>3, ChainOther
      <4>2. QED
        BY <4>1, <2>2, <2>3, <3>1, <3>3, <1>4, <1>5
    <3>4. QED
      BY <3>2, <3>3
  <2>6. QED
    BY <2>4, <2>5
<1>10. JobsInv' /\ CrossedInv'
  BY <1>1, <1>5, CrossedKept DEF UdpInv, JobsInv
<1>11. QED
  BY <1>7, <1>8, <1>9, <1>10 DEF UdpInv

\* The client receives an answer and hands it to its owner.
LEMMA ReceiveKeeps ==
  ASSUME UdpInv, recv_interface_handler_send
  PROVE  UdpInv'
<1> DEFINE p == Head(down)
<1>1. /\ jobs = <<>> /\ down # <<>> /\ down' = Tail(down)
      /\ UNCHANGED <<next_conid, cbuf, unsent, jobs, alive, scons, closing, up, reassigned>>
  BY DEF recv_interface_handler_send, device, gateway
<1>2. \/ UNCHANGED <<cons, crossed>>
      \/ \E k \in DOMAIN cons :
            /\ Deliverable(p, cons[k])
            /\ cons' = ToFront(cons, k)
            /\ \/ crossed' = crossed
               \/ /\ p.payload # PairOf(cons[k])
                  /\ crossed' = crossed \cup {[conid |-> p.conid, of |-> p.payload,
                                               remote |-> cons[k].remote]}
  BY DEF recv_interface_handler_send, PairOf
<1>3. /\ cons \in Seq(Connection) /\ Distinct(cons) /\ Len(cons) <= max_connections
      /\ down \in Seq(Reply) /\ \A r \in ToSet(down) : Sound(r)
  BY DEF UdpInv, ClientInv
<1>4. Sound(p) /\ Tail(down) \in Seq(Reply) /\ ToSet(Tail(down)) \subseteq ToSet(down)
  BY <1>1, <1>3, SetOfTail
<1> HIDE DEF p
<1>5. /\ cons' \in Seq(Connection) /\ Distinct(cons') /\ Len(cons') <= max_connections
      /\ ToSet(cons') = ToSet(cons)
  <2>1. ASSUME NEW k \in DOMAIN cons, cons' = ToFront(cons, k)
        PROVE  /\ cons' \in Seq(Connection) /\ Distinct(cons') /\ Len(cons') = Len(cons)
               /\ ToSet(cons') = ToSet(cons)
    BY <2>1, <1>3, ToFrontKeeps
  <2>2. QED
    BY <2>1, <1>2, <1>3
<1>6. Keeps /\ (\A id : Owners(id)' = Owners(id)) /\ Ids(cons') = Ids(cons)
  BY <1>1, <1>5, SameOwners
<1>7. ClientInv'
  <2>1. \A r \in ToSet(down') : Sound(r)'
    BY <1>1, <1>3, <1>4, <1>6, SoundKept
  <2>2. /\ \A id \in Conids : \A q \in ToSet(cbuf[id]) : q.conid = id /\ Sound(q)'
        /\ \A q \in ToSet(up) : Sound(q)'
    BY <1>6, SoundKept DEF UdpInv, ClientInv
  <2>3. QED
    BY <2>1, <2>2, <1>1, <1>4, <1>5, <1>6 DEF UdpInv, ClientInv
<1>8. JobsInv' /\ GatewayInv'
  BY <1>1, <1>6, GatewayKept DEF UdpInv, JobsInv
<1>9. ChainInv'
  <2>1. \A id : Asked(id)' = Asked(id)
    BY <1>1 DEF Asked
  <2>2. QED
    BY <2>1, <1>1, <1>6, ChainKept DEF UdpInv
<1>10. CrossedInv'
  <2>1. CASE crossed' = crossed
    BY <2>1, <1>6, CrossedKept DEF UdpInv
  <2>2. ASSUME NEW k \in DOMAIN cons, Deliverable(p, cons[k]), p.payload # PairOf(cons[k]),
               NEW x, x = [conid |-> p.conid, of |-> p.payload, remote |-> cons[k].remote]
        PROVE  x.conid \in reassigned /\ x.of.remote = x.remote
    <3>1. cons[k] \in ToSet(cons) /\ cons[k].conid = p.conid /\ cons[k].remote = p.remote
      BY <2>2 DEF Deliverable, ToSet
    <3>2. PICK c \in ToSet(cons) :
             c.conid = p.conid /\ (p.conid \in reassigned \/ p.payload = PairOf(c))
      BY <1>4 DEF Sound, Owned
    <3>3. c = cons[k]
      BY <3>1, <3>2, <1>3, SameConid
    <3>4. p.conid \in reassigned
      BY <2>2, <3>2, <3>3
    <3>5. p.payload.remote = cons[k].remote
      BY <1>4, <3>1 DEF Sound
    <3>6. QED
      BY <2>2, <3>4, <3>5
  <2>3. CASE \E k \in DOMAIN cons :
               /\ Deliverable(p, cons[k]) /\ p.payload # PairOf(cons[k])
               /\ crossed' = crossed \cup {[conid |-> p.conid, of |-> p.payload,
                                            remote |-> cons[k].remote]}
    <3>1. PICK k \in DOMAIN cons :
               /\ Deliverable(p, cons[k]) /\ p.payload # PairOf(cons[k])
               /\ crossed' = crossed \cup {[conid |-> p.conid, of |-> p.payload,
                                            remote |-> cons[k].remote]}
      BY <2>3
    <3>2. \A x \in crossed' : x.conid \in reassigned /\ x.of.remote = x.remote
      BY <3>1, <2>2 DEF UdpInv, CrossedInv, OwnAnswers
    <3>3. QED
      BY <3>2, <1>1 DEF CrossedInv, OwnAnswers
  <2>4. QED
    BY <2>1, <2>3, <1>2
<1>11. QED
  BY <1>7, <1>8, <1>9, <1>10 DEF UdpInv

-----------------------------------------------------------------------------
(* The steps of the SOCKS connection.                                      *)

\* The reconnect timer fires, or SOCKS comes up.
LEMMA LinkKeeps ==
  ASSUME UdpInv, reconnect_timer_handler \/ SocksUp \/ FallSilent
  PROVE  UdpInv'
<1>1. /\ UNCHANGED <<cons, next_conid, cbuf, unsent, data, jobs, scons, closing, up, down,
                     reassigned, crossed>>
      /\ ~alive' => ~alive
  BY DEF reconnect_timer_handler, SocksUp, FallSilent, client, device, gateway
<1>2. JobsInv'
  BY <1>1 DEF UdpInv, JobsInv
<1>3. QED
  BY <1>1, <1>2, RestKept

\* The session is lost with what the gateway held and the stream to it.
LEMMA SessionLost ==
  ASSUME UdpInv,
         UNCHANGED <<cons, next_conid, cbuf, unsent, data, jobs, reassigned, crossed>>,
         up' = <<>>, scons' = <<>>, closing' = {}, down' = <<>> \/ down' = down
  PROVE  UdpInv'
<1>1. Keeps /\ \A id : Owners(id)' = Owners(id)
  BY SameOwners
<1>2. ClientInv'
  <2>1. /\ \A id \in Conids : \A q \in ToSet(cbuf[id]) : q.conid = id /\ Sound(q)'
        /\ \A r \in ToSet(down) : Sound(r)'
    BY <1>1, SoundKept DEF UdpInv, ClientInv
  <2>2. \A x : x \notin ToSet(<<>>)
    BY DEF ToSet
  <2>3. down' \in Seq(Reply) /\ \A r \in ToSet(down') : Sound(r)'
    <3>1. CASE down' = <<>>
      BY <3>1, <2>2
    <3>2. CASE down' = down
      BY <3>2, <2>1 DEF UdpInv, ClientInv
    <3>3. QED
      BY <3>1, <3>2
  <2>4. up' \in Seq(Packet) /\ \A p \in ToSet(up') : Sound(p)'
    BY <2>2
  <2>5. QED
    BY <2>1, <2>3, <2>4 DEF UdpInv, ClientInv
<1>3. JobsInv' /\ CrossedInv'
  BY <1>1, CrossedKept DEF UdpInv, JobsInv
<1>4. GatewayInv'
  BY DEF GatewayInv, ToSet, Distinct
<1>5. ChainInv'
  <2>1. SUFFICES ASSUME NEW id \in Conids \ unsent
                 PROVE  /\ Chain(id, Asked(id)', up', cbuf'[id], Owners(id)')
                        /\ \A a, b \in Asked(id)' : a = b
    BY DEF ChainInv
  <2>2. Asked(id)' = {}
    BY DEF Asked, ToSet
  <2>3. up \in Seq(Packet) /\ cbuf[id] \in Seq(Packet)
    BY DEF UdpInv, ClientInv
  <2>4. Chain(id, {}, <<>>, cbuf[id], Owners(id))
    BY <2>3, ChainLost DEF UdpInv, ChainInv
  <2>5. QED
    BY <2>2, <2>4, <1>1
<1>6. QED
  BY <1>2, <1>3, <1>4, <1>5 DEF UdpInv

\* The client loses its connection to the gateway.
LEMMA SocksLostKeeps ==
  ASSUME UdpInv, SocksError \/ SocksClosed
  PROVE  UdpInv'
<1>1. /\ UNCHANGED <<cons, next_conid, cbuf, unsent, data, jobs, reassigned, crossed>>
      /\ free_socks
  BY DEF SocksError, SocksClosed, client, device
<1>2. CASE socks_up
  BY <1>1, <1>2, SessionLost DEF free_socks
<1>3. CASE ~socks_up
  <2>1. UNCHANGED <<alive, scons, closing, up, down>>
    BY <1>1, <1>3 DEF free_socks, gateway
  <2>2. JobsInv'
    BY <1>1 DEF UdpInv, JobsInv
  <2>3. QED
    BY <1>1, <2>1, <2>2, RestKept
<1>4. QED
  BY <1>2, <1>3

\* The gateway drops the client with all its sockets.
LEMMA ClientFreeKeeps ==
  ASSUME UdpInv, client_free
  PROVE  UdpInv'
BY SessionLost DEF client_free, client, device
-----------------------------------------------------------------------------
(* The steps of the gateway.                                               *)

\* What a step that takes no packet of the stream has to show.
LEMMA GatewayMoves ==
  ASSUME UdpInv,
         UNCHANGED <<cons, next_conid, cbuf, unsent, data, jobs, reassigned, crossed, up>>,
         alive', scons' \in Seq(GatewayCon), Distinct(scons'),
         \A x \in ToSet(scons') \cup closing' : SoundCon(x),
         \A x \in ToSet(scons') : \E y \in ToSet(scons) : y.conid = x.conid /\ y.asked = x.asked,
         down' \in Seq(Reply), \A r \in ToSet(down') : Sound(r)
  PROVE  UdpInv'
<1>1. Keeps /\ \A id : Owners(id)' = Owners(id)
  BY SameOwners
<1>2. ClientInv'
  <2>1. /\ \A id \in Conids : \A q \in ToSet(cbuf[id]) : q.conid = id /\ Sound(q)'
        /\ \A q \in ToSet(up) : Sound(q)'
        /\ \A r \in ToSet(down') : Sound(r)'
    BY <1>1, SoundKept DEF UdpInv, ClientInv
  <2>2. QED
    BY <2>1 DEF UdpInv, ClientInv
<1>3. JobsInv' /\ CrossedInv'
  BY <1>1, CrossedKept DEF UdpInv, JobsInv
<1>4. GatewayInv'
  <2>1. \A x \in ToSet(scons') \cup closing' : SoundCon(x)'
    BY <1>1, SoundKept
  <2>2. QED
    BY <2>1 DEF GatewayInv
<1>5. ChainInv'
  <2>1. \A id : Asked(id)' \in SUBSET Asked(id)
    BY DEF Asked
  <2>2. QED
    BY <1>1, <2>1, ChainKept DEF UdpInv
<1>6. QED
  BY <1>2, <1>3, <1>4, <1>5 DEF UdpInv

\* One connection of the gateway is rewritten under its own conid.
LEMMA Rewritten ==
  ASSUME NEW s \in Seq(GatewayCon), Distinct(s), NEW k \in DOMAIN s,
         NEW y \in GatewayCon, y.conid = s[k].conid
  PROVE  LET t == [s EXCEPT ![k] = y] IN
         /\ t \in Seq(GatewayCon) /\ DOMAIN t = DOMAIN s /\ Distinct(t)
         /\ \A x \in ToSet(t) : x = y \/ (x \in ToSet(s) /\ x.conid # y.conid)
<1> DEFINE t == [s EXCEPT ![k] = y]
<1>1. /\ t \in Seq(GatewayCon) /\ DOMAIN t = DOMAIN s /\ t[k] = y
      /\ \A i \in DOMAIN s \ {k} : t[i] = s[i]
  OBVIOUS
<1> SUFFICES /\ t \in Seq(GatewayCon) /\ DOMAIN t = DOMAIN s /\ Distinct(t)
             /\ \A x \in ToSet(t) : x = y \/ (x \in ToSet(s) /\ x.conid # y.conid)
  OBVIOUS
<1> HIDE DEF t
<1>2. Distinct(t)
  <2>1. \A i \in DOMAIN s : t[i].conid = s[i].conid
    BY <1>1
  <2>2. QED
    BY <2>1, <1>1 DEF Distinct
<1>3. ASSUME NEW x \in ToSet(t), x # y
      PROVE  x \in ToSet(s) /\ x.conid # y.conid
  <2>1. PICK i \in DOMAIN t : x = t[i]
    BY DEF ToSet
  <2>2. i \in DOMAIN s /\ i # k /\ x = s[i]
    BY <2>1, <1>1, <1>3
  <2>3. QED
    BY <2>2 DEF ToSet, Distinct
<1>4. QED
  BY <1>1, <1>2, <1>3

\* A peer answers at one of the gateway's sockets.
LEMMA UdpReceiveKeeps ==
  ASSUME UdpInv, NEW k, connection_udp_recv_if_handler_send(k)
  PROVE  UdpInv'
<1>1. alive /\ k \in DOMAIN scons
  BY DEF connection_udp_recv_if_handler_send
<1> DEFINE c == scons[k]
           reply(a) == [conid |-> c.conid, remote |-> c.orig, payload |-> a]
           kept(a) == IF Len(c.buf) < CONNECTION_CLIENT_BUFFER_SIZE
                      THEN Append(c.buf, reply(a)) ELSE c.buf
           y(a) == [c EXCEPT !.buf = kept(a)]
<1>2. PICK a \in c.asked : scons' = ToFront([scons EXCEPT ![k] = y(a)], k)
  BY DEF connection_udp_recv_if_handler_send
<1>3. UNCHANGED <<cons, next_conid, cbuf, unsent, data, jobs, reassigned, crossed, up, down,
                  closing, alive>>
  BY DEF connection_udp_recv_if_handler_send, client, device
<1>4. /\ scons \in Seq(GatewayCon) /\ Distinct(scons)
      /\ \A x \in ToSet(scons) \cup closing : SoundCon(x)
  BY DEF UdpInv, GatewayInv
<1>5. c \in ToSet(scons) /\ c \in GatewayCon /\ SoundCon(c)
  BY <1>1, <1>4 DEF ToSet
<1> HIDE DEF c
<1>6. /\ c.conid \in Conids /\ c.orig \in Remotes /\ c.asked \in SUBSET Pair
      /\ c.buf \in Seq(Reply)
  BY <1>5 DEF GatewayCon
<1>7. reply(a) \in Reply /\ Sound(reply(a))
  <2>1. a \in Pair
    BY <1>6
  <2>2. reply(a) \in Reply
    BY <2>1, <1>6 DEF Reply
  <2>3. Sound(reply(a))
    BY <1>5 DEF SoundCon, Sound
  <2>4. QED
    BY <2>2, <2>3
<1> HIDE DEF reply
<1>8. kept(a) \in Seq(Reply) /\ \A r \in ToSet(kept(a)) : Sound(r)
  <2>1. \A r \in ToSet(c.buf) : Sound(r)
    BY <1>5 DEF SoundCon
  <2>2. ToSet(Append(c.buf, reply(a))) = ToSet(c.buf) \cup {reply(a)}
    BY <1>6, <1>7, SetOfAppend
  <2>3. Append(c.buf, reply(a)) \in Seq(Reply)
    BY <1>6, <1>7
  <2>4. QED
    BY <2>1, <2>2, <2>3, <1>6, <1>7
<1> HIDE DEF kept
<1>9. /\ y(a) \in GatewayCon /\ y(a).conid = c.conid /\ y(a).asked = c.asked
      /\ y(a).orig = c.orig /\ y(a).buf = kept(a)
  BY <1>5, <1>8 DEF GatewayCon
<1> HIDE DEF y
<1>10. SoundCon(y(a))
  BY <1>5, <1>8, <1>9 DEF SoundCon
<1> DEFINE t == [scons EXCEPT ![k] = y(a)]
<1>11. /\ t \in Seq(GatewayCon) /\ k \in DOMAIN t /\ Distinct(t)
       /\ \A x \in ToSet(t) : x = y(a) \/ x \in ToSet(scons)
  BY <1>1, <1>4, <1>9, Rewritten DEF c
<1>12. scons' = ToFront(t, k)
  BY <1>2
<1> HIDE DEF t
<1>13. scons' \in Seq(GatewayCon) /\ Distinct(scons') /\ ToSet(scons') = ToSet(t)
  BY <1>11, <1>12, ToFrontKeeps
<1>14. down \in Seq(Reply) /\ \A r \in ToSet(down) : Sound(r)
  BY DEF UdpInv, ClientInv
<1>15. \A x \in ToSet(scons') \cup closing' : SoundCon(x)
  BY <1>3, <1>4, <1>10, <1>11, <1>13
<1>16. \A x \in ToSet(scons') : \E z \in ToSet(scons) : z.conid = x.conid /\ z.asked = x.asked
  BY <1>5, <1>9, <1>11, <1>13
<1>17. QED
  BY <1>1, <1>3, <1>13, <1>14, <1>15, <1>16, GatewayMoves

\* connection_close: the connection leaves the list, and closes or is gone.
LEMMA Closed ==
  ASSUME NEW s \in Seq(GatewayCon), Distinct(s), NEW cl, NEW k \in DOMAIN s
  PROVE  LET C == connection_close([scons |-> s, closing |-> cl], k) IN
         /\ C.scons \in Seq(GatewayCon) /\ Distinct(C.scons)
         /\ ToSet(C.scons) \subseteq ToSet(s) /\ C.closing \subseteq cl \cup ToSet(s)
         /\ \A x \in ToSet(C.scons) : x.conid # s[k].conid
<1> DEFINE C == connection_close([scons |-> s, closing |-> cl], k)
<1>1. C.scons = RemoveAt(s, k) /\ C.closing \subseteq cl \cup {s[k]}
  BY DEF connection_close
<1> SUFFICES /\ C.scons \in Seq(GatewayCon) /\ Distinct(C.scons)
             /\ ToSet(C.scons) \subseteq ToSet(s) /\ C.closing \subseteq cl \cup ToSet(s)
             /\ \A x \in ToSet(C.scons) : x.conid # s[k].conid
  OBVIOUS
<1> HIDE DEF C
<1>2. RemoveAt(s, k) \in Seq(GatewayCon)
  BY Removed
<1>3. /\ ToSet(s) = ToSet(RemoveAt(s, k)) \cup {s[k]} /\ Distinct(RemoveAt(s, k))
      /\ \A x \in ToSet(RemoveAt(s, k)) : x.conid # s[k].conid
  BY RemovedSet
<1>4. QED
  BY <1>1, <1>2, <1>3

\* A socket of the gateway fails.
LEMMA SocketFailedKeeps ==
  ASSUME UdpInv, NEW k, connection_dgram_handler_event(k)
  PROVE  UdpInv'
<1> DEFINE C == connection_close([scons |-> scons, closing |-> closing], k)
<1>1. /\ alive /\ k \in DOMAIN scons /\ scons' = C.scons /\ closing' = C.closing
      /\ UNCHANGED <<cons, next_conid, cbuf, unsent, data, jobs, reassigned, crossed, up,
                     down, alive>>
  BY DEF connection_dgram_handler_event, client, device
<1>2. /\ scons \in Seq(GatewayCon) /\ Distinct(scons)
      /\ \A x \in ToSet(scons) \cup closing : SoundCon(x)
  BY DEF UdpInv, GatewayInv
<1>3. /\ C.scons \in Seq(GatewayCon) /\ Distinct(C.scons)
      /\ ToSet(C.scons) \subseteq ToSet(scons) /\ C.closing \subseteq closing \cup ToSet(scons)
  BY <1>1, <1>2, Closed
<1> HIDE DEF C
<1>4. down \in Seq(Reply) /\ \A r \in ToSet(down) : Sound(r)
  BY DEF UdpInv, ClientInv
<1>5. \A x \in ToSet(scons') \cup closing' : SoundCon(x)
  BY <1>1, <1>2, <1>3
<1>6. QED
  BY <1>1, <1>3, <1>4, <1>5, GatewayMoves

\* The first packet of a gateway connection's buffer.
LEMMA BufferHead ==
  ASSUME NEW c, SoundCon(c), c.buf # <<>>
  PROVE  LET y == [c EXCEPT !.buf = Tail(c.buf)] IN
         /\ Head(c.buf) \in Reply /\ Sound(Head(c.buf))
         /\ y \in GatewayCon /\ SoundCon(y) /\ y.conid = c.conid /\ y.asked = c.asked
<1> DEFINE y == [c EXCEPT !.buf = Tail(c.buf)]
<1>1. c \in GatewayCon /\ c.buf \in Seq(Reply) /\ \A r \in ToSet(c.buf) : Sound(r)
  BY DEF SoundCon, GatewayCon
<1>2. Head(c.buf) \in ToSet(c.buf) /\ ToSet(Tail(c.buf)) \subseteq ToSet(c.buf)
  BY <1>1, SetOfTail
<1>3. Head(c.buf) \in Reply /\ Tail(c.buf) \in Seq(Reply)
  BY <1>1
<1>4. /\ y \in GatewayCon /\ y.conid = c.conid /\ y.asked = c.asked
      /\ y.orig = c.orig /\ y.buf = Tail(c.buf)
  BY <1>1, <1>3 DEF GatewayCon
<1> SUFFICES /\ Head(c.buf) \in Reply /\ Sound(Head(c.buf))
             /\ y \in GatewayCon /\ SoundCon(y) /\ y.conid = c.conid /\ y.asked = c.asked
  OBVIOUS
<1> HIDE DEF y
<1>5. SoundCon(y)
  BY <1>1, <1>2, <1>4 DEF SoundCon
<1>6. QED
  BY <1>1, <1>2, <1>3, <1>4, <1>5

\* A sound answer keeps the stream of answers sound.
LEMMA DownAppended ==
  ASSUME UdpInv, NEW r \in Reply, Sound(r)
  PROVE  Append(down, r) \in Seq(Reply) /\ \A q \in ToSet(Append(down, r)) : Sound(q)
<1>1. down \in Seq(Reply) /\ \A q \in ToSet(down) : Sound(q)
  BY DEF UdpInv, ClientInv
<1>2. ToSet(Append(down, r)) = ToSet(down) \cup {r}
  BY <1>1, SetOfAppend
<1>3. QED
  BY <1>1, <1>2

\* The gateway sends an answer to the client.
LEMMA SendReplyKeeps ==
  ASSUME UdpInv, NEW k, SendReply(k)
  PROVE  UdpInv'
<1> DEFINE c == scons[k]
           y == [c EXCEPT !.buf = Tail(c.buf)]
<1>1. /\ alive /\ k \in DOMAIN scons /\ c.buf # <<>>
      /\ down' = Append(down, Head(c.buf)) /\ scons' = [scons EXCEPT ![k] = y]
      /\ UNCHANGED <<cons, next_conid, cbuf, unsent, data, jobs, reassigned, crossed, up,
                     alive, closing>>
  BY DEF SendReply, client, device
<1>2. /\ scons \in Seq(GatewayCon) /\ Distinct(scons)
      /\ \A x \in ToSet(scons) \cup closing : SoundCon(x)
  BY DEF UdpInv, GatewayInv
<1>3. c \in ToSet(scons) /\ SoundCon(c)
  BY <1>1, <1>2 DEF ToSet
<1>4. /\ Head(c.buf) \in Reply /\ Sound(Head(c.buf))
      /\ y \in GatewayCon /\ SoundCon(y) /\ y.conid = c.conid /\ y.asked = c.asked
  BY <1>1, <1>3, BufferHead
<1> HIDE DEF y
<1>5. /\ scons' \in Seq(GatewayCon) /\ Distinct(scons')
      /\ \A x \in ToSet(scons') : x = y \/ x \in ToSet(scons)
  BY <1>1, <1>2, <1>4, Rewritten
<1> HIDE DEF c
<1>6. down' \in Seq(Reply) /\ \A r \in ToSet(down') : Sound(r)
  BY <1>1, <1>4, DownAppended
<1>7. \A x \in ToSet(scons') \cup closing' : SoundCon(x)
  BY <1>1, <1>2, <1>4, <1>5
<1>8. \A x \in ToSet(scons') : \E z \in ToSet(scons) : z.conid = x.conid /\ z.asked = x.asked
  BY <1>3, <1>4, <1>5
<1>9. QED
  BY <1>1, <1>5, <1>6, <1>7, <1>8, GatewayMoves

\* A closing connection has sent what it still had.
LEMMA ClosingKeeps ==
  ASSUME UdpInv, connection_send_qflow_busy_handler
  PROVE  UdpInv'
<1> DEFINE y(c) == [c EXCEPT !.buf = Tail(c.buf)]
<1>1. /\ alive
      /\ UNCHANGED <<cons, next_conid, cbuf, unsent, data, jobs, reassigned, crossed, up,
                     alive, scons>>
  BY DEF connection_send_qflow_busy_handler, client, device
<1>2. PICK c \in closing :
         /\ c.buf # <<>> /\ down' = Append(down, Head(c.buf))
         /\ closing' \subseteq closing \cup {y(c)}
  BY DEF connection_send_qflow_busy_handler
<1>3. /\ scons \in Seq(GatewayCon) /\ Distinct(scons)
      /\ \A x \in ToSet(scons) \cup closing : SoundCon(x)
  BY DEF UdpInv, GatewayInv
<1>4. Head(c.buf) \in Reply /\ Sound(Head(c.buf)) /\ SoundCon(y(c))
  BY <1>2, <1>3, BufferHead
<1> HIDE DEF y
<1>5. down' \in Seq(Reply) /\ \A r \in ToSet(down') : Sound(r)
  BY <1>2, <1>4, DownAppended
<1>6. \A x \in ToSet(scons') \cup closing' : SoundCon(x)
  BY <1>1, <1>2, <1>3, <1>4
<1>7. QED
  BY <1>1, <1>3, <1>5, <1>6, GatewayMoves

\* What a step that takes the next packet of the stream has to show: its
\* conid's socket was used for that packet's pair only, or, when the packet
\* does not say REBIND, also for what it was used for before.
LEMMA StreamTaken ==
  ASSUME UdpInv, up # <<>>, up' = Tail(up),
         UNCHANGED <<cons, next_conid, cbuf, unsent, data, jobs, reassigned, crossed, down>>,
         alive', scons' \in Seq(GatewayCon), Distinct(scons'),
         \A x \in ToSet(scons') \cup closing' : SoundCon(x),
         \A x \in ToSet(scons') :
            IF x.conid = Head(up).conid
            THEN \/ x.asked \subseteq {Head(up).payload}
                 \/ /\ ~Head(up).rebind
                    /\ \E z \in ToSet(scons) : /\ z.conid = x.conid
                                               /\ x.asked \subseteq z.asked \cup {Head(up).payload}
            ELSE x \in ToSet(scons)
  PROVE  UdpInv'
<1> DEFINE p == Head(up)
<1>1. Keeps /\ \A id : Owners(id)' = Owners(id)
  BY SameOwners
<1>2. /\ up \in Seq(Packet) /\ Tail(up) \in Seq(Packet) /\ p \in Packet
      /\ ToSet(Tail(up)) \subseteq ToSet(up)
  <2>1. up \in Seq(Packet)
    BY DEF UdpInv, ClientInv
  <2>2. QED
    BY <2>1, SetOfTail
<1>3. p.payload \in Pair /\ p.conid \in Conids
  BY <1>2 DEF Packet
<1>4. ClientInv'
  <2>1. /\ \A id \in Conids : \A q \in ToSet(cbuf[id]) : q.conid = id /\ Sound(q)'
        /\ \A q \in ToSet(up) : Sound(q)'
        /\ \A r \in ToSet(down) : Sound(r)'
    BY <1>1, SoundKept DEF UdpInv, ClientInv
  <2>2. \A q \in ToSet(up') : Sound(q)'
    BY <2>1, <1>2
  <2>3. QED
    BY <2>1, <2>2, <1>2 DEF UdpInv, ClientInv
<1>5. JobsInv' /\ CrossedInv'
  BY <1>1, CrossedKept DEF UdpInv, JobsInv
<1>6. GatewayInv'
  <2>1. \A x \in ToSet(scons') \cup closing' : SoundCon(x)'
    BY <1>1, SoundKept
  <2>2. QED
    BY <2>1 DEF GatewayInv
<1>7. ChainInv'
  <2>1. SUFFICES ASSUME NEW id \in Conids \ unsent
                 PROVE  /\ Chain(id, Asked(id)', up', cbuf'[id], Owners(id)')
                        /\ \A a, b \in Asked(id)' : a = b
    BY DEF ChainInv
  <2>2. Chain(id, Asked(id), up, cbuf[id], Owners(id)) /\ \A a, b \in Asked(id) : a = b
    BY DEF UdpInv, ChainInv
  <2>3. /\ Owners(id) \in SUBSET Pair /\ Asked(id) \in SUBSET Pair
        /\ cbuf[id] \in Seq(Packet)
    BY TypedState DEF UdpInv, ClientInv
  <2>4. CASE id = p.conid
    <3>1. /\ Chain(id, {p.payload}, Tail(up), cbuf[id], Owners(id))
          /\ ~p.rebind => Asked(id) \subseteq {p.payload}
      BY <2>2, <2>3, <2>4, <1>2, ChainTake
    <3>2. Asked(id)' \in SUBSET {p.payload}
      <4>1. SUFFICES ASSUME NEW x \in ToSet(scons'), x.conid = id
                     PROVE  x.asked \subseteq {p.payload}
        BY DEF Asked
      <4>2. CASE x.asked \subseteq {p.payload}
        BY <4>2
      <4>3. CASE /\ ~p.rebind
                 /\ \E z \in ToSet(scons) : /\ z.conid = x.conid
                                            /\ x.asked \subseteq z.asked \cup {p.payload}
        <5>1. PICK z \in ToSet(scons) : /\ z.conid = x.conid
                                        /\ x.asked \subseteq z.asked \cup {p.payload}
          BY <4>3
        <5>2. z.asked \subseteq Asked(id)
          BY <5>1, <4>1 DEF Asked
        <5>3. QED
          BY <5>1, <5>2, <4>3, <3>1
      <4>4. QED
        BY <4>1, <4>2, <4>3, <2>4
    <3>3. Chain(id, Asked(id)', Tail(up), cbuf[id], Owners(id))
      BY <3>1, <3>2, <2>3, <1>2, ChainForget
    <3>4. QED
      BY <3>2, <3>3, <1>1
  <2>5. CASE id # p.conid
    <3>1. Chain(id, Asked(id), Tail(up), cbuf[id], Owners(id))
      BY <2>2, <2>3, <2>5, <1>2, ChainTakeOther
    <3>2. Asked(id)' \in SUBSET Asked(id)
      BY <2>5 DEF Asked
    <3>3. Chain(id, Asked(id)', Tail(up), cbuf[id], Owners(id))
      BY <3>1, <3>2, <2>3, <1>2, ChainForget
    <3>4. QED
      BY <3>2, <3>3, <2>2, <1>1
  <2>6. QED
    BY <2>4, <2>5
<1>8. QED
  BY <1>4, <1>5, <1>6, <1>7 DEF UdpInv

\* client_recv_if_handler_send makes room for a connection of conid id.
LEMMA RoomMade ==
  ASSUME UdpInv, NEW id
  PROVE  LET G == [scons |-> scons, closing |-> closing]
             C == IF id \in Ids(scons) THEN connection_close(G, IndexOf(scons, id)) ELSE G
             R == IF Len(C.scons) = max_connections_for_client
                  THEN connection_close(C, 1) ELSE C
         IN  /\ R.scons \in Seq(GatewayCon) /\ Distinct(R.scons)
             /\ ToSet(R.scons) \subseteq ToSet(scons)
             /\ R.closing \subseteq closing \cup ToSet(scons)
             /\ \A x \in ToSet(R.scons) : x.conid # id
<1> DEFINE G == [scons |-> scons, closing |-> closing]
           C == IF id \in Ids(scons) THEN connection_close(G, IndexOf(scons, id)) ELSE G
           R == IF Len(C.scons) = max_connections_for_client THEN connection_close(C, 1) ELSE C
<1>1. scons \in Seq(GatewayCon) /\ Distinct(scons)
  BY DEF UdpInv, GatewayInv
<1>2. /\ C.scons \in Seq(GatewayCon) /\ Distinct(C.scons)
      /\ ToSet(C.scons) \subseteq ToSet(scons) /\ C.closing \subseteq closing \cup ToSet(scons)
      /\ \A x \in ToSet(C.scons) : x.conid # id
  <2>1. CASE id \in Ids(scons)
    <3>1. IndexOf(scons, id) \in DOMAIN scons /\ scons[IndexOf(scons, id)].conid = id
      BY <2>1, IndexFound
    <3>2. QED
      BY <2>1, <3>1, <1>1, Closed
  <2>2. CASE id \notin Ids(scons)
    <3>1. \A x \in ToSet(scons) : x.conid # id
      BY <2>2, IdsOfSet
    <3>2. QED
      BY <2>2, <3>1, <1>1
  <2>3. QED
    BY <2>1, <2>2
<1>3. C = [scons |-> C.scons, closing |-> C.closing]
  BY DEF connection_close
<1> SUFFICES /\ R.scons \in Seq(GatewayCon) /\ Distinct(R.scons)
             /\ ToSet(R.scons) \subseteq ToSet(scons)
             /\ R.closing \subseteq closing \cup ToSet(scons)
             /\ \A x \in ToSet(R.scons) : x.conid # id
  OBVIOUS
<1> HIDE DEF C
<1>4. CASE Len(C.scons) = max_connections_for_client
  <2>1. 1 \in DOMAIN C.scons
    BY <1>2, <1>4, UdpGwAssumption
  <2>2. R = connection_close([scons |-> C.scons, closing |-> C.closing], 1)
    BY <1>3, <1>4
  <2>3. /\ R.scons \in Seq(GatewayCon) /\ Distinct(R.scons)
        /\ ToSet(R.scons) \subseteq ToSet(C.scons)
        /\ R.closing \subseteq C.closing \cup ToSet(C.scons)
    BY <2>1, <2>2, <1>2, Closed
  <2>4. QED
    BY <2>3, <1>2
<1>5. CASE Len(C.scons) # max_connections_for_client
  BY <1>2, <1>5
<1>6. QED
  BY <1>4, <1>5

\* The gateway takes a packet from the stream: a socket that exists, a new one,
\* or one that is rebound.
LEMMA GatewayReceiveKeeps ==
  ASSUME UdpInv, client_recv_if_handler_send
  PROVE  UdpInv'
<1> DEFINE p == Head(up)
           G == [scons |-> scons, closing |-> closing]
           k == IndexOf(scons, p.conid)
           C == IF p.conid \in Ids(scons) THEN connection_close(G, k) ELSE G
           R == IF Len(C.scons) = max_connections_for_client THEN connection_close(C, 1) ELSE C
           y == [scons[k] EXCEPT !.asked = scons[k].asked \cup {p.payload}]
           n == [conid |-> p.conid, orig |-> p.remote, asked |-> {p.payload}, buf |-> <<>>]
<1>1. /\ alive /\ up # <<>> /\ up' = Tail(up)
      /\ UNCHANGED <<cons, next_conid, cbuf, unsent, data, jobs, reassigned, crossed, down,
                     alive>>
  BY DEF client_recv_if_handler_send, client, device
<1>2. \/ /\ p.conid \in Ids(scons) /\ ~Rebinds(p, scons[k])
         /\ scons' = ToFront([scons EXCEPT ![k] = y], k) /\ closing' = closing
      \/ scons' = Append(R.scons, n) /\ closing' = R.closing
  BY DEF client_recv_if_handler_send
<1>3. /\ scons \in Seq(GatewayCon) /\ Distinct(scons)
      /\ \A x \in ToSet(scons) \cup closing : SoundCon(x)
  BY DEF UdpInv, GatewayInv
<1>4. /\ R.scons \in Seq(GatewayCon) /\ Distinct(R.scons)
      /\ ToSet(R.scons) \subseteq ToSet(scons) /\ R.closing \subseteq closing \cup ToSet(scons)
      /\ \A x \in ToSet(R.scons) : x.conid # p.conid
  BY RoomMade
<1> HIDE DEF R
<1>5. p \in Packet /\ Sound(p)
  <2>1. up \in Seq(Packet) /\ \A q \in ToSet(up) : Sound(q)
    BY DEF UdpInv, ClientInv
  <2>2. QED
    BY <2>1, <1>1, SetOfTail
<1> HIDE DEF p
<1>6. p.conid \in Conids /\ p.payload \in Pair /\ p.remote \in Remotes
  BY <1>5 DEF Packet
<1>7. CASE /\ p.conid \in Ids(scons) /\ ~Rebinds(p, scons[k])
           /\ scons' = ToFront([scons EXCEPT ![k] = y], k) /\ closing' = closing
  <2> DEFINE c == scons[k]
             t == [scons EXCEPT ![k] = y]
  <2>1. k \in DOMAIN scons /\ c.conid = p.conid
    BY <1>7, IndexFound
  <2>2. c \in ToSet(scons) /\ c \in GatewayCon /\ SoundCon(c)
    BY <2>1, <1>3 DEF ToSet
  <2>3. ~p.rebind /\ c.orig = p.remote
    BY <1>7 DEF Rebinds
  <2> HIDE DEF k
  <2>4. /\ y \in GatewayCon /\ y.conid = c.conid /\ y.orig = c.orig /\ y.buf = c.buf
        /\ y.asked = c.asked \cup {p.payload}
    <3> HIDE DEF c
    <3>1. c.asked \cup {p.payload} \in SUBSET Pair
      BY <2>2, <1>6 DEF GatewayCon
    <3>2. ASSUME NEW A \in SUBSET Pair, NEW z, z = [c EXCEPT !.asked = A]
          PROVE  /\ z \in GatewayCon /\ z.conid = c.conid /\ z.orig = c.orig
                 /\ z.buf = c.buf /\ z.asked = A
      BY <2>2, <3>2 DEF GatewayCon
    <3>3. QED
      BY <3>1, <3>2 DEF c
  <2> HIDE DEF y
  <2>5. SoundCon(y)
    BY <2>1, <2>2, <2>3, <2>4, <1>5 DEF SoundCon, Sound
  <2>6. /\ t \in Seq(GatewayCon) /\ k \in DOMAIN t /\ Distinct(t)
        /\ \A x \in ToSet(t) : x = y \/ (x \in ToSet(scons) /\ x.conid # y.conid)
    BY <2>1, <2>4, <1>3, Rewritten
  <2>7. scons' = ToFront(t, k)
    BY <1>7
  <2> HIDE DEF t, c
  <2>8. scons' \in Seq(GatewayCon) /\ Distinct(scons') /\ ToSet(scons') = ToSet(t)
    BY <2>6, <2>7, ToFrontKeeps
  <2>9. \A x \in ToSet(scons') \cup closing' : SoundCon(x)
    BY <1>3, <1>7, <2>5, <2>6, <2>8
  <2>10. ASSUME NEW x \in ToSet(scons')
         PROVE  IF x.conid = p.conid
                THEN \/ x.asked \subseteq {p.payload}
                     \/ /\ ~p.rebind
                        /\ \E z \in ToSet(scons) : /\ z.conid = x.conid
                                                   /\ x.asked \subseteq z.asked \cup {p.payload}
                ELSE x \in ToSet(scons)
    BY <2>1, <2>2, <2>3, <2>4, <2>6, <2>8
  <2>11. QED
    BY <1>1, <2>8, <2>9, <2>10, StreamTaken DEF p
<1>8. CASE scons' = Append(R.scons, n) /\ closing' = R.closing
  <2>1. n \in GatewayCon /\ n.conid = p.conid /\ n.asked = {p.payload} /\ n.orig = p.remote
        /\ n.buf = <<>>
    BY <1>6 DEF GatewayCon
  <2> HIDE DEF n
  <2>2. SoundCon(n)
    <3>1. \A r : r \notin ToSet(<<>>)
      BY DEF ToSet
    <3>2. QED
      BY <2>1, <3>1, <1>5 DEF SoundCon, Sound
  <2>3. scons' \in Seq(GatewayCon) /\ Distinct(scons') /\ ToSet(scons') = ToSet(R.scons) \cup {n}
    BY <1>4, <1>8, <2>1, Appended, SetOfAppend
  <2>4. \A x \in ToSet(scons') \cup closing' : SoundCon(x)
    BY <1>3, <1>4, <1>8, <2>2, <2>3
  <2>5. \A x \in ToSet(scons') :
           IF x.conid = p.conid THEN x.asked \subseteq {p.payload} ELSE x \in ToSet(scons)
    BY <1>4, <2>1, <2>3
  <2>6. QED
    BY <1>1, <2>3, <2>4, <2>5, StreamTaken DEF p
<1>9. QED
  BY <1>2, <1>7, <1>8

-----------------------------------------------------------------------------
\* Nothing is under way at the start.
LEMMA UdpInitially == Init => UdpInv
<1> SUFFICES ASSUME Init PROVE UdpInv
  OBVIOUS
<1>1. \A x : x \notin ToSet(<<>>)
  BY DEF ToSet
<1>2. ClientInv
  <2>1. 0 \in Conids
    BY UdpGwAssumption DEF Conids
  <2>2. cbuf \in [Conids -> Seq(Packet)] /\ \A id \in Conids : cbuf[id] = <<>>
    BY DEF Init
  <2>3. cons \in Seq(Connection) /\ Distinct(cons) /\ Len(cons) <= max_connections
    BY UdpGwAssumption DEF Init, Distinct
  <2>4. /\ next_conid \in Conids /\ reassigned \subseteq Ids(cons)
        /\ up = <<>> /\ down = <<>> /\ up \in Seq(Packet) /\ down \in Seq(Reply)
    BY <2>1 DEF Init
  <2>5. QED
    BY <1>1, <2>2, <2>3, <2>4 DEF ClientInv
<1>3. JobsInv
  BY DEF Init, JobsInv
<1>4. GatewayInv
  <2>1. scons = <<>> /\ closing = {} /\ up = <<>>
    BY DEF Init
  <2>2. QED
    BY <1>1, <2>1 DEF GatewayInv, Distinct
<1>5. ChainInv
  <2>1. SUFFICES ASSUME NEW id \in Conids
                 PROVE  /\ Chain(id, Asked(id), up, cbuf[id], Owners(id))
                        /\ \A a, b \in Asked(id) : a = b
    BY DEF ChainInv
  <2>2. Asked(id) = {} /\ up = <<>> /\ cbuf[id] = <<>>
    BY <1>1 DEF Init, Asked
  <2>3. up \in Seq(Packet) /\ \A j \in DOMAIN up : up[j].conid # id
    BY <2>2
  <2>4. Chain(id, {}, up, <<>>, Owners(id))
    BY <2>3, ChainFresh
  <2>5. QED
    BY <2>2, <2>4
<1>6. CrossedInv
  BY DEF Init, CrossedInv, OwnAnswers
<1>7. QED
  BY <1>2, <1>3, <1>4, <1>5, <1>6 DEF UdpInv

\* Every step of client, stream and gateway keeps the invariant.
LEMMA UdpPreserved == UdpInv /\ [Next]_vars => UdpInv'
<1> SUFFICES ASSUME UdpInv, [Next]_vars PROVE UdpInv'
  OBVIOUS
<1>1. ASSUME NEW l \in Locals, NEW r \in Remotes,
             SubmitKnown(l, r) \/ connection_init(l, r) \/ connection_init_failed(l, r)
             \/ reuse_connection(l, r)
      PROVE  UdpInv'
  BY <1>1, SubmitKnownKeeps, ConnectionInitKeeps, ConnectionInitFailedKeeps,
     ReuseConnectionKeeps
<1>2. CASE ClientStep
  BY <1>2, FirstJobKeeps, ReadDoneKeeps, ReceiveKeeps, SendPacketKeeps DEF ClientStep
<1>3. CASE SocksStep \/ SocksError \/ client_free
  BY <1>3, LinkKeeps, SocksLostKeeps, ClientFreeKeeps DEF SocksStep
<1>4. CASE GatewayStep
  BY <1>4, GatewayReceiveKeeps, ClosingKeeps, SendReplyKeeps DEF GatewayStep
<1>5. ASSUME NEW k, connection_udp_recv_if_handler_send(k) \/ connection_dgram_handler_event(k)
      PROVE  UdpInv'
  BY <1>5, UdpReceiveKeeps, SocketFailedKeeps
<1>6. CASE UNCHANGED vars
  <2>1. /\ UNCHANGED <<cons, next_conid, cbuf, unsent, data, jobs, alive, scons, closing, up,
                       down, reassigned, crossed>>
    BY <1>6 DEF vars, client, device, gateway
  <2>2. JobsInv'
    BY <2>1 DEF UdpInv, JobsInv
  <2>3. QED
    BY <2>1, <2>2, RestKept
<1>7. QED
  BY <1>1, <1>2, <1>3, <1>4, <1>5, <1>6 DEF Next

\* Every reachable state satisfies the invariant.
LEMMA UdpInvariant == Spec => []UdpInv
BY UdpInitially, UdpPreserved, PTL DEF Spec

(* For any number of conids and buffers of any size, a packet carries the  *)
(* datagram its header is about: a new connection's first packet is taken  *)
(* from the device's buffer by a job, before the buffer is reused.         *)
THEOREM FirstDataIntactAlways == Spec => []FirstDataIntact
<1>1. UdpInv => FirstDataIntact
  BY DEF UdpInv, ClientInv, Sound, FirstDataIntact
<1>2. QED
  BY <1>1, UdpInvariant, PTL

(* Whatever the device sends, whenever sessions are lost and sockets fail, *)
(* the gateway uses one socket for two pairs only after the client had to  *)
(* drop a packet of their conid: reuse_connection always sends REBIND, and *)
(* the packet that says so is never overtaken.                             *)
THEOREM PrivateSocketAlways == Spec => []PrivateSocket
<1>1. UdpInv => PrivateSocket
  <2>1. SUFFICES ASSUME UdpInv, NEW k \in DOMAIN scons, scons[k].conid \notin unsent
                 PROVE  ~(Cardinality(scons[k].asked) > 1)
    BY DEF PrivateSocket
  <2> DEFINE c == scons[k]
  <2>2. c \in ToSet(scons)
    BY DEF ToSet
  <2>3. SoundCon(c)
    BY <2>1, <2>2 DEF UdpInv, GatewayInv
  <2> HIDE DEF c
  <2>4. c.conid \in Conids \ unsent
    BY <2>1, <2>3 DEF SoundCon, GatewayCon, c
  <2>5. c.asked \subseteq Asked(c.conid)
    BY <2>2 DEF Asked
  <2>6. \A a, b \in c.asked : a = b
    BY <2>1, <2>4, <2>5 DEF UdpInv, ChainInv
  <2>7. PICK a : a \in c.asked
    BY <2>3 DEF SoundCon
  <2>8. c.asked = {a}
    BY <2>6, <2>7
  <2>9. Cardinality(c.asked) = 1
    BY <2>8, FS_Singleton
  <2>10. QED
    BY <2>9 DEF c
<1>2. QED
  BY <1>1, UdpInvariant, PTL

(* An answer is delivered to a socket that did not ask only under a conid  *)
(* that was reassigned, and only when both talk to the same peer.          *)
THEOREM OwnAnswersAlways == Spec => []OwnAnswers
<1>1. UdpInv => OwnAnswers
  BY DEF UdpInv, CrossedInv
<1>2. QED
  BY <1>1, UdpInvariant, PTL

(* Once nothing of a conid is under way, and none of its packets was       *)
(* dropped, the client and the gateway agree about the pair it stands for. *)
THEOREM EndsAgreeAlways == Spec => []EndsAgree
<1>1. UdpInv => EndsAgree
  <2>1. SUFFICES ASSUME UdpInv, NEW k \in DOMAIN cons, NEW j \in DOMAIN scons,
                        cons[k].conid = scons[j].conid, cons[k].conid \notin unsent,
                        cbuf[cons[k].conid] = <<>>, up = <<>>
                 PROVE  /\ scons[j].orig = cons[k].remote
                        /\ PairOf(cons[k]) \in scons[j].asked
    BY DEF EndsAgree, PairOf
  <2> DEFINE c == cons[k]
             x == scons[j]
             id == c.conid
  <2>2. c \in ToSet(cons) /\ x \in ToSet(scons)
    BY DEF ToSet
  <2>3. c \in Connection /\ SoundCon(x) /\ x.conid = id
    BY <2>1, <2>2 DEF UdpInv, ClientInv, GatewayInv, ToSet
  <2> HIDE DEF c, x
  <2>4. id \in Conids \ unsent
    BY <2>1, <2>3 DEF Connection, c
  <2>5. PairOf(c) \in Owners(id)
    BY <2>2 DEF Owners
  <2>6. PICK a \in x.asked : a.remote = x.orig
    BY <2>3 DEF SoundCon
  <2>7. a \in Asked(id) /\ a \in Pair
    BY <2>2, <2>3, <2>6 DEF Asked, SoundCon, GatewayCon
  <2>8. Chain(id, Asked(id), <<>>, <<>>, Owners(id))
    <3>1. Chain(id, Asked(id), up, cbuf[id], Owners(id))
      BY <2>1, <2>4 DEF UdpInv, ChainInv
    <3>2. QED
      BY <3>1, <2>1 DEF c
  <2>9. Source(id, Asked(id), <<>>, 0, a) /\ 0 \in 0..Len(<<>>)
    BY <2>7 DEF Source
  <2>10. PairOf(c) # a => Told(<<>>, id, 0, Len(<<>>)) \/ Told(<<>>, id, 0, Len(<<>>))
    BY <2>5, <2>7, <2>8, <2>9 DEF Chain
  <2>11. ~Told(<<>>, id, 0, Len(<<>>))
    BY DEF Told
  <2>12. PairOf(c) = a
    BY <2>10, <2>11
  <2>13. a.remote = c.remote
    BY <2>12 DEF PairOf
  <2>14. QED
    BY <2>6, <2>12, <2>13 DEF c, x
<1>2. QED
  BY <1>1, UdpInvariant, PTL

-----------------------------------------------------------------------------
(* Limits and types.                                                       *)

LimitsInv ==
  /\ \A id \in Conids : Len(cbuf[id]) <= send_buffer_size
  /\ Len(scons) <= max_connections_for_client

\* connection_send never overfills a buffer.
LEMMA SendBounded ==
  ASSUME UdpInv, LimitsInv, NEW con \in Connection, NEW b \in BOOLEAN, NEW a \in Pair,
         connection_send(con, b, a)
  PROVE  \A id \in Conids : Len(cbuf'[id]) <= send_buffer_size
<1> DEFINE x == [conid |-> con.conid, rebind |-> b, remote |-> con.remote, payload |-> a]
<1>1. cbuf \in [Conids -> Seq(Packet)] /\ con.conid \in Conids
  BY DEF UdpInv, ClientInv, Connection
<1>2. x \in Packet
  BY DEF Connection, Packet
<1>3. CASE cbuf' = cbuf
  BY <1>3 DEF LimitsInv
<1>4. CASE /\ ~(Len(cbuf[con.conid]) >= send_buffer_size)
           /\ cbuf' = [cbuf EXCEPT ![con.conid] = Append(@, x)]
  <2> HIDE DEF x
  <2>1. cbuf'[con.conid] = Append(cbuf[con.conid], x)
    BY <1>1, <1>4
  <2>2. Len(cbuf'[con.conid]) = Len(cbuf[con.conid]) + 1 /\ Len(cbuf[con.conid]) \in Nat
    BY <2>1, <1>1, <1>2
  <2>3. Len(cbuf'[con.conid]) <= send_buffer_size
    BY <2>2, <1>4, UdpGwAssumption
  <2>4. \A id \in Conids \ {con.conid} : cbuf'[id] = cbuf[id]
    BY <1>1, <1>4
  <2>5. QED
    BY <2>3, <2>4 DEF LimitsInv
<1>5. QED
  BY <1>3, <1>4 DEF connection_send

\* The gateway makes room before it adds a connection.
LEMMA RoomLeft ==
  ASSUME UdpInv, LimitsInv, NEW id
  PROVE  LET G == [scons |-> scons, closing |-> closing]
             C == IF id \in Ids(scons) THEN connection_close(G, IndexOf(scons, id)) ELSE G
             R == IF Len(C.scons) = max_connections_for_client
                  THEN connection_close(C, 1) ELSE C
         IN  Len(R.scons) < max_connections_for_client
<1> DEFINE G == [scons |-> scons, closing |-> closing]
           C == IF id \in Ids(scons) THEN connection_close(G, IndexOf(scons, id)) ELSE G
           R == IF Len(C.scons) = max_connections_for_client THEN connection_close(C, 1) ELSE C
<1>1. scons \in Seq(GatewayCon) /\ Len(scons) \in Nat /\ Len(scons) <= max_connections_for_client
  BY DEF UdpInv, GatewayInv, LimitsInv
<1>2. C.scons \in Seq(GatewayCon) /\ Len(C.scons) <= max_connections_for_client
  <2>1. CASE id \in Ids(scons)
    <3>1. IndexOf(scons, id) \in DOMAIN scons
      BY <2>1, IndexFound
    <3>2. C.scons = RemoveAt(scons, IndexOf(scons, id))
      BY <2>1 DEF connection_close
    <3>3. /\ RemoveAt(scons, IndexOf(scons, id)) \in Seq(GatewayCon)
          /\ Len(RemoveAt(scons, IndexOf(scons, id))) = Len(scons) - 1
      BY <3>1, <1>1, Removed
    <3>4. QED
      BY <3>2, <3>3, <1>1, UdpGwAssumption
  <2>2. CASE id \notin Ids(scons)
    BY <2>2, <1>1
  <2>3. QED
    BY <2>1, <2>2
<1> SUFFICES Len(R.scons) < max_connections_for_client
  OBVIOUS
<1> HIDE DEF C
<1>3. CASE Len(C.scons) = max_connections_for_client
  <2>1. 1 \in DOMAIN C.scons
    BY <1>2, <1>3, UdpGwAssumption
  <2>2. R.scons = RemoveAt(C.scons, 1)
    BY <1>3 DEF connection_close
  <2>3. Len(RemoveAt(C.scons, 1)) = Len(C.scons) - 1
    BY <2>1, <1>2, Removed
  <2>4. QED
    BY <2>2, <2>3, <1>3, UdpGwAssumption
<1>4. CASE Len(C.scons) # max_connections_for_client
  BY <1>2, <1>4, UdpGwAssumption
<1>5. QED
  BY <1>3, <1>4

\* Rewriting a connection and moving it to the front adds none.
LEMMA RewrittenLength ==
  ASSUME NEW s \in Seq(GatewayCon), NEW k \in DOMAIN s, NEW y
  PROVE  Len(ToFront([s EXCEPT ![k] = y], k)) = Len(s)
<1> DEFINE t == [s EXCEPT ![k] = y]
           S == GatewayCon \cup {y}
<1>1. s \in Seq(S) /\ y \in S
  OBVIOUS
<1>2. t \in Seq(S) /\ Len(t) = Len(s) /\ k \in DOMAIN t /\ t[k] \in S
  BY <1>1
<1> HIDE DEF t, S
<1>3. RemoveAt(t, k) \in Seq(S) /\ Len(RemoveAt(t, k)) = Len(t) - 1 /\ Len(t) \in Nat
  BY <1>2, Removed
<1>4. Len(Append(RemoveAt(t, k), t[k])) = Len(t)
  BY <1>2, <1>3
<1>5. QED
  BY <1>2, <1>4 DEF ToFront, t

\* No step passes the limit of a buffer or of the gateway.
LEMMA LimitsPreserved == UdpInv /\ LimitsInv /\ [Next]_vars => LimitsInv'
<1> SUFFICES ASSUME UdpInv, LimitsInv, [Next]_vars PROVE LimitsInv'
  OBVIOUS
<1>1. /\ cons \in Seq(Connection) /\ Distinct(cons) /\ cbuf \in [Conids -> Seq(Packet)]
      /\ scons \in Seq(GatewayCon) /\ Distinct(scons)
  BY DEF UdpInv, ClientInv, GatewayInv
<1>2. ASSUME NEW l \in Locals, NEW r \in Remotes, SubmitKnown(l, r)
      PROVE  LimitsInv'
  <2>1. PICK k \in DOMAIN cons : connection_send(cons[k], FALSE, data') /\ Read(l, r)
    BY <1>2 DEF SubmitKnown
  <2>2. cons[k] \in Connection /\ data' \in Pair /\ FALSE \in BOOLEAN
    BY <2>1, <1>1 DEF Read, Pair
  <2>3. scons' = scons
    BY <1>2 DEF SubmitKnown, gateway
  <2>4. QED
    BY <2>1, <2>2, <2>3, SendBounded DEF LimitsInv
<1>3. ASSUME NEW l \in Locals, NEW r \in Remotes, reuse_connection(l, r)
      PROVE  LimitsInv'
  <2> DEFINE con == [Head(cons) EXCEPT !.local = l, !.remote = r]
  <2>1. /\ connection_send(con, TRUE, data') /\ Read(l, r) /\ scons' = scons
        /\ Len(cons) = max_connections
    BY <1>3 DEF reuse_connection, gateway
  <2>2. Head(cons) \in Connection
    BY <2>1, <1>1, UdpGwAssumption
  <2>3. con \in Connection /\ data' \in Pair /\ TRUE \in BOOLEAN
    BY <2>1, <2>2 DEF Connection, Read, Pair
  <2> HIDE DEF con
  <2>4. QED
    BY <2>1, <2>3, SendBounded DEF LimitsInv
<1>4. CASE connection_first_job_handler
  <2>1. /\ jobs # <<>> /\ Head(jobs).job = "first" /\ scons' = scons
        /\ connection_send(cons[IndexOf(cons, Head(jobs).conid)], TRUE, data)
    BY <1>4 DEF connection_first_job_handler, gateway
  <2>2. PICK c \in ToSet(cons) :
           /\ jobs = <<[job |-> "first", conid |-> c.conid], [job |-> "read"]>>
           /\ data = PairOf(c)
    BY <2>1 DEF UdpInv, JobsInv
  <2>3. Head(jobs).conid = c.conid /\ c \in Connection
    BY <2>2, <1>1 DEF ToSet
  <2>4. IndexOf(cons, c.conid) \in DOMAIN cons
    BY IdsOfSet, IndexFound
  <2>5. cons[IndexOf(cons, c.conid)] \in Connection /\ data \in Pair /\ TRUE \in BOOLEAN
    <3>1. cons[IndexOf(cons, c.conid)] \in Connection
      BY <2>4, <1>1
    <3>2. PairOf(c) \in Pair
      BY <2>3 DEF Connection, PairOf, Pair
    <3>3. QED
      BY <2>2, <3>1, <3>2
  <2>6. QED
    BY <2>1, <2>3, <2>5, SendBounded DEF LimitsInv
<1>5. ASSUME NEW id \in Conids, SendPacket(id)
      PROVE  LimitsInv'
  <2>1. cbuf[id] # <<>> /\ cbuf' = [cbuf EXCEPT ![id] = Tail(@)] /\ scons' = scons
    BY <1>5 DEF SendPacket, gateway
  <2>2. cbuf'[id] = Tail(cbuf[id]) /\ \A i \in Conids \ {id} : cbuf'[i] = cbuf[i]
    BY <2>1, <1>1
  <2>3. Len(Tail(cbuf[id])) = Len(cbuf[id]) - 1 /\ Len(cbuf[id]) \in Nat
    BY <2>1, <1>1
  <2>4. Len(cbuf'[id]) <= send_buffer_size
    BY <2>2, <2>3, UdpGwAssumption DEF LimitsInv
  <2>5. QED
    BY <2>1, <2>2, <2>4 DEF LimitsInv
<1>6. CASE client_recv_if_handler_send
  <2> DEFINE p == Head(up)
             k == IndexOf(scons, p.conid)
             G == [scons |-> scons, closing |-> closing]
             C == IF p.conid \in Ids(scons) THEN connection_close(G, k) ELSE G
             R == IF Len(C.scons) = max_connections_for_client
                  THEN connection_close(C, 1) ELSE C
             t == [scons EXCEPT ![k].asked = @ \cup {p.payload}]
             n == [conid |-> p.conid, orig |-> p.remote, asked |-> {p.payload}, buf |-> <<>>]
  <2>1. /\ up # <<>> /\ cbuf' = cbuf
        /\ \/ p.conid \in Ids(scons) /\ scons' = ToFront(t, k)
           \/ scons' = Append(R.scons, n)
    BY <1>6 DEF client_recv_if_handler_send, client
  <2>2. R.scons \in Seq(GatewayCon) /\ Len(R.scons) < max_connections_for_client
    BY RoomMade, RoomLeft
  <2> HIDE DEF R
  <2>3. n \in GatewayCon
    <3>1. p \in Packet
      BY <2>1 DEF UdpInv, ClientInv
    <3>2. QED
      BY <3>1 DEF Packet, GatewayCon
  <2>4. CASE scons' = Append(R.scons, n)
    <3> HIDE DEF n
    <3>1. Len(scons') = Len(R.scons) + 1 /\ Len(R.scons) \in Nat
      BY <2>2, <2>3, <2>4
    <3>2. QED
      BY <3>1, <2>1, <2>2, UdpGwAssumption DEF LimitsInv
  <2>5. CASE p.conid \in Ids(scons) /\ scons' = ToFront(t, k)
    <3>1. k \in DOMAIN scons
      BY <2>5, IndexFound
    <3> HIDE DEF k
    <3>2. Len(ToFront([scons EXCEPT ![k] = [scons[k] EXCEPT !.asked = @ \cup {p.payload}]], k))
             = Len(scons)
      BY <3>1, <1>1, RewrittenLength
    <3>3. Len(scons') = Len(scons)
      BY <3>2, <2>5
    <3>4. QED
      BY <3>3, <2>1 DEF LimitsInv
  <2>6. QED
    BY <2>1, <2>4, <2>5
<1>7. ASSUME NEW k, connection_udp_recv_if_handler_send(k)
      PROVE  LimitsInv'
  <2>1. k \in DOMAIN scons /\ cbuf' = cbuf
    BY <1>7 DEF connection_udp_recv_if_handler_send, client
  <2>2. PICK b : scons' = ToFront([scons EXCEPT ![k].buf = b], k)
    BY <1>7 DEF connection_udp_recv_if_handler_send
  <2>3. Len(ToFront([scons EXCEPT ![k] = [scons[k] EXCEPT !.buf = b]], k)) = Len(scons)
    BY <2>1, <1>1, RewrittenLength
  <2>4. QED
    BY <2>1, <2>2, <2>3 DEF LimitsInv
<1>8. ASSUME NEW k, connection_dgram_handler_event(k)
      PROVE  LimitsInv'
  <2>1. k \in DOMAIN scons /\ cbuf' = cbuf /\ scons' = RemoveAt(scons, k)
    BY <1>8 DEF connection_dgram_handler_event, connection_close, client
  <2>2. Len(scons') = Len(scons) - 1 /\ Len(scons) \in Nat
    BY <2>1, <1>1, Removed
  <2>3. QED
    BY <2>1, <2>2, UdpGwAssumption DEF LimitsInv
<1>9. ASSUME NEW k, SendReply(k)
      PROVE  LimitsInv'
  <2>1. cbuf' = cbuf /\ scons' = [scons EXCEPT ![k].buf = Tail(@)]
    BY <1>9 DEF SendReply, client
  <2>2. Len(scons') = Len(scons)
    BY <2>1, <1>1
  <2>3. QED
    BY <2>1, <2>2 DEF LimitsInv
<1>10. CASE cbuf' = cbuf /\ (scons' = scons \/ scons' = <<>>)
  BY <1>10, UdpGwAssumption DEF LimitsInv
<1>11. ASSUME NEW l \in Locals, NEW r \in Remotes,
              connection_init(l, r) \/ connection_init_failed(l, r)
       PROVE  cbuf' = cbuf /\ scons' = scons
  BY <1>11 DEF connection_init, connection_init_failed, client, gateway
<1>12. CASE \/ ReadDone \/ recv_interface_handler_send \/ SocksStep \/ SocksError
            \/ client_free \/ connection_send_qflow_busy_handler \/ UNCHANGED vars
  BY <1>10, <1>12 DEF ReadDone, recv_interface_handler_send, SocksStep, reconnect_timer_handler,
     SocksUp, FallSilent, SocksClosed, SocksError, free_socks, client_free,
     connection_send_qflow_busy_handler, vars, client, device, gateway
<1>13. QED
  BY <1>2, <1>3, <1>4, <1>5, <1>6, <1>7, <1>8, <1>9, <1>10, <1>11, <1>12
  DEF Next, ClientStep, GatewayStep

\* Connections with distinct conids are as many as their conids.
LEMMA DistinctIds ==
  ASSUME NEW S, NEW s \in Seq(S), Distinct(s)
  PROVE  Cardinality(Ids(s)) = Len(s)
<1> DEFINE f == [k \in 1..Len(s) |-> s[k].conid]
<1>1. f \in Surjection(1..Len(s), Ids(s))
  BY DEF Surjection, Ids
<1>2. f \in Injection(1..Len(s), Ids(s))
  BY <1>1 DEF Injection, IsInjective, Surjection, Distinct
<1>3. IsFiniteSet(1..Len(s)) /\ Cardinality(1..Len(s)) = Len(s)
  BY FS_Interval, 1 \in Int, Len(s) \in Nat
<1>4. QED
  BY <1>1, <1>2, <1>3, FS_Surjection

(* The buffers and both tables of connections stay within their limits,    *)
(* and neither table gives a conid twice: find_unused_conid finds a conid  *)
(* while there is room, and the gateway makes room before it adds.         *)
THEOREM UdpTypeCorrect == Spec => []TypeOK
<1>1. Init => LimitsInv
  BY UdpGwAssumption DEF Init, LimitsInv
<1>2. Spec => []LimitsInv
  BY <1>1, LimitsPreserved, UdpInvariant, PTL DEF Spec
<1>3. UdpInv /\ LimitsInv => TypeOK
  <2>1. SUFFICES ASSUME UdpInv, LimitsInv PROVE TypeOK
    OBVIOUS
  <2>2. /\ cons \in Seq(Connection) /\ Len(cons) <= max_connections /\ next_conid \in Conids
        /\ cbuf \in [Conids -> Seq(Packet)] /\ up \in Seq(Packet) /\ down \in Seq(Reply)
    BY <2>1 DEF UdpInv, ClientInv
  <2>3. \A k \in DOMAIN cons : cons[k] \in [conid : Conids, local : Locals, remote : Remotes]
    <3>1. \A k \in DOMAIN cons : cons[k] \in Connection
      BY <2>2
    <3>2. QED
      BY <3>1 DEF Connection
  <2>4. Cardinality(Ids(cons)) = Len(cons) /\ Cardinality(Ids(scons)) = Len(scons)
    BY <2>1, DistinctIds DEF UdpInv, ClientInv, GatewayInv
  <2>5. ASSUME NEW S, NEW s \in Seq(S) PROVE ToSet(s) \subseteq S
    BY DEF ToSet
  <2>6. /\ \A id \in Conids : ToSet(cbuf[id]) \subseteq Packet
        /\ ToSet(up) \subseteq Packet /\ ToSet(down) \subseteq Reply
    BY <2>2, <2>5
  <2>7. QED
    BY <2>1, <2>2, <2>3, <2>4, <2>6 DEF TypeOK, LimitsInv
<1>4. QED
  BY <1>2, <1>3, UdpInvariant, PTL

=============================================================================
