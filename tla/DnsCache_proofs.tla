-------------------------- MODULE DnsCache_proofs ---------------------------
(***************************************************************************)
(* Theorems about DnsCache, for every finite set of names, any threads,    *)
(* ttls, limits and times.                                                 *)
(***************************************************************************)
EXTENDS DnsCache, FiniteSetTheorems, SequenceTheorems, TLAPS

-----------------------------------------------------------------------------
(* Induction.  The library's theorems that take a set are enough: the      *)
(* least element of a set of numbers, and the minimal set of a collection. *)

\* A set of natural numbers that is not empty has a least element.
LEMMA LeastNat ==
  ASSUME NEW A \in SUBSET Nat, A # {}
  PROVE  \E k \in A : \A j \in A : k <= j
<1> DEFINE R == {ss \in Nat \X Nat : ss[1] < ss[2]}
<1>1. IsWellFoundedOn(R, Nat)
  BY NatLessThanWellFounded DEF OpToRel
<1>2. PICK k \in A : \A j \in A : ~(<<j, k>> \in R)
  <2> HIDE DEF R
  <2> QED BY <1>1, WFMin
<1>3. \A j \in A : ~(j < k)
  BY <1>2
<1>4. QED BY <1>2, <1>3

\* Induction up to N.
LEMMA UpTo ==
  ASSUME NEW N \in Nat, NEW A, 0 \in A, \A k \in 1..N : k - 1 \in A => k \in A
  PROVE  \A k \in 0..N : k \in A
<1> DEFINE B == {k \in 0..N : k \notin A}
<1>1. SUFFICES ASSUME B # {} PROVE FALSE
  OBVIOUS
<1>2. B \in SUBSET Nat
  OBVIOUS
<1>3. PICK k \in B : \A j \in B : k <= j
  <2> HIDE DEF B
  <2> QED BY <1>1, <1>2, LeastNat
<1>4. k \in 1..N /\ k - 1 \notin B
  BY <1>3
<1>5. QED BY <1>3, <1>4

\* A set of numbers up to N that holds 0 has a greatest element.
LEMMA MaxUpTo ==
  ASSUME NEW N \in Nat, NEW A \in SUBSET (0..N), 0 \in A
  PROVE  Max(A) \in A /\ \A k \in A : k <= Max(A)
<1> DEFINE B == {N - k : k \in A}
<1>1. B \in SUBSET Nat /\ B # {}
  OBVIOUS
<1>2. PICK b \in B : \A j \in B : b <= j
  <2> HIDE DEF B
  <2> QED BY <1>1, LeastNat
<1>3. PICK k \in A : b = N - k
  BY <1>2
<1>4. \A j \in A : k >= j
  BY <1>2, <1>3
<1>5. QED BY <1>3, <1>4 DEF Max

\* N applications of the functions G, starting from b.
Iterates(f, N, X, b, G) ==
  f \in [0..N -> X] /\ f[0] = b /\ \A k \in 1..N : f[k] = G[k][f[k - 1]]

Maps(G, N, X) == G \in [1..N -> [X -> X]]

\* They have a result.
LEMMA IterExists ==
  ASSUME NEW N \in Nat, NEW X, NEW b \in X, NEW G, Maps(G, N, X)
  PROVE  \E f : Iterates(f, N, X, b, G)
<1> DEFINE A == {n \in 0..N : \E f : Iterates(f, n, X, b, G)}
<1>1. 0 \in A
  <2>1. Iterates([k \in 0..0 |-> b], 0, X, b, G)
    BY DEF Iterates
  <2>2. \E f : Iterates(f, 0, X, b, G)
    BY <2>1
  <2>3. QED BY <2>2
<1>2. ASSUME NEW k \in 1..N, k - 1 \in A PROVE k \in A
  <2>1. PICK f : Iterates(f, k - 1, X, b, G)
    BY <1>2
  <2> DEFINE g == [j \in 0..k |-> IF j = k THEN G[k][f[k - 1]] ELSE f[j]]
  <2>2. g \in [0..k -> X] /\ g[0] = b
    BY <2>1 DEF Iterates, Maps
  <2>3. ASSUME NEW j \in 1..k PROVE g[j] = G[j][g[j - 1]]
    <3>1. CASE j = k
      BY <2>1, <3>1 DEF Iterates
    <3>2. CASE j # k
      <4>1. j \in 1..(k - 1)
        BY <3>2
      <4>2. QED BY <2>1, <4>1 DEF Iterates
    <3>3. QED BY <3>1, <3>2
  <2>4. Iterates(g, k, X, b, G)
    BY <2>2, <2>3 DEF Iterates
  <2>5. \E h : Iterates(h, k, X, b, G)
    <3> HIDE DEF g
    <3> QED BY <2>4
  <2>6. QED BY <2>5
<1>3. \A k \in 0..N : k \in A
  <2> HIDE DEF A
  <2> QED BY <1>1, <1>2, UpTo
<1>4. QED BY <1>3

-----------------------------------------------------------------------------
(* The list.                                                               *)

NodeSet == Names \X (Types \cup {NEG})

\* l lists the nodes N, each once, in the order of their stamps in c.
Listing(l, N, c) ==
  /\ l \in Seq(NodeSet) /\ N \subseteq NodeSet
  /\ \A x \in NodeSet : x \in N <=> \E k \in 1..Len(l) : l[k] = x
  /\ \A j, k \in 1..Len(l) : j < k => l[j] # l[k] /\ NodeTs(c, l[j]) <= NodeTs(c, l[k])

\* Nodes have numbers as stamps.
Stamped(c) == \A x \in NodeSet : NodeTs(c, x) \in Nat

\* A sequence without its element at p.
LEMMA RemoveAtIs ==
  ASSUME NEW X, NEW l \in Seq(X), NEW p \in 1..Len(l)
  PROVE  /\ RemoveAt(l, p) \in Seq(X) /\ Len(RemoveAt(l, p)) = Len(l) - 1
         /\ \A j \in 1..(Len(l) - 1) : RemoveAt(l, p)[j] = IF j < p THEN l[j] ELSE l[j + 1]
<1> DEFINE a == SubSeq(l, 1, p - 1)
           b == SubSeq(l, p + 1, Len(l))
<1>1. Len(l) \in Nat /\ \A k \in 1..Len(l) : l[k] \in X
  OBVIOUS
<1>2. a \in Seq(X) /\ Len(a) = p - 1 /\ \A k \in 1..(p - 1) : a[k] = l[k]
  BY <1>1, SubSeqProperties
<1>3. b \in Seq(X) /\ Len(b) = Len(l) - p /\ \A k \in 1..(Len(l) - p) : b[k] = l[p + k]
  BY <1>1, SubSeqProperties
<1> HIDE DEF a, b
<1>4. /\ a \o b \in Seq(X) /\ Len(a \o b) = Len(l) - 1
      /\ \A k \in 1..(Len(l) - 1) : (a \o b)[k] = IF k <= p - 1 THEN a[k] ELSE b[k - (p - 1)]
  BY <1>1, <1>2, <1>3, ConcatProperties
<1>5. RemoveAt(l, p) = a \o b
  BY DEF RemoveAt, a, b
<1>6. ASSUME NEW j \in 1..(Len(l) - 1)
      PROVE  (a \o b)[j] = IF j < p THEN l[j] ELSE l[j + 1]
  <2>1. CASE j < p
    BY <1>1, <1>2, <1>4, <2>1
  <2>2. CASE ~(j < p)
    <3>1. j - (p - 1) \in 1..(Len(l) - p) /\ p + (j - (p - 1)) = j + 1 /\ ~(j <= p - 1)
      BY <1>1, <2>2
    <3>2. (a \o b)[j] = b[j - (p - 1)] /\ b[j - (p - 1)] = l[p + (j - (p - 1))]
      BY <1>3, <1>4, <3>1
    <3>3. QED BY <2>2, <3>1, <3>2
  <2>3. QED BY <2>1, <2>2
<1>7. QED BY <1>4, <1>5, <1>6

\* A sequence with an element inserted at p.
LEMMA InsertAtIs ==
  ASSUME NEW X, NEW l \in Seq(X), NEW p \in 1..(Len(l) + 1), NEW x \in X
  PROVE  /\ InsertAt(l, p, x) \in Seq(X) /\ Len(InsertAt(l, p, x)) = Len(l) + 1
         /\ \A j \in 1..(Len(l) + 1) :
               InsertAt(l, p, x)[j] = IF j < p THEN l[j] ELSE IF j = p THEN x ELSE l[j - 1]
<1> DEFINE a == SubSeq(l, 1, p - 1)
           b == SubSeq(l, p, Len(l))
<1>1. Len(l) \in Nat /\ \A k \in 1..Len(l) : l[k] \in X
  OBVIOUS
<1>2. a \in Seq(X) /\ Len(a) = p - 1 /\ \A k \in 1..(p - 1) : a[k] = l[k]
  BY <1>1, SubSeqProperties
<1>3. /\ b \in Seq(X) /\ Len(b) = Len(l) - p + 1
      /\ \A k \in 1..(Len(l) - p + 1) : b[k] = l[p + k - 1]
  BY <1>1, SubSeqProperties
<1> HIDE DEF a, b
<1>4. <<x>> \in Seq(X) /\ Len(<<x>>) = 1 /\ <<x>>[1] = x
  OBVIOUS
<1> DEFINE e == <<x>>
<1> HIDE DEF e
<1>5. /\ a \o e \in Seq(X) /\ Len(a \o e) = p
      /\ \A k \in 1..p : (a \o e)[k] = IF k <= p - 1 THEN l[k] ELSE x
  <2>1. /\ a \o e \in Seq(X) /\ Len(a \o e) = p
        /\ \A k \in 1..p : (a \o e)[k] = IF k <= p - 1 THEN a[k] ELSE e[k - (p - 1)]
    BY <1>1, <1>2, <1>4, ConcatProperties DEF e
  <2>2. \A k \in 1..p : ~(k <= p - 1) => k - (p - 1) = 1
    BY <1>1
  <2>3. e[1] = x
    BY <1>4 DEF e
  <2>4. QED BY <1>2, <2>1, <2>2, <2>3
<1> DEFINE d == a \o e
<1>10. /\ d \in Seq(X) /\ Len(d) = p
       /\ \A k \in 1..p : d[k] = IF k <= p - 1 THEN l[k] ELSE x
  BY <1>5
<1> HIDE DEF d
<1>6. /\ d \o b \in Seq(X) /\ Len(d \o b) = Len(l) + 1
      /\ \A k \in 1..(Len(l) + 1) : (d \o b)[k] = IF k <= p THEN d[k] ELSE b[k - p]
  <2>1. /\ d \o b \in Seq(X)
        /\ Len(d \o b) = Len(d) + Len(b)
        /\ \A k \in 1..Len(d) + Len(b) :
              (d \o b)[k] = IF k <= Len(d) THEN d[k] ELSE b[k - Len(d)]
    BY <1>3, <1>10, ConcatProperties
  <2>2. Len(d) + Len(b) = Len(l) + 1
    BY <1>1, <1>3, <1>10
  <2>3. QED BY <1>10, <2>1, <2>2
<1>7. InsertAt(l, p, x) = d \o b
  BY DEF InsertAt, a, b, d, e
<1>8. ASSUME NEW j \in 1..(Len(l) + 1)
      PROVE  (d \o b)[j] = IF j < p THEN l[j] ELSE IF j = p THEN x ELSE l[j - 1]
  <2>1. CASE j <= p
    BY <1>1, <1>6, <1>10, <2>1
  <2>2. CASE ~(j <= p)
    <3>1. j - p \in 1..(Len(l) - p + 1) /\ p + (j - p) - 1 = j - 1
      BY <1>1, <2>2
    <3>2. (d \o b)[j] = b[j - p] /\ b[j - p] = l[p + (j - p) - 1]
      BY <1>3, <1>6, <2>2, <3>1
    <3>3. QED BY <1>1, <2>2, <3>1, <3>2
  <2>3. QED BY <2>1, <2>2
<1>9. QED BY <1>6, <1>7, <1>8

\* The same list, if the stamps of its nodes have not changed.
LEMMA ListSame ==
  ASSUME NEW l, NEW N, NEW c, NEW d, Listing(l, N, c),
         \A x \in N : NodeTs(c, x) = NodeTs(d, x)
  PROVE  Listing(l, N, d)
<1>1. \A k \in 1..Len(l) : l[k] \in N
  BY DEF Listing
<1>2. QED BY <1>1 DEF Listing

\* A node is unlinked.
LEMMA ListRemove ==
  ASSUME NEW l, NEW N, NEW c, Listing(l, N, c), NEW x \in NodeSet
  PROVE  Listing(RemoveFirst(l, x), N \ {x}, c)
<1>1. CASE ~\E k \in 1..Len(l) : l[k] = x
  <2>1. RemoveFirst(l, x) = l /\ x \notin N
    BY <1>1 DEF RemoveFirst, Listing
  <2>2. N \ {x} = N
    BY <2>1
  <2>3. QED BY <2>1, <2>2
<1>2. CASE \E k \in 1..Len(l) : l[k] = x
  <2> DEFINE I == {i \in 1..Len(l) : l[i] = x}
             p == Min(I)
             R == RemoveAt(l, p)
  <2>1. RemoveFirst(l, x) = R
    BY <1>2 DEF RemoveFirst, SelectInSeq
  <2>2. p \in 1..Len(l) /\ l[p] = x
    <3>1. I \in SUBSET Nat /\ I # {}
      BY <1>2
    <3>2. \E k \in I : \A j \in I : k <= j
      <4> HIDE DEF I
      <4> QED BY <3>1, LeastNat
    <3>3. p \in I
      <4> HIDE DEF I
      <4> QED BY <3>2 DEF Min
    <3>4. QED BY <3>3
  <2> HIDE DEF p
  <2>3. l \in Seq(NodeSet)
    BY DEF Listing
  <2>4. /\ R \in Seq(NodeSet) /\ Len(R) = Len(l) - 1
        /\ \A j \in 1..(Len(l) - 1) : R[j] = IF j < p THEN l[j] ELSE l[j + 1]
    BY <2>2, <2>3, RemoveAtIs
  <2> HIDE DEF R
  <2>5. ASSUME NEW j \in 1..Len(R), NEW k \in 1..Len(R), j < k
        PROVE  R[j] # R[k] /\ NodeTs(c, R[j]) <= NodeTs(c, R[k])
    <3> DEFINE jj == IF j < p THEN j ELSE j + 1
               kk == IF k < p THEN k ELSE k + 1
    <3>1. jj \in 1..Len(l) /\ kk \in 1..Len(l) /\ jj < kk
      BY <2>2, <2>3, <2>4, <2>5
    <3>2. R[j] = l[jj] /\ R[k] = l[kk]
      BY <2>2, <2>3, <2>4
    <3> HIDE DEF jj, kk
    <3>3. QED BY <3>1, <3>2 DEF Listing
  <2>6. ASSUME NEW y \in NodeSet
        PROVE  y \in N \ {x} <=> \E k \in 1..Len(R) : R[k] = y
    <3>1. ASSUME y \in N \ {x} PROVE \E k \in 1..Len(R) : R[k] = y
      <4>1. PICK k \in 1..Len(l) : l[k] = y
        BY <3>1 DEF Listing
      <4>2. k # p
        BY <2>2, <3>1, <4>1
      <4>3. CASE k < p
        <5>1. k \in 1..Len(R) /\ R[k] = y
          BY <2>2, <2>3, <2>4, <4>1, <4>3
        <5>2. QED BY <5>1
      <4>4. CASE k > p
        <5>1. k - 1 \in 1..Len(R) /\ R[k - 1] = y
          BY <2>2, <2>3, <2>4, <4>1, <4>4
        <5>2. QED BY <5>1
      <4>5. QED BY <2>2, <4>2, <4>3, <4>4
    <3>2. ASSUME NEW k \in 1..Len(R), R[k] = y PROVE y \in N \ {x}
      <4>1. PICK j \in 1..Len(l) : j # p /\ l[j] = y
        BY <2>2, <2>3, <2>4, <3>2
      <4>2. y # x
        BY <2>2, <4>1 DEF Listing
      <4>3. QED BY <4>1, <4>2 DEF Listing
    <3>3. QED BY <3>1, <3>2
  <2>7. QED BY <2>1, <2>4, <2>5, <2>6 DEF Listing
<1>3. QED BY <1>1, <1>2

\* A node is inserted behind those that are not newer.
LEMMA ListInsertAt ==
  ASSUME NEW l, NEW N, NEW c, Listing(l, N, c), NEW x \in NodeSet, x \notin N,
         NEW m \in 0..Len(l),
         \A k \in 1..Len(l) : /\ k <= m => NodeTs(c, l[k]) <= NodeTs(c, x)
                              /\ k > m => NodeTs(c, x) <= NodeTs(c, l[k])
  PROVE  Listing(InsertAt(l, m + 1, x), N \cup {x}, c)
<1> DEFINE R == InsertAt(l, m + 1, x)
<1>1. l \in Seq(NodeSet) /\ Len(l) \in Nat
  BY DEF Listing
<1>2. \A k \in 1..Len(l) : l[k] # x
  BY <1>1 DEF Listing
<1>8. /\ R \in Seq(NodeSet) /\ Len(R) = Len(l) + 1
      /\ \A j \in 1..(Len(l) + 1) :
            R[j] = IF j < m + 1 THEN l[j] ELSE IF j = m + 1 THEN x ELSE l[j - 1]
  <2>1. m + 1 \in 1..(Len(l) + 1)
    BY <1>1
  <2>2. QED BY <1>1, <2>1, InsertAtIs
<1> HIDE DEF R
<1>9. ASSUME NEW j \in 1..Len(R), NEW k \in 1..Len(R), j < k
      PROVE  R[j] # R[k] /\ NodeTs(c, R[j]) <= NodeTs(c, R[k])
  <2> DEFINE jj == IF j < m + 1 THEN j ELSE j - 1
             kk == IF k < m + 1 THEN k ELSE k - 1
  <2>1. CASE j = m + 1
    <3>1. R[j] = x /\ k - 1 \in 1..Len(l) /\ k - 1 > m /\ R[k] = l[k - 1]
      BY <1>1, <1>8, <1>9, <2>1
    <3>2. l[k - 1] # x /\ NodeTs(c, x) <= NodeTs(c, l[k - 1])
      BY <1>1, <1>2, <3>1
    <3>3. QED BY <3>1, <3>2
  <2>2. CASE k = m + 1
    <3>1. R[k] = x /\ j \in 1..Len(l) /\ j <= m /\ R[j] = l[j]
      BY <1>1, <1>8, <1>9, <2>2
    <3>2. l[j] # x /\ NodeTs(c, l[j]) <= NodeTs(c, x)
      BY <1>1, <1>2, <3>1
    <3>3. QED BY <3>1, <3>2
  <2>3. CASE j # m + 1 /\ k # m + 1
    <3>1. jj \in 1..Len(l) /\ kk \in 1..Len(l) /\ jj < kk
      BY <1>1, <1>8, <1>9, <2>3
    <3>2. R[j] = l[jj] /\ R[k] = l[kk]
      BY <1>1, <1>8, <2>3
    <3> HIDE DEF jj, kk
    <3>3. QED BY <3>1, <3>2 DEF Listing
  <2>4. QED BY <2>1, <2>2, <2>3
<1>10. ASSUME NEW y \in NodeSet
       PROVE  y \in N \cup {x} <=> \E k \in 1..Len(R) : R[k] = y
  <2>1. CASE y = x
    <3>1. m + 1 \in 1..Len(R) /\ R[m + 1] = x
      BY <1>1, <1>8
    <3>2. QED BY <2>1, <3>1
  <2>2. ASSUME y # x, y \in N PROVE \E k \in 1..Len(R) : R[k] = y
    <3>1. PICK k \in 1..Len(l) : l[k] = y
      BY <2>2 DEF Listing
    <3>2. CASE k <= m
      <4>1. k \in 1..Len(R) /\ R[k] = y
        BY <1>1, <1>8, <3>1, <3>2
      <4>2. QED BY <4>1
    <3>3. CASE k > m
      <4>1. k + 1 \in 1..Len(R) /\ R[k + 1] = y
        BY <1>1, <1>8, <3>1, <3>3
      <4>2. QED BY <4>1
    <3>4. QED BY <1>1, <3>2, <3>3
  <2>3. ASSUME y # x, NEW k \in 1..Len(R), R[k] = y PROVE y \in N
    <3>1. PICK j \in 1..Len(l) : l[j] = y
      BY <1>1, <1>8, <2>3
    <3>2. QED BY <3>1 DEF Listing
  <2>4. QED BY <2>1, <2>2, <2>3
<1>11. N \cup {x} \subseteq NodeSet
  BY DEF Listing
<1>12. QED BY <1>8, <1>9, <1>10, <1>11 DEF Listing, R

\* insert_rrl finds that place.
LEMMA ListInsert ==
  ASSUME NEW S, NEW N, Listing(S.rr_l, N, S.cache), Stamped(S.cache),
         NEW x \in NodeSet, x \notin N
  PROVE  Listing(InsertAt(S.rr_l, Place(S, x), x), N \cup {x}, S.cache)
<1> DEFINE l == S.rr_l
           c == S.cache
           A == {k \in DOMAIN l : NodeTs(c, x) >= NodeTs(c, l[k])} \cup {0}
           m == Max(A)
<1>1. l \in Seq(NodeSet) /\ Len(l) \in Nat /\ DOMAIN l = 1..Len(l)
  BY DEF Listing
<1>2. m \in A /\ \A k \in A : k <= m
  <2>1. A \in SUBSET (0..Len(l)) /\ 0 \in A
    BY <1>1
  <2> HIDE DEF A
  <2>2. QED BY <1>1, <2>1, MaxUpTo
<1>3. Place(S, x) = m + 1
  BY DEF Place
<1> HIDE DEF m
<1>4. /\ m \in 0..Len(l)
      /\ m # 0 => NodeTs(c, x) >= NodeTs(c, l[m])
      /\ \A k \in 1..Len(l) : k > m => ~(NodeTs(c, x) >= NodeTs(c, l[k]))
  BY <1>1, <1>2
<1>5. \A k \in 1..Len(l) : NodeTs(c, l[k]) \in Nat
  BY <1>1 DEF Stamped
<1>6. NodeTs(c, x) \in Nat
  BY DEF Stamped
<1>7. ASSUME NEW k \in 1..Len(l)
      PROVE  /\ k <= m => NodeTs(c, l[k]) <= NodeTs(c, x)
             /\ k > m => NodeTs(c, x) <= NodeTs(c, l[k])
  <2>1. CASE k = m
    BY <1>1, <1>4, <1>5, <1>6, <2>1
  <2>2. CASE k < m
    <3>1. m \in 1..Len(l)
      BY <1>1, <1>4, <2>2
    <3>2. NodeTs(c, l[k]) <= NodeTs(c, l[m])
      BY <2>2, <3>1 DEF Listing
    <3>3. QED BY <1>1, <1>4, <1>5, <1>6, <2>2, <3>1, <3>2
  <2>3. CASE k > m
    BY <1>1, <1>4, <1>5, <1>6, <2>3
  <2>4. QED BY <1>1, <1>4, <2>1, <2>2, <2>3
<1> HIDE DEF l, c
<1>8. Listing(l, N, c)
  BY DEF l, c
<1>9. Listing(InsertAt(l, m + 1, x), N \cup {x}, c)
  BY <1>4, <1>7, <1>8, ListInsertAt
<1>10. QED BY <1>3, <1>9 DEF l, c

-----------------------------------------------------------------------------
(* The sum of the sizes.  It counts the units of the entries, and what is  *)
(* true of cardinalities is true of it.                                    *)

Units(c, A) == UNION {{n} \X (1..c[n].cs) : n \in A}

Sized(c, A) == IsFiniteSet(A) /\ \A n \in A : c[n].cs \in Nat

\* There are finitely many units.
LEMMA UnitsFinite ==
  ASSUME NEW c, NEW A, Sized(c, A)
  PROVE  IsFiniteSet(Units(c, A)) /\ Cardinality(Units(c, A)) \in Nat
<1> DEFINE T == {{n} \X (1..c[n].cs) : n \in A}
           F == [n \in A |-> {n} \X (1..c[n].cs)]
<1>1. ASSUME NEW n \in A PROVE IsFiniteSet({n} \X (1..c[n].cs))
  <2>1. IsFiniteSet(1..c[n].cs)
    BY FS_Interval DEF Sized
  <2>2. QED BY <2>1, FS_Product, FS_Singleton
<1>2. \A U \in T : IsFiniteSet(U)
  BY <1>1
<1>3. F \in Surjection(A, T)
  BY DEF Surjection
<1>4. IsFiniteSet(T)
  BY <1>3, FS_Surjection DEF Sized
<1>5. QED BY <1>2, <1>4, FS_UNION, FS_CardinalityType DEF Units

\* An entry has as many as its size.
LEMMA UnitsSplit ==
  ASSUME NEW c, NEW A, Sized(c, A), NEW x \in A
  PROVE  Cardinality(Units(c, A)) = c[x].cs + Cardinality(Units(c, A \ {x}))
<1> DEFINE z == c[x].cs
           I == 1..z
           U == {x} \X I
           V == Units(c, A \ {x})
<1>1. Units(c, A) = U \cup V /\ U \cap V = {}
  BY DEF Units
<1>2. IsFiniteSet(U) /\ Cardinality(U) = z
  <2>1. z \in Nat
    BY DEF Sized
  <2> HIDE DEF z
  <2>2. IsFiniteSet(I) /\ Cardinality(I) = IF 1 > z THEN 0 ELSE z - 1 + 1
    BY <2>1, FS_Interval
  <2>3. IsFiniteSet(I) /\ Cardinality(I) = z
    BY <2>1, <2>2
  <2>4. IsFiniteSet({x}) /\ Cardinality({x}) = 1
    BY FS_Singleton
  <2> HIDE DEF I
  <2>5. IsFiniteSet({x} \X I) /\ Cardinality({x} \X I) = 1 * Cardinality(I)
    BY <2>3, <2>4, FS_Product
  <2>6. QED BY <2>1, <2>3, <2>5
<1>3. IsFiniteSet(V) /\ Cardinality(V) \in Nat
  <2>1. Sized(c, A \ {x})
    BY FS_RemoveElement DEF Sized
  <2>2. QED BY <2>1, UnitsFinite
<1> HIDE DEF U, V
<1>4. Cardinality(U \cup V) = Cardinality(U) + Cardinality(V) - Cardinality(U \cap V)
  BY <1>2, <1>3, FS_Union
<1>5. Cardinality(U \cap V) = 0
  BY <1>1, FS_EmptySet
<1>6. z \in Nat
  BY DEF Sized
<1>7. QED BY <1>1, <1>2, <1>3, <1>4, <1>5, <1>6 DEF V

\* The sum is the number of units.
LEMMA SumIsUnits ==
  ASSUME NEW c, NEW A, Sized(c, A)
  PROVE  SumCs(c, A) = Cardinality(Units(c, A))
<1> DEFINE F(g) == [s \in SUBSET A |-> IF s = {} THEN 0
                      ELSE LET x == CHOOSE x \in s : TRUE IN c[x].cs + g[s \ {x}]]
           u == [s \in SUBSET A |-> Cardinality(Units(c, s))]
           h == CHOOSE g : g = F(g)
<1>1. \A s \in SUBSET A : Sized(c, s)
  BY FS_Subset DEF Sized
<1>2. u = F(u)
  <2>1. ASSUME NEW s \in SUBSET A, s # {}
        PROVE  LET x == CHOOSE x \in s : TRUE IN u[s] = c[x].cs + u[s \ {x}]
    <3> DEFINE x == CHOOSE x \in s : TRUE
    <3>1. x \in s
      BY <2>1
    <3> HIDE DEF x
    <3>2. s \ {x} \in SUBSET A
      OBVIOUS
    <3>3. u[s] = c[x].cs + u[s \ {x}]
      <4>1. Cardinality(Units(c, s)) = c[x].cs + Cardinality(Units(c, s \ {x}))
        BY <1>1, <3>1, UnitsSplit
      <4>2. QED BY <3>2, <4>1
    <3>4. QED BY <3>3 DEF x
  <2>2. u[{}] = 0
    <3>1. Units(c, {}) = {}
      BY DEF Units
    <3>2. QED BY <3>1, FS_EmptySet
  <2>3. QED BY <2>1, <2>2
<1>3. h = F(h)
  <2> HIDE DEF F
  <2> QED BY <1>2
<1>4. SumCs(c, A) = h[A]
  BY DEF SumCs, MapThenSumSet, MapThenFoldSet
<1>5. h[A] = u[A]
  <2> DEFINE B == {s \in SUBSET A : h[s] # u[s]}
             Order == StrictSubsetOrdering(A)
  <2>1. IsWellFoundedOn(Order, SUBSET A)
    BY FS_StrictSubsetOrderingWellFounded, FS_FiniteSubsetsOfFinite DEF Sized
  <2>2. SUFFICES ASSUME B # {} PROVE FALSE
    OBVIOUS
  <2>3. PICK s \in B : \A r \in B : ~(<<r, s>> \in Order)
    <3> DEFINE P == SUBSET A
    <3>1. B \subseteq P
      OBVIOUS
    <3> HIDE DEF B, Order, P
    <3>2. IsWellFoundedOn(Order, P)
      BY <2>1 DEF P
    <3>3. QED BY <2>2, <3>1, <3>2, WFMin
  <2>4. CASE s = {}
    <3>1. h[s] = 0 /\ u[s] = 0
      <4>1. F(h)[{}] = 0 /\ F(u)[{}] = 0
        OBVIOUS
      <4> HIDE DEF h, u, F
      <4>2. QED BY <1>2, <1>3, <2>4, <4>1
    <3>2. QED BY <3>1
  <2>5. CASE s # {}
    <3> DEFINE x == CHOOSE x \in s : TRUE
               r == s \ {x}
    <3>1. x \in s
      BY <2>5
    <3>2. s \in SUBSET A /\ h[s] # u[s]
      OBVIOUS
    <3>3. F(h)[s] = c[x].cs + h[r] /\ F(u)[s] = c[x].cs + u[r]
      <4> HIDE DEF h, u
      <4> QED BY <2>5, <3>2
    <3> HIDE DEF x
    <3>4. r \in SUBSET A /\ r \subseteq s /\ r # s
      BY <3>1, <3>2
    <3>5. <<r, s>> \in Order
      BY <3>2, <3>4 DEF StrictSubsetOrdering
    <3> HIDE DEF F, h, u, r, Order
    <3>6. h[r] = u[r]
      BY <2>3, <3>4, <3>5
    <3>7. QED BY <1>2, <1>3, <3>2, <3>3, <3>6
  <2>6. QED BY <2>4, <2>5
<1>6. QED BY <1>4, <1>5

\* What the accounts use of the sum: it is a number, one entry taken out,
LEMMA SumSplit ==
  ASSUME NEW c, NEW A, Sized(c, A)
  PROVE  /\ SumCs(c, A) \in Nat
         /\ \A x \in A : SumCs(c, A) = c[x].cs + SumCs(c, A \ {x})
<1>1. ASSUME NEW x \in A PROVE Sized(c, A \ {x})
  BY FS_RemoveElement DEF Sized
<1>2. QED BY <1>1, SumIsUnits, UnitsFinite, UnitsSplit

\* entries that are not larger, and entries of the same size.
LEMMA SumLess ==
  ASSUME NEW c, NEW d, NEW A, Sized(c, A), Sized(d, A), \A n \in A : c[n].cs <= d[n].cs
  PROVE  SumCs(c, A) <= SumCs(d, A)
<1>1. Units(c, A) \in SUBSET Units(d, A)
  <2>1. ASSUME NEW n \in A PROVE {n} \X (1..c[n].cs) \subseteq {n} \X (1..d[n].cs)
    <3>1. c[n].cs \in Nat /\ d[n].cs \in Nat /\ c[n].cs <= d[n].cs
      BY DEF Sized
    <3>2. QED BY <3>1
  <2>2. QED BY <2>1 DEF Units
<1>2. QED BY <1>1, SumIsUnits, UnitsFinite, FS_Subset

\* Sums over entries of the same sizes are the same.
LEMMA SumSame ==
  ASSUME NEW c, NEW d, NEW A, Sized(c, A), \A n \in A : c[n].cs = d[n].cs
  PROVE  SumCs(c, A) = SumCs(d, A)
<1>1. Units(c, A) = Units(d, A)
  BY DEF Units
<1>2. Sized(d, A)
  BY DEF Sized
<1>3. QED BY <1>1, <1>2, SumIsUnits

-----------------------------------------------------------------------------
(* The entries.                                                            *)

Kinds == {"none", "local", "ans", "add", "neg"}
RRs == [kind : Kinds, ts : Nat, ttl : Nat]
Cents == [neg : BOOLEAN, ts : Nat, ttl : Nat, rr : [Types -> RRs], cs : Nat, num_rrs : Nat]

Records(r) == r.kind \in {"ans", "add", "local"}
Count(rr) == (IF Has(rr, "A") THEN 1 ELSE 0) + (IF Has(rr, "CNAME") THEN 1 ELSE 0)

\* An rrset a name may have: what the cache stores has its ttl adjusted.
Kept(r) ==
  /\ r.kind = "none" => r = NoRR
  /\ r.kind # "none" => LowTTL(r.kind = "neg") <= r.ttl /\ r.ttl <= max_ttl

\* An entry that is there: its books, and what excludes what.
Real(ce) ==
  /\ ce.cs = TotalSize(ce.rr) /\ ce.num_rrs = Count(ce.rr)
  /\ ce.neg => ~Has(ce.rr, "A") /\ ~Has(ce.rr, "CNAME")
  /\ ce.neg => LowTTL(TRUE) <= ce.ttl /\ ce.ttl <= max_ttl
  /\ ~(Records(ce.rr["A"]) /\ Records(ce.rr["CNAME"]))

EntOK(ce) == /\ ce \in Cents
             /\ \A i \in Types : Kept(ce.rr[i])
             /\ ce = Absent \/ Real(ce)

\* The entry of the configuration file.
LocalEnt == [neg |-> FALSE, ts |-> 0, ttl |-> 0, cs |-> 3, num_rrs |-> 1,
             rr |-> [i \in Types |-> IF i = "A" THEN RRset("local", 0, max_ttl) ELSE NoRR]]

\* The number of rrsets, type by type.
LEMMA PresentCount ==
  ASSUME NEW rr
  PROVE  Cardinality(Present(rr)) = Count(rr)
<1>1. Present(rr) \subseteq {"A", "CNAME"} /\ Present(rr) = {i \in {"A", "CNAME"} : Has(rr, i)}
  BY DEF Present, Types
<1>2. CASE Has(rr, "A") /\ Has(rr, "CNAME")
  <2>1. Present(rr) = {"A"} \cup {"CNAME"}
    BY <1>1, <1>2
  <2>2. IsFiniteSet({"A"}) /\ Cardinality({"A"}) = 1
    BY FS_Singleton
  <2>3. Cardinality({"A"} \cup {"CNAME"}) = 2
    BY <2>2, FS_AddElement
  <2>4. QED BY <1>2, <2>1, <2>3 DEF Count
<1>3. CASE Has(rr, "A") /\ ~Has(rr, "CNAME")
  <2>1. Present(rr) = {"A"}
    BY <1>1, <1>3
  <2>2. QED BY <1>3, <2>1, FS_Singleton DEF Count
<1>4. CASE ~Has(rr, "A") /\ Has(rr, "CNAME")
  <2>1. Present(rr) = {"CNAME"}
    BY <1>1, <1>4
  <2>2. QED BY <1>4, <2>1, FS_Singleton DEF Count
<1>5. CASE ~Has(rr, "A") /\ ~Has(rr, "CNAME")
  <2>1. Present(rr) = {}
    BY <1>1, <1>5
  <2>2. QED BY <1>5, <2>1, FS_EmptySet DEF Count
<1>6. QED BY <1>2, <1>3, <1>4, <1>5

\* An absent entry.
LEMMA AbsentIs ==
  /\ Absent \in Cents /\ EntOK(Absent)
  /\ Absent.neg = FALSE /\ Absent.rr = NoRRs /\ Absent.cs = 0 /\ Absent.num_rrs = 0
  /\ NoRR \in RRs /\ NoRRs \in [Types -> RRs] /\ Kept(NoRR)
<1>2. Absent.neg = FALSE /\ Absent.rr = NoRRs /\ Absent.cs = 0 /\ Absent.num_rrs = 0
  BY DEF Absent
<1>3. NoRR \in RRs /\ Kept(NoRR)
  BY DEF NoRR, RRs, Kinds, Kept
<1>4. NoRRs \in [Types -> RRs]
  BY <1>3 DEF NoRRs
<1>5. Absent \in Cents
  BY <1>4 DEF Cents, Absent
<1>6. \A i \in Types : Absent.rr[i] = NoRR
  BY <1>2 DEF NoRRs
<1>7. QED BY <1>2, <1>3, <1>4, <1>5, <1>6 DEF EntOK

\* The fields of an entry.
LEMMA CentFields ==
  ASSUME NEW ce \in Cents
  PROVE  /\ ce.neg \in BOOLEAN /\ ce.ts \in Nat /\ ce.ttl \in Nat
         /\ ce.rr \in [Types -> RRs] /\ ce.cs \in Nat /\ ce.num_rrs \in Nat
         /\ \A i \in Types : /\ ce.rr[i] \in RRs /\ ce.rr[i].kind \in Kinds
                              /\ ce.rr[i].ts \in Nat /\ ce.rr[i].ttl \in Nat
  BY DEF Cents, RRs

\* One entry is cached or absent.
LEMMA CachedReal ==
  ASSUME NEW ce, EntOK(ce)
  PROVE  /\ ce.cs > 0 => Real(ce)
         /\ Real(ce) => ce.cs > 0
         /\ ~(ce.cs > 0) => ce = Absent
         /\ \A i \in Types : Has(ce.rr, i) => ce.cs > 0
         /\ ce.neg => ce.cs > 0
<1>1. ce.cs \in Nat
  BY DEF EntOK, Cents
<1>2. Real(ce) => ce.cs > 0
  BY <1>1 DEF Real, TotalSize, SizeOf
<1>3. ce = Absent => ~(ce.cs > 0) /\ ~ce.neg /\ \A i \in Types : ~Has(ce.rr, i)
  BY AbsentIs DEF Has, NoRRs, NoRR
<1>4. QED BY <1>2, <1>3 DEF EntOK

\* An rrset is taken from an entry.
LEMMA WithoutIs ==
  ASSUME NEW ce, EntOK(ce), NEW i \in Types, Has(ce.rr, i)
  PROVE  LET d == Without(ce, i) IN
         /\ d.neg = ce.neg /\ d.ts = ce.ts /\ d.ttl = ce.ttl
         /\ d.rr = [ce.rr EXCEPT ![i] = NoRR] /\ d.cs <= ce.cs
         /\ ~ce.neg /\ EntOK(d) /\ Real(d)
<1> DEFINE d == Without(ce, i)
<1>1. ce \in Cents /\ Real(ce) /\ \A j \in Types : Kept(ce.rr[j])
  BY CachedReal DEF EntOK
<1>2. /\ ce.rr \in [Types -> RRs] /\ ce.cs \in Nat /\ ce.num_rrs \in Nat
      /\ ce.rr["A"].kind \in Kinds /\ ce.rr["CNAME"].kind \in Kinds
  BY <1>1, CentFields DEF Types
<1>3. ~ce.neg
  BY <1>1 DEF Real, Types
<1>4. /\ d.neg = ce.neg /\ d.ts = ce.ts /\ d.ttl = ce.ttl /\ d.rr = [ce.rr EXCEPT ![i] = NoRR]
      /\ d.cs = ce.cs - SizeOf(ce.rr[i]) /\ d.num_rrs = ce.num_rrs - 1
  BY <1>1 DEF Without, Cents
<1>5. d.rr[i] = NoRR /\ \A j \in Types : j # i => d.rr[j] = ce.rr[j]
  BY <1>2, <1>4
<1>6. d.cs = TotalSize(d.rr) /\ d.num_rrs = Count(d.rr)
  <2>1. CASE i = "A"
    BY <1>1, <1>2, <1>4, <1>5, <2>1 DEF Real, TotalSize, Count, SizeOf, Has, NoRR, Types
  <2>2. CASE i = "CNAME"
    BY <1>1, <1>2, <1>4, <1>5, <2>2 DEF Real, TotalSize, Count, SizeOf, Has, NoRR, Types
  <2>3. QED BY <2>1, <2>2 DEF Types
<1>7. d.cs \in Nat /\ d.num_rrs \in Nat /\ d.cs <= ce.cs
  BY <1>2, <1>4, <1>6 DEF TotalSize, Count, SizeOf
<1>8. d.rr \in [Types -> RRs]
  BY <1>2, <1>4, AbsentIs
<1>9. d \in Cents
  BY <1>1, <1>7, <1>8, <1>4 DEF Cents, Without
<1>10. \A j \in Types : Kept(d.rr[j])
  BY <1>1, <1>5, AbsentIs
<1>11. ~(Records(d.rr["A"]) /\ Records(d.rr["CNAME"]))
  BY <1>1, <1>5 DEF Real, Records, NoRR, Types
<1>12. Real(d)
  BY <1>3, <1>4, <1>6, <1>11 DEF Real
<1> HIDE DEF d
<1>13. QED BY <1>3, <1>4, <1>7, <1>9, <1>10, <1>12 DEF EntOK, d

\* An rrset is put into an entry that has none of its type.
LEMMA WithIs ==
  ASSUME NEW ce, EntOK(ce), Real(ce), NEW i \in Types, ~Has(ce.rr, i),
         NEW rrs \in RRs, Kept(rrs), rrs.kind # "none",
         ~(Records(rrs) /\ Records(ce.rr[Other(i)]))
  PROVE  LET d == With(ce, i, rrs) IN
         /\ d.neg = FALSE /\ d.ts = ce.ts /\ d.rr = [ce.rr EXCEPT ![i] = rrs]
         /\ EntOK(d) /\ Real(d)
<1> DEFINE d == With(ce, i, rrs)
<1>1. ce \in Cents /\ \A j \in Types : Kept(ce.rr[j])
  BY DEF EntOK
<1>2. /\ ce.rr \in [Types -> RRs] /\ ce.cs \in Nat /\ ce.num_rrs \in Nat
      /\ ce.rr["A"].kind \in Kinds /\ ce.rr["CNAME"].kind \in Kinds
  BY <1>1, CentFields DEF Types
<1>4. /\ d.neg = FALSE /\ d.ts = ce.ts /\ d.ttl = ce.ttl /\ d.rr = [ce.rr EXCEPT ![i] = rrs]
      /\ d.cs = ce.cs + SizeOf(rrs) /\ d.num_rrs = ce.num_rrs + 1
  BY <1>1 DEF With, Cents
<1>5. d.rr[i] = rrs /\ \A j \in Types : j # i => d.rr[j] = ce.rr[j]
  BY <1>2, <1>4
<1>6. d.cs = TotalSize(d.rr) /\ d.num_rrs = Count(d.rr)
  <2>1. CASE i = "A"
    BY <1>2, <1>4, <1>5, <2>1 DEF Real, TotalSize, Count, SizeOf, Has, Types
  <2>2. CASE i = "CNAME"
    BY <1>2, <1>4, <1>5, <2>2 DEF Real, TotalSize, Count, SizeOf, Has, Types
  <2>3. QED BY <2>1, <2>2 DEF Types
<1>7. d.cs \in Nat /\ d.num_rrs \in Nat
  BY <1>6 DEF TotalSize, Count, SizeOf
<1>8. d.rr \in [Types -> RRs]
  BY <1>2, <1>4
<1>9. d \in Cents
  BY <1>1, <1>7, <1>8, <1>4 DEF Cents, With
<1>10. \A j \in Types : Kept(d.rr[j])
  BY <1>1, <1>5
<1>11. ~(Records(d.rr["A"]) /\ Records(d.rr["CNAME"]))
  BY <1>5 DEF Other, Types
<1>12. Real(d)
  BY <1>4, <1>6, <1>11 DEF Real
<1> HIDE DEF d
<1>13. QED BY <1>4, <1>9, <1>10, <1>12 DEF EntOK, d

\* The limits of a ttl are in order.
LEMMA LowTTLIs ==
  \A b \in BOOLEAN : LowTTL(b) \in Nat /\ LowTTL(b) <= max_ttl /\ max_ttl \in Nat
  BY CacheAssumption DEF LowTTL

\* A ttl is adjusted once and for all.
LEMMA AdjustTTL ==
  ASSUME NEW r \in RRs, r.kind # "none"
  PROVE  /\ adjust_ttl(r) \in RRs /\ Kept(adjust_ttl(r))
         /\ adjust_ttl(r).kind = r.kind /\ adjust_ttl(r).ts = r.ts
         /\ Kept(r) => adjust_ttl(r) = r
<1> DEFINE low == LowTTL(r.kind = "neg")
<1>1. low \in Nat /\ low <= max_ttl /\ max_ttl \in Nat
  BY LowTTLIs
<1>2. r.kind \in Kinds /\ r.ts \in Nat /\ r.ttl \in Nat
  BY DEF RRs
<1> HIDE DEF low
<1>3. /\ Clamp(r.ttl, low) \in Nat /\ low <= Clamp(r.ttl, low) /\ Clamp(r.ttl, low) <= max_ttl
      /\ low <= r.ttl /\ r.ttl <= max_ttl => Clamp(r.ttl, low) = r.ttl
  BY <1>1, <1>2 DEF Clamp
<1>4. adjust_ttl(r) = [r EXCEPT !.ttl = Clamp(r.ttl, low)]
  BY DEF adjust_ttl, low
<1>5. /\ adjust_ttl(r) \in RRs /\ adjust_ttl(r).kind = r.kind /\ adjust_ttl(r).ts = r.ts
      /\ adjust_ttl(r).ttl = Clamp(r.ttl, low)
  BY <1>3, <1>4 DEF RRs
<1>6. Kept(adjust_ttl(r))
  BY <1>3, <1>5 DEF Kept, low
<1>7. Kept(r) => adjust_ttl(r) = r
  <2>1. Kept(r) => Clamp(r.ttl, low) = r.ttl
    BY <1>3 DEF Kept, low
  <2>2. QED BY <1>4, <2>1 DEF RRs
<1>8. QED BY <1>5, <1>6, <1>7

-----------------------------------------------------------------------------
(* The cache.                                                              *)

DB == [cache : [AllNames -> Cents], rr_l : Seq(NodeSet), cache_size : Int, ent_num : Int]

\* All that is true of the cache inside a critical section, but for its size,
Core(S) ==
  /\ S \in DB
  /\ \A n \in Names : EntOK(S.cache[n])
  /\ S.cache[LocalName] = LocalEnt
  /\ Listing(S.rr_l, Nodes(S.cache), S.cache)
  /\ S.ent_num = Cardinality({n \in AllNames : Cached(S, n)})

\* and with it.
Sound(S) == Core(S) /\ S.cache_size = SumCs(S.cache, AllNames)

\* Only the entry of n differs.
Off(S, T, n) == \A m \in AllNames : m # n => T.cache[m] = S.cache[m]

\* Nodes may have gone, those left have their stamps.
Shrunk(S, T) ==
  /\ Nodes(T.cache) \subseteq Nodes(S.cache)
  /\ \A x \in Nodes(T.cache) : NodeTs(T.cache, x) = NodeTs(S.cache, x)

\* Names, types and nodes.
LEMMA Basics ==
  /\ NEG \notin Types /\ LocalName \notin Names /\ LocalName \in AllNames
  /\ Names \subseteq AllNames /\ AllNames = Names \cup {LocalName}
  /\ IsFiniteSet(Names) /\ IsFiniteSet(AllNames)
  /\ \A n \in Names : <<n, NEG>> \in NodeSet /\ \A i \in Types : <<n, i>> \in NodeSet
  /\ \A i \in Types : Other(i) \in Types /\ Other(i) # i /\ Other(Other(i)) = i
  /\ \A i, j \in Types : j = i \/ j = Other(i)
<1>1. NEG \notin Types
  BY DEF NEG, Types
<1>2. IsFiniteSet(AllNames)
  BY CacheAssumption, FS_AddElement DEF AllNames
<1>3. QED BY <1>1, <1>2, CacheAssumption DEF AllNames, NodeSet, Other, Types

\* The fields of the cache.
LEMMA Fields ==
  ASSUME NEW S \in DB
  PROVE  /\ S.cache \in [AllNames -> Cents] /\ S.rr_l \in Seq(NodeSet)
         /\ S.cache_size \in Int /\ S.ent_num \in Int
         /\ \A n \in AllNames : S.cache[n] \in Cents /\ S.cache[n].cs \in Nat
  BY DEF DB, Cents

\* What a node stands for.
LEMMA NodesIs ==
  ASSUME NEW c
  PROVE  /\ Nodes(c) \subseteq NodeSet
         /\ \A n \in Names : <<n, NEG>> \in Nodes(c) <=> c[n].neg
         /\ \A n \in Names, i \in Types : <<n, i>> \in Nodes(c) <=> Has(c[n].rr, i)
         /\ \A x \in Nodes(c) : \/ \E n \in Names : x = <<n, NEG>> /\ c[n].neg
                                \/ \E n \in Names, i \in Types : x = <<n, i>> /\ Has(c[n].rr, i)
  BY Basics DEF Nodes, NodeSet

\* Every node has a stamp, which is in its entry.
LEMMA StampsAre ==
  ASSUME NEW c \in [AllNames -> Cents]
  PROVE  /\ Stamped(c)
         /\ \A n \in Names : NodeTs(c, <<n, NEG>>) = c[n].ts
         /\ \A n \in Names, i \in Types : NodeTs(c, <<n, i>>) = c[n].rr[i].ts
<1>1. \A n \in Names : NodeTs(c, <<n, NEG>>) = c[n].ts /\ c[n].ts \in Nat
  BY Basics DEF NodeTs, Cents
<1>2. \A n \in Names, i \in Types : NodeTs(c, <<n, i>>) = c[n].rr[i].ts /\ c[n].rr[i].ts \in Nat
  BY Basics, CentFields DEF NodeTs
<1>3. ASSUME NEW x \in NodeSet PROVE NodeTs(c, x) \in Nat
  <2>1. PICK n \in Names, i \in Types \cup {NEG} : x = <<n, i>>
    BY DEF NodeSet
  <2>2. QED BY <1>1, <1>2, <2>1
<1>4. QED BY <1>1, <1>2, <1>3 DEF Stamped

\* The nodes of one name, and the others.
LEMMA OwnNodes ==
  ASSUME NEW n \in Names, NEW x \in NodeSet
  PROVE  x[1] # n \/ x = <<n, NEG>> \/ \E i \in Types : x = <<n, i>>
<1>1. PICK m \in Names, i \in Types \cup {NEG} : x = <<m, i>>
  BY DEF NodeSet
<1>2. x[1] = m
  BY <1>1
<1>3. QED BY <1>1, <1>2

\* The nodes of other names do not depend on an entry.
LEMMA NodesOff ==
  ASSUME NEW S, NEW T, NEW n \in Names, Off(S, T, n), NEW x \in NodeSet, x[1] # n
  PROVE  /\ x \in Nodes(T.cache) <=> x \in Nodes(S.cache)
         /\ NodeTs(T.cache, x) = NodeTs(S.cache, x)
<1>1. PICK m \in Names, i \in Types \cup {NEG} : x = <<m, i>>
  BY DEF NodeSet
<1>2. T.cache[m] = S.cache[m] /\ x[1] = m /\ x[2] = i
  BY <1>1, Basics DEF Off
<1>3. NodeTs(T.cache, x) = NodeTs(S.cache, x)
  BY <1>1, <1>2 DEF NodeTs
<1>4. x \in Nodes(T.cache) <=> x \in Nodes(S.cache)
  BY <1>1, <1>2 DEF Nodes
<1>5. QED BY <1>3, <1>4

\* A change of one entry that keeps it cached or absent.
LEMMA CoreEdit ==
  ASSUME NEW S, NEW T, NEW n \in Names, Core(S), T \in DB, Off(S, T, n), EntOK(T.cache[n]),
         Listing(T.rr_l, Nodes(T.cache), T.cache), T.ent_num = S.ent_num,
         Cached(T, n) <=> Cached(S, n)
  PROVE  Core(T)
<1>1. \A m \in Names : EntOK(T.cache[m])
  BY Basics DEF Core, Off
<1>2. T.cache[LocalName] = LocalEnt
  BY Basics DEF Core, Off
<1>3. \A m \in AllNames : Cached(T, m) <=> Cached(S, m)
  BY DEF Off, Cached
<1>4. {m \in AllNames : Cached(T, m)} = {m \in AllNames : Cached(S, m)}
  BY <1>3
<1>5. QED BY <1>1, <1>2, <1>4 DEF Core

\* del_cent_rrset_by_index keeps all but the size.
LEMMA DelRRset ==
  ASSUME NEW S, Core(S), NEW n \in Names, NEW i \in Types
  PROVE  LET D == del_cent_rrset_by_index(S, n, i) IN
         /\ Core(D) /\ Off(S, D, n) /\ Shrunk(S, D)
         /\ D.cache_size = S.cache_size /\ D.ent_num = S.ent_num
         /\ D.cache[n].rr = [S.cache[n].rr EXCEPT ![i] = NoRR]
         /\ D.cache[n].neg = S.cache[n].neg /\ D.cache[n].ts = S.cache[n].ts
         /\ D.cache[n].ttl = S.cache[n].ttl /\ D.cache[n].cs <= S.cache[n].cs
         /\ Cached(D, n) <=> Cached(S, n)
         /\ Nodes(D.cache) = Nodes(S.cache) \ {<<n, i>>}
<1> DEFINE D == del_cent_rrset_by_index(S, n, i)
           ce == S.cache[n]
<1>1. S \in DB /\ EntOK(ce) /\ n \in AllNames /\ ce \in Cents
  BY Basics DEF Core, EntOK
<1>2. CASE ~Has(ce.rr, i)
  <2>1. D = S
    BY <1>2 DEF del_cent_rrset_by_index
  <2>2. ce.rr[i] = NoRR
    BY <1>1, <1>2 DEF EntOK, Kept, Has
  <2>3. ce.rr = [ce.rr EXCEPT ![i] = NoRR]
    BY <1>1, <2>2, CentFields
  <2>4. <<n, i>> \notin Nodes(S.cache)
    BY <1>2, NodesIs
  <2>5. ce.cs \in Nat
    BY <1>1, CentFields
  <2>6. QED BY <2>1, <2>3, <2>4, <2>5 DEF Off, Shrunk
<1>3. CASE Has(ce.rr, i)
  <2> DEFINE w == Without(ce, i)
  <2>1. /\ w.neg = ce.neg /\ w.ts = ce.ts /\ w.ttl = ce.ttl
        /\ w.rr = [ce.rr EXCEPT ![i] = NoRR] /\ w.cs <= ce.cs
        /\ ~ce.neg /\ EntOK(w) /\ Real(w) /\ w \in Cents
    BY <1>1, <1>3, WithoutIs DEF EntOK
  <2> HIDE DEF w
  <2>2. /\ D.cache = [S.cache EXCEPT ![n] = w] /\ D.rr_l = RemoveFirst(S.rr_l, <<n, i>>)
        /\ D.cache_size = S.cache_size /\ D.ent_num = S.ent_num
    BY <1>1, <1>3 DEF del_cent_rrset_by_index, remove_rrl, DB, w
  <2>3. Listing(D.rr_l, Nodes(S.cache) \ {<<n, i>>}, S.cache)
    <3>1. <<n, i>> \in NodeSet /\ Listing(S.rr_l, Nodes(S.cache), S.cache)
      BY Basics DEF Core
    <3>2. Listing(RemoveFirst(S.rr_l, <<n, i>>), Nodes(S.cache) \ {<<n, i>>}, S.cache)
      BY <3>1, ListRemove
    <3>3. QED BY <2>2, <3>2
  <2>4. D.cache[n] = w /\ Off(S, D, n)
    BY <1>1, <2>2, Fields DEF Off
  <2>5. D \in DB
    <3>1. D.rr_l \in Seq(NodeSet)
      BY <2>3 DEF Listing
    <3>2. D.cache \in [AllNames -> Cents]
      BY <1>1, <2>1, <2>2, Fields
    <3>3. QED BY <1>1, <1>3, <2>2, <3>1, <3>2 DEF del_cent_rrset_by_index, remove_rrl, DB
  <2> HIDE DEF D
  <2>6. ASSUME NEW x \in NodeSet
        PROVE  /\ x \in Nodes(D.cache) <=> x \in Nodes(S.cache) \ {<<n, i>>}
               /\ x \in Nodes(D.cache) => NodeTs(D.cache, x) = NodeTs(S.cache, x)
    <3>1. CASE x[1] # n
      BY <2>4, <3>1, NodesOff
    <3>2. CASE x = <<n, NEG>>
      BY <2>1, <2>4, <3>2, NodesIs
    <3>3. ASSUME NEW j \in Types, x = <<n, j>>
          PROVE  /\ x \in Nodes(D.cache) <=> x \in Nodes(S.cache) \ {<<n, i>>}
                 /\ x \in Nodes(D.cache) => NodeTs(D.cache, x) = NodeTs(S.cache, x)
      <4>1. CASE j = i
        BY <1>1, <2>1, <2>4, <3>3, <4>1, NodesIs, CentFields DEF Has, NoRR
      <4>2. CASE j # i
        <5>1. w.rr[j] = ce.rr[j]
          BY <1>1, <2>1, <4>2, CentFields
        <5>2. x \in Nodes(D.cache) <=> x \in Nodes(S.cache)
          BY <2>4, <3>3, <5>1, NodesIs DEF Has
        <5>3. NodeTs(D.cache, x) = NodeTs(S.cache, x)
          BY <2>4, <3>3, <5>1, Basics DEF NodeTs
        <5>4. QED BY <3>3, <4>2, <5>2, <5>3
      <4>3. QED BY <4>1, <4>2
    <3>4. x[1] # n \/ x = <<n, NEG>> \/ \E j \in Types : x = <<n, j>>
      BY OwnNodes
    <3>5. QED BY <3>1, <3>2, <3>3, <3>4
  <2>7. /\ Nodes(D.cache) = Nodes(S.cache) \ {<<n, i>>}
        /\ \A x \in Nodes(D.cache) : NodeTs(D.cache, x) = NodeTs(S.cache, x)
    BY <2>6, NodesIs
  <2>8. Cached(S, n) /\ Cached(D, n)
    BY <1>1, <1>3, <2>1, <2>4, CachedReal DEF Cached
  <2>9. Listing(D.rr_l, Nodes(D.cache), D.cache)
    BY <2>3, <2>7, ListSame
  <2>10. Core(D)
    BY <2>1, <2>2, <2>4, <2>5, <2>8, <2>9, CoreEdit
  <2>11. QED BY <2>1, <2>2, <2>4, <2>7, <2>8, <2>10 DEF D, Shrunk
<1>4. QED BY <1>2, <1>3

\* The sum after a change of one entry.
LEMMA SumOff ==
  ASSUME NEW S, NEW T, S \in DB, T \in DB, NEW n \in AllNames, Off(S, T, n)
  PROVE  SumCs(T.cache, AllNames) = SumCs(S.cache, AllNames) - S.cache[n].cs + T.cache[n].cs
<1> DEFINE A == AllNames \ {n}
<1>1. Sized(S.cache, AllNames) /\ Sized(T.cache, AllNames)
  BY Basics, Fields DEF Sized
<1>2. Sized(S.cache, A)
  BY <1>1, FS_RemoveElement DEF Sized
<1>3. SumCs(S.cache, A) = SumCs(T.cache, A)
  <2>1. \A m \in A : S.cache[m].cs = T.cache[m].cs
    BY DEF Off
  <2> HIDE DEF A
  <2>2. QED BY <1>2, <2>1, SumSame
<1>4. /\ SumCs(S.cache, AllNames) = S.cache[n].cs + SumCs(S.cache, A)
      /\ SumCs(T.cache, AllNames) = T.cache[n].cs + SumCs(T.cache, A)
  BY <1>1, SumSplit
<1>5. SumCs(S.cache, A) \in Nat
  <2> HIDE DEF A
  <2> QED BY <1>2, SumSplit
<1>6. S.cache[n].cs \in Nat /\ T.cache[n].cs \in Nat
  BY Fields
<1> HIDE DEF A
<1>7. QED BY <1>3, <1>4, <1>5, <1>6

\* Only the size is written.
LEMMA Resize ==
  ASSUME NEW S, Core(S), NEW v \in Int
  PROVE  LET T == [S EXCEPT !.cache_size = v] IN
         /\ Core(T) /\ T.cache = S.cache /\ T.rr_l = S.rr_l
         /\ T.ent_num = S.ent_num /\ T.cache_size = v
<1> DEFINE T == [S EXCEPT !.cache_size = v]
<1>1. S \in DB
  BY DEF Core
<1>2. /\ T \in DB /\ T.cache = S.cache /\ T.rr_l = S.rr_l
      /\ T.ent_num = S.ent_num /\ T.cache_size = v
  BY <1>1 DEF DB
<1> HIDE DEF T
<1>3. {n \in AllNames : Cached(T, n)} = {n \in AllNames : Cached(S, n)}
  BY <1>2 DEF Cached
<1>4. Core(T)
  BY <1>2, <1>3 DEF Core
<1>5. QED BY <1>2, <1>4 DEF T

\* DropRRset keeps the size too.
LEMMA DropIs ==
  ASSUME NEW S, Sound(S), NEW n \in Names, NEW i \in Types
  PROVE  LET D == DropRRset(S, n, i) IN
         /\ Sound(D) /\ Off(S, D, n) /\ Shrunk(S, D)
         /\ D.cache[n].rr = [S.cache[n].rr EXCEPT ![i] = NoRR]
         /\ D.cache[n].neg = S.cache[n].neg /\ D.cache[n].ts = S.cache[n].ts
         /\ D.cache[n].ttl = S.cache[n].ttl /\ D.cache_size <= S.cache_size
         /\ Cached(D, n) <=> Cached(S, n)
         /\ Nodes(D.cache) = Nodes(S.cache) \ {<<n, i>>}
         /\ D.cache_size = S.cache_size - S.cache[n].cs + D.cache[n].cs
<1> DEFINE C == del_cent_rrset_by_index(S, n, i)
           v == C.cache_size - (S.cache[n].cs - C.cache[n].cs)
           D == [C EXCEPT !.cache_size = v]
<1>1. Core(S) /\ S \in DB /\ n \in AllNames
  BY Basics DEF Sound, Core
<1>2. /\ Core(C) /\ Off(S, C, n) /\ Shrunk(S, C)
      /\ C.cache_size = S.cache_size
      /\ C.cache[n].rr = [S.cache[n].rr EXCEPT ![i] = NoRR]
      /\ C.cache[n].neg = S.cache[n].neg /\ C.cache[n].ts = S.cache[n].ts
      /\ C.cache[n].ttl = S.cache[n].ttl /\ C.cache[n].cs <= S.cache[n].cs
      /\ Cached(C, n) <=> Cached(S, n)
      /\ Nodes(C.cache) = Nodes(S.cache) \ {<<n, i>>}
  BY <1>1, DelRRset
<1>3. DropRRset(S, n, i) = D
  BY DEF DropRRset
<1> HIDE DEF C
<1>4. C \in DB
  BY <1>2 DEF Core
<1>5. S.cache[n].cs \in Nat /\ C.cache[n].cs \in Nat /\ S.cache_size \in Int
  BY <1>1, <1>4, Fields
<1>6. v \in Int /\ v <= S.cache_size /\ v = S.cache_size - S.cache[n].cs + C.cache[n].cs
  BY <1>2, <1>5
<1> HIDE DEF v
<1>7. Core(D) /\ D.cache = C.cache /\ D.cache_size = v
  BY <1>2, <1>6, Resize
<1>8. SumCs(C.cache, AllNames) = v
  BY <1>1, <1>2, <1>4, <1>6, SumOff DEF Sound
<1> HIDE DEF D
<1>9. Sound(D)
  BY <1>7, <1>8 DEF Sound
<1>10. QED BY <1>2, <1>3, <1>6, <1>7, <1>9 DEF Off, Shrunk, Cached

\* del_cache_ent removes the entry and its nodes.
LEMMA DelEnt ==
  ASSUME NEW S, Sound(S), NEW n \in Names, Cached(S, n)
  PROVE  LET D == del_cache_ent(S, n) IN
         /\ Sound(D) /\ Off(S, D, n) /\ Shrunk(S, D) /\ D.cache[n] = Absent
         /\ Nodes(D.cache) = {x \in Nodes(S.cache) : x[1] # n}
         /\ D.cache_size = S.cache_size - S.cache[n].cs /\ D.ent_num = S.ent_num - 1
<1> DEFINE D == del_cache_ent(S, n)
           l == RemoveFirst(RemoveFirst(RemoveFirst(S.rr_l, <<n, "A">>), <<n, "CNAME">>), <<n, NEG>>)
           N == ((Nodes(S.cache) \ {<<n, "A">>}) \ {<<n, "CNAME">>}) \ {<<n, NEG>>}
<1>1. Core(S) /\ S \in DB /\ n \in AllNames
  BY Basics DEF Sound, Core
<1>2. /\ D.cache = [S.cache EXCEPT ![n] = Absent] /\ D.rr_l = l
      /\ D.cache_size = S.cache_size - S.cache[n].cs /\ D.ent_num = S.ent_num - 1
  BY <1>1 DEF del_cache_ent, remove_rrl, DB
<1>3. Listing(l, N, S.cache)
  <2>1. <<n, "A">> \in NodeSet /\ <<n, "CNAME">> \in NodeSet /\ <<n, NEG>> \in NodeSet
    BY Basics DEF Types
  <2>2. Listing(S.rr_l, Nodes(S.cache), S.cache)
    BY <1>1 DEF Core
  <2>3. Listing(RemoveFirst(S.rr_l, <<n, "A">>), Nodes(S.cache) \ {<<n, "A">>}, S.cache)
    BY <2>1, <2>2, ListRemove
  <2>4. Listing(RemoveFirst(RemoveFirst(S.rr_l, <<n, "A">>), <<n, "CNAME">>),
                (Nodes(S.cache) \ {<<n, "A">>}) \ {<<n, "CNAME">>}, S.cache)
    BY <2>1, <2>3, ListRemove
  <2>5. QED BY <2>1, <2>4, ListRemove
<1> HIDE DEF l
<1>4. D \in DB
  <2>1. l \in Seq(NodeSet)
    BY <1>3 DEF Listing
  <2>2. [S.cache EXCEPT ![n] = Absent] \in [AllNames -> Cents]
    BY <1>1, Fields, AbsentIs
  <2>3. S.cache_size - S.cache[n].cs \in Int /\ S.ent_num - 1 \in Int
    BY <1>1, Fields
  <2>4. QED BY <1>1, <1>2, <2>1, <2>2, <2>3 DEF del_cache_ent, remove_rrl, DB
<1> HIDE DEF D
<1>5. D.cache[n] = Absent /\ Off(S, D, n)
  BY <1>1, <1>2, Fields DEF Off
<1>6. ASSUME NEW x \in NodeSet
      PROVE  /\ x \in Nodes(D.cache) <=> x \in N
             /\ x \in Nodes(D.cache) <=> x \in Nodes(S.cache) /\ x[1] # n
             /\ x \in Nodes(D.cache) => NodeTs(D.cache, x) = NodeTs(S.cache, x)
  <2>1. CASE x[1] # n
    BY <1>5, <2>1, NodesOff
  <2>2. CASE x = <<n, NEG>>
    BY <1>5, <2>2, NodesIs, AbsentIs
  <2>3. ASSUME NEW j \in Types, x = <<n, j>>
        PROVE  x \notin Nodes(D.cache) /\ x \notin N /\ x[1] = n
    <3>1. ~Has(D.cache[n].rr, j)
      BY <1>5, AbsentIs DEF Has, NoRRs, NoRR
    <3>2. x \notin Nodes(D.cache)
      BY <2>3, <3>1, NodesIs
    <3>3. QED BY <2>3, <3>2 DEF Types
  <2>4. x[1] # n \/ x = <<n, NEG>> \/ \E j \in Types : x = <<n, j>>
    BY OwnNodes
  <2>5. QED BY <2>1, <2>2, <2>3, <2>4
<1>7. /\ Nodes(D.cache) = N /\ Nodes(D.cache) = {x \in Nodes(S.cache) : x[1] # n}
      /\ \A x \in Nodes(D.cache) : NodeTs(D.cache, x) = NodeTs(S.cache, x)
  <2>1. Nodes(D.cache) \subseteq NodeSet /\ Nodes(S.cache) \subseteq NodeSet
    BY NodesIs
  <2>2. QED BY <1>6, <2>1
<1>8. Listing(D.rr_l, Nodes(D.cache), D.cache)
  BY <1>2, <1>3, <1>7, ListSame
<1>9. \A m \in Names : EntOK(D.cache[m])
  BY <1>1, <1>5, AbsentIs, Basics DEF Core, Off
<1>10. D.cache[LocalName] = LocalEnt
  BY <1>1, <1>5, Basics DEF Core, Off
<1>11. D.ent_num = Cardinality({m \in AllNames : Cached(D, m)})
  <2> DEFINE A == {m \in AllNames : Cached(S, m)}
  <2>1. {m \in AllNames : Cached(D, m)} = A \ {n}
    BY <1>1, <1>5, AbsentIs DEF Cached, Off
  <2>2. IsFiniteSet(A) /\ n \in A
    BY <1>1, Basics, FS_Subset
  <2>3. S.ent_num = Cardinality(A)
    BY <1>1 DEF Core
  <2> HIDE DEF A
  <2>4. Cardinality(A \ {n}) = Cardinality(A) - 1
    BY <2>2, FS_RemoveElement
  <2>5. QED BY <1>2, <2>1, <2>3, <2>4
<1>12. Core(D)
  BY <1>4, <1>8, <1>9, <1>10, <1>11 DEF Core
<1>13. D.cache_size = SumCs(D.cache, AllNames)
  <2>1. SumCs(D.cache, AllNames) = SumCs(S.cache, AllNames) - S.cache[n].cs + D.cache[n].cs
    BY <1>1, <1>4, <1>5, SumOff
  <2>2. S.cache_size = SumCs(S.cache, AllNames) /\ D.cache[n].cs = 0
    BY <1>5, AbsentIs DEF Sound
  <2>3. S.cache_size \in Int /\ S.cache[n].cs \in Nat
    BY <1>1, Fields
  <2>4. QED BY <1>2, <2>1, <2>2, <2>3
<1>14. QED BY <1>2, <1>5, <1>7, <1>12, <1>13 DEF D, Sound, Shrunk

-----------------------------------------------------------------------------
(* Purging.                                                                *)

\* An entry without information.
Hollow(S, n) == Cached(S, n) /\ ~S.cache[n].neg /\ S.cache[n].num_rrs = 0

\* T is S without some rrsets and entries.
Lesser(S, T) ==
  \A n \in Names :
     \/ T.cache[n] = Absent
     \/ /\ T.cache[n].neg = S.cache[n].neg
        /\ T.cache[n].ts = S.cache[n].ts /\ T.cache[n].ttl = S.cache[n].ttl
        /\ \A i \in Types : T.cache[n].rr[i] \in {S.cache[n].rr[i], NoRR}

\* The same, and nothing was left behind that no node leads to.
Purged(S, T) ==
  /\ Sound(T) /\ Lesser(S, T) /\ T.cache_size <= S.cache_size
  /\ \A n \in Names : Hollow(T, n) => Hollow(S, n)

\* What a node stands for.
Record(c, x) == IF x[2] = NEG THEN c[x[1]] ELSE c[x[1]].rr[x[2]]

\* An entry counts its rrsets.
LEMMA NumZero ==
  ASSUME NEW ce, EntOK(ce)
  PROVE  ce.num_rrs = 0 <=> \A i \in Types : ~Has(ce.rr, i)
<1>1. CASE ce = Absent
  BY <1>1, AbsentIs DEF Has, NoRRs, NoRR
<1>2. CASE Real(ce)
  BY <1>2 DEF Real, Count, Types
<1>3. QED BY <1>1, <1>2 DEF EntOK

\* Purging adds no entry.
LEMMA PurgedAbsent ==
  ASSUME NEW S, NEW T, Sound(S), Purged(S, T), NEW n \in Names, Cached(T, n)
  PROVE  Cached(S, n)
<1>1. SUFFICES ASSUME ~Cached(S, n) PROVE FALSE
  OBVIOUS
<1>2. EntOK(S.cache[n]) /\ EntOK(T.cache[n])
  BY DEF Purged, Sound, Core
<1>3. S.cache[n] = Absent /\ T.cache[n] # Absent
  BY <1>1, <1>2, CachedReal, AbsentIs DEF Cached
<1>4. T.cache[n].neg = FALSE /\ \A i \in Types : T.cache[n].rr[i] = NoRR
  <2>1. /\ T.cache[n].neg = S.cache[n].neg
        /\ \A i \in Types : T.cache[n].rr[i] \in {S.cache[n].rr[i], NoRR}
    BY <1>3 DEF Purged, Lesser
  <2>2. QED BY <1>3, <2>1, AbsentIs DEF NoRRs
<1>5. T.cache[n].num_rrs = 0
  BY <1>2, <1>4, NumZero DEF Has, NoRR
<1>6. Hollow(T, n) /\ ~Hollow(S, n)
  BY <1>1, <1>4, <1>5 DEF Hollow
<1>7. QED BY <1>6 DEF Purged

\* Purging composes.
LEMMA PurgedTrans ==
  ASSUME NEW S, NEW T, NEW U, Sound(S), Purged(S, T), Purged(T, U)
  PROVE  Purged(S, U)
<1>1. Lesser(S, U)
  <2>1. ASSUME NEW n \in Names, U.cache[n] # Absent
        PROVE  /\ U.cache[n].neg = S.cache[n].neg
               /\ U.cache[n].ts = S.cache[n].ts /\ U.cache[n].ttl = S.cache[n].ttl
               /\ \A i \in Types : U.cache[n].rr[i] \in {S.cache[n].rr[i], NoRR}
    <3>1. /\ U.cache[n].neg = T.cache[n].neg
          /\ U.cache[n].ts = T.cache[n].ts /\ U.cache[n].ttl = T.cache[n].ttl
          /\ \A i \in Types : U.cache[n].rr[i] \in {T.cache[n].rr[i], NoRR}
      BY <2>1 DEF Purged, Lesser
    <3>2. CASE T.cache[n] # Absent
      BY <3>1, <3>2 DEF Purged, Lesser
    <3>3. CASE T.cache[n] = Absent
      <4>1. EntOK(U.cache[n])
        BY DEF Purged, Sound, Core
      <4>2. Cached(U, n)
        BY <2>1, <4>1, CachedReal DEF Cached
      <4>3. Cached(T, n)
        BY <4>2, PurgedAbsent DEF Purged
      <4>4. QED BY <3>3, <4>3, AbsentIs DEF Cached
    <3>4. QED BY <3>2, <3>3
  <2>2. QED BY <2>1 DEF Lesser
<1>2. U.cache_size <= S.cache_size
  <2>1. S.cache_size \in Int /\ T.cache_size \in Int /\ U.cache_size \in Int
    BY Fields DEF Purged, Sound, Core
  <2>2. QED BY <2>1 DEF Purged
<1>3. QED BY <1>1, <1>2 DEF Purged

\* Nothing is purged from itself.
LEMMA PurgedSelf ==
  ASSUME NEW S, Sound(S)
  PROVE  Purged(S, S)
<1>1. S.cache_size \in Int
  BY Fields DEF Sound, Core
<1>2. QED BY <1>1 DEF Purged, Lesser

\* The nodes left have their records.
LEMMA LesserNodes ==
  ASSUME NEW S, NEW T, Sound(S), Sound(T), Lesser(S, T)
  PROVE  /\ Nodes(T.cache) \subseteq Nodes(S.cache)
         /\ \A x \in Nodes(T.cache) :
               /\ NodeTs(T.cache, x) = NodeTs(S.cache, x)
               /\ timedout(Record(T.cache, x)) <=> timedout(Record(S.cache, x))
<1>1. ASSUME NEW x \in Nodes(T.cache)
      PROVE  /\ x \in Nodes(S.cache) /\ NodeTs(T.cache, x) = NodeTs(S.cache, x)
             /\ timedout(Record(T.cache, x)) <=> timedout(Record(S.cache, x))
  <2>1. ASSUME NEW n \in Names, x = <<n, NEG>>, T.cache[n].neg
        PROVE  /\ x \in Nodes(S.cache) /\ NodeTs(T.cache, x) = NodeTs(S.cache, x)
               /\ timedout(Record(T.cache, x)) <=> timedout(Record(S.cache, x))
    <3>1. T.cache[n] # Absent
      BY <2>1, AbsentIs
    <3>2. /\ S.cache[n].neg
          /\ T.cache[n].ts = S.cache[n].ts /\ T.cache[n].ttl = S.cache[n].ttl
      BY <2>1, <3>1 DEF Lesser
    <3>3. x[1] = n /\ x[2] = NEG
      BY <2>1
    <3>4. QED BY <2>1, <3>2, <3>3, NodesIs DEF NodeTs, Record, timedout, Expiry
  <2>2. ASSUME NEW n \in Names, NEW i \in Types, x = <<n, i>>, Has(T.cache[n].rr, i)
        PROVE  /\ x \in Nodes(S.cache) /\ NodeTs(T.cache, x) = NodeTs(S.cache, x)
               /\ timedout(Record(T.cache, x)) <=> timedout(Record(S.cache, x))
    <3>1. T.cache[n] # Absent /\ T.cache[n].rr[i] # NoRR
      BY <2>2, AbsentIs DEF Has, NoRRs, NoRR
    <3>2. T.cache[n].rr[i] = S.cache[n].rr[i]
      BY <3>1 DEF Lesser
    <3>3. x[1] = n /\ x[2] = i /\ i # NEG
      BY <2>2, Basics
    <3>4. x \in Nodes(S.cache)
      BY <2>2, <3>2, NodesIs DEF Has
    <3>5. QED BY <3>2, <3>3, <3>4 DEF NodeTs, Record
  <2>3. QED BY <2>1, <2>2, NodesIs
<1>2. QED BY <1>1

\* One entry has lost an rrset.
LEMMA LesserOne ==
  ASSUME NEW S, NEW T, Sound(S), Sound(T), NEW n \in Names, Off(S, T, n),
         T.cache_size <= S.cache_size,
         \/ T.cache[n] = Absent
         \/ /\ T.cache[n].neg = S.cache[n].neg
            /\ T.cache[n].ts = S.cache[n].ts /\ T.cache[n].ttl = S.cache[n].ttl
            /\ \A i \in Types : T.cache[n].rr[i] \in {S.cache[n].rr[i], NoRR},
         Hollow(T, n) => Hollow(S, n)
  PROVE  Purged(S, T)
<1>1. ASSUME NEW m \in Names, m # n PROVE T.cache[m] = S.cache[m]
  BY <1>1, Basics DEF Off
<1>2. Lesser(S, T)
  BY <1>1 DEF Lesser
<1>3. \A m \in Names : Hollow(T, m) => Hollow(S, m)
  BY <1>1 DEF Hollow, Cached
<1>4. QED BY <1>2, <1>3 DEF Purged

\* An entry is removed.
LEMMA DelPurges ==
  ASSUME NEW S, Sound(S), NEW n \in Names, Cached(S, n)
  PROVE  Purged(S, del_cache_ent(S, n))
<1> DEFINE D == del_cache_ent(S, n)
<1>1. /\ Sound(D) /\ Off(S, D, n) /\ D.cache[n] = Absent
      /\ D.cache_size = S.cache_size - S.cache[n].cs
  BY DelEnt
<1> HIDE DEF D
<1>2. S.cache_size \in Int /\ S.cache[n].cs \in Nat
  BY Fields, Basics DEF Sound, Core
<1>3. D.cache_size <= S.cache_size
  BY <1>1, <1>2
<1>4. ~Hollow(D, n)
  BY <1>1, AbsentIs DEF Hollow, Cached
<1>5. Purged(S, D)
  BY <1>1, <1>3, <1>4, LesserOne
<1>6. QED BY <1>5 DEF D

\* A negated domain is removed with its only node.
LEMMA DelNegation ==
  ASSUME NEW S, Sound(S), NEW n \in Names, S.cache[n].neg
  PROVE  LET D == del_cache_ent(S, n) IN
         /\ Cached(S, n) /\ S.cache[n].num_rrs = 0
         /\ Purged(S, D) /\ Nodes(D.cache) = Nodes(S.cache) \ {<<n, NEG>>}
<1> DEFINE D == del_cache_ent(S, n)
<1>1. EntOK(S.cache[n])
  BY DEF Sound, Core
<1>2. Cached(S, n) /\ Real(S.cache[n])
  BY <1>1, CachedReal DEF Cached
<1>3. \A i \in Types : ~Has(S.cache[n].rr, i)
  BY <1>2 DEF Real, Types
<1>4. S.cache[n].num_rrs = 0
  BY <1>1, <1>3, NumZero
<1>5. Purged(S, D) /\ Nodes(D.cache) = {x \in Nodes(S.cache) : x[1] # n}
  BY <1>2, DelPurges, DelEnt
<1>6. ASSUME NEW x \in Nodes(S.cache) PROVE x[1] # n <=> x # <<n, NEG>>
  <2>1. x \in NodeSet
    BY NodesIs
  <2>2. x[1] # n \/ x = <<n, NEG>> \/ \E i \in Types : x = <<n, i>>
    BY <2>1, OwnNodes
  <2>3. \A i \in Types : x # <<n, i>>
    BY <1>3, NodesIs
  <2>4. QED BY <2>2, <2>3
<1>7. QED BY <1>2, <1>4, <1>5, <1>6

\* An rrset is dropped, and the entry if it was the last.
LEMMA DropPurges ==
  ASSUME NEW S, Sound(S), NEW n \in Names, NEW i \in Types, Has(S.cache[n].rr, i)
  PROVE  LET P == DropRRset(S, n, i)
             D == del_cache_ent(P, n)
         IN  /\ P.cache[n].neg = FALSE
             /\ P.cache[n].num_rrs = 0 =>
                   Purged(S, D) /\ Nodes(D.cache) = Nodes(S.cache) \ {<<n, i>>}
             /\ P.cache[n].num_rrs # 0 =>
                   Purged(S, P) /\ Nodes(P.cache) = Nodes(S.cache) \ {<<n, i>>}
<1> DEFINE P == DropRRset(S, n, i)
           D == del_cache_ent(P, n)
           ce == S.cache[n]
<1>1. EntOK(ce) /\ ce \in Cents
  BY DEF Sound, Core, EntOK
<1>2. Cached(S, n) /\ ce.neg = FALSE
  <2>1. Cached(S, n) /\ Real(ce)
    BY <1>1, CachedReal DEF Cached
  <2>2. ~ce.neg
    BY <2>1 DEF Real, Types
  <2>3. QED BY <1>1, <2>1, <2>2, CentFields
<1>3. /\ Sound(P) /\ Off(S, P, n) /\ P.cache[n].rr = [ce.rr EXCEPT ![i] = NoRR]
      /\ P.cache[n].neg = FALSE /\ P.cache[n].ts = ce.ts
      /\ P.cache[n].ttl = ce.ttl /\ P.cache_size <= S.cache_size
      /\ Cached(P, n) /\ Nodes(P.cache) = Nodes(S.cache) \ {<<n, i>>}
  BY <1>2, DropIs
<1> HIDE DEF P
<1>4. \A j \in Types : P.cache[n].rr[j] \in {ce.rr[j], NoRR}
  BY <1>1, <1>3, CentFields
<1>5. EntOK(P.cache[n])
  BY <1>3 DEF Sound, Core
<1>6. ASSUME P.cache[n].num_rrs # 0 PROVE Purged(S, P)
  <2>1. ~Hollow(P, n)
    BY <1>6 DEF Hollow
  <2>2. QED BY <1>2, <1>3, <1>4, <2>1, LesserOne
<1>7. ASSUME P.cache[n].num_rrs = 0
      PROVE  Purged(S, D) /\ Nodes(D.cache) = Nodes(P.cache)
  <2>1. /\ Sound(D) /\ Off(P, D, n) /\ D.cache[n] = Absent
        /\ Nodes(D.cache) = {x \in Nodes(P.cache) : x[1] # n}
        /\ D.cache_size = P.cache_size - P.cache[n].cs
    BY <1>3, DelEnt
  <2> HIDE DEF D
  <2>2. \A j \in Types : ~Has(P.cache[n].rr, j)
    BY <1>5, <1>7, NumZero
  <2>3. ASSUME NEW x \in Nodes(P.cache) PROVE x[1] # n
    <3>1. x \in NodeSet
      BY NodesIs
    <3>2. x[1] # n \/ x = <<n, NEG>> \/ \E j \in Types : x = <<n, j>>
      BY <3>1, OwnNodes
    <3>3. <<n, NEG>> \notin Nodes(P.cache)
      BY <1>3, NodesIs
    <3>4. \A j \in Types : <<n, j>> \notin Nodes(P.cache)
      BY <2>2, NodesIs
    <3>5. QED BY <3>2, <3>3, <3>4
  <2>4. Nodes(D.cache) = Nodes(P.cache)
    BY <2>1, <2>3
  <2>5. D.cache_size <= S.cache_size
    <3>1. S.cache_size \in Int /\ P.cache_size \in Int /\ P.cache[n].cs \in Nat
      BY <1>3, Fields, Basics DEF Sound, Core
    <3>2. QED BY <1>3, <2>1, <3>1
  <2>6. Off(S, D, n) /\ ~Hollow(D, n)
    BY <1>3, <2>1, AbsentIs DEF Off, Hollow, Cached
  <2>7. QED BY <2>1, <2>4, <2>5, <2>6, LesserOne
<1>8. QED BY <1>3, <1>6, <1>7 DEF P

\* A step of the first pass takes at most its node, and only if it is due.
LEMMA TimedOutStep ==
  ASSUME NEW S, Sound(S), NEW x \in Nodes(S.cache)
  PROVE  LET T == PurgeTimedOut(S, x) IN
         /\ Purged(S, T)
         /\ \/ Nodes(T.cache) = Nodes(S.cache)
            \/ (Nodes(T.cache) = Nodes(S.cache) \ {x} /\ timedout(Record(S.cache, x)))
<1> DEFINE T == PurgeTimedOut(S, x)
<1>1. ASSUME NEW n \in Names, x = <<n, NEG>>, S.cache[n].neg
      PROVE  /\ Purged(S, T)
             /\ \/ Nodes(T.cache) = Nodes(S.cache)
                \/ (Nodes(T.cache) = Nodes(S.cache) \ {x} /\ timedout(Record(S.cache, x)))
  <2>1. x[1] = n /\ x[2] = NEG
    BY <1>1
  <2>2. T = IF Dispensable(S, n) THEN del_cache_ent(S, n) ELSE S
    BY <2>1 DEF PurgeTimedOut
  <2>3. CASE Dispensable(S, n)
    <3>1. timedout(Record(S.cache, x))
      BY <1>1, <2>1, <2>3 DEF Dispensable, Record
    <3>2. QED BY <1>1, <2>2, <2>3, <3>1, DelNegation
  <2>4. CASE ~Dispensable(S, n)
    <3>1. T = S
      BY <2>2, <2>4
    <3> HIDE DEF T
    <3>2. QED BY <3>1, PurgedSelf
  <2>5. QED BY <2>3, <2>4
<1>2. ASSUME NEW n \in Names, NEW i \in Types, x = <<n, i>>, Has(S.cache[n].rr, i)
      PROVE  /\ Purged(S, T)
             /\ \/ Nodes(T.cache) = Nodes(S.cache)
                \/ (Nodes(T.cache) = Nodes(S.cache) \ {x} /\ timedout(Record(S.cache, x)))
  <2> DEFINE P == purge_rrset(S, n, i)
  <2>1. x[1] = n /\ x[2] = i /\ i # NEG
    BY <1>2, Basics
  <2>2. T = IF Dispensable(P, n) THEN del_cache_ent(P, n) ELSE P
    BY <2>1 DEF PurgeTimedOut
  <2>3. CASE MustGo(S, n, i)
    <3>1. timedout(Record(S.cache, x))
      BY <2>1, <2>3 DEF MustGo, Record
    <3>2. P = DropRRset(S, n, i)
      BY <2>3 DEF purge_rrset
    <3> HIDE DEF P
    <3>3. /\ P.cache[n].neg = FALSE
          /\ P.cache[n].num_rrs = 0 => /\ Purged(S, del_cache_ent(P, n))
                /\ Nodes(del_cache_ent(P, n).cache) = Nodes(S.cache) \ {<<n, i>>}
          /\ P.cache[n].num_rrs # 0 =>
                Purged(S, P) /\ Nodes(P.cache) = Nodes(S.cache) \ {<<n, i>>}
      BY <1>2, <3>2, DropPurges
    <3>4. Dispensable(P, n) <=> P.cache[n].num_rrs = 0
      BY <3>3 DEF Dispensable
    <3>5. QED BY <1>2, <2>2, <3>1, <3>3, <3>4
  <2>4. CASE ~MustGo(S, n, i)
    <3>1. P = S
      BY <2>4 DEF purge_rrset
    <3>2. S.cache[n].num_rrs # 0
      BY <1>2, NumZero DEF Sound, Core
    <3>3. T = S
      BY <2>2, <3>1, <3>2 DEF Dispensable
    <3> HIDE DEF T
    <3>4. QED BY <3>3, PurgedSelf
  <2>5. QED BY <2>3, <2>4
<1>3. QED BY <1>1, <1>2, NodesIs

\* A step of the second pass takes its node.
LEMMA OldestStep ==
  ASSUME NEW S, Sound(S), NEW x \in Nodes(S.cache)
  PROVE  LET T == PurgeOldest(S, x) IN
         Purged(S, T) /\ Nodes(T.cache) = Nodes(S.cache) \ {x}
<1> DEFINE T == PurgeOldest(S, x)
<1>1. ASSUME NEW n \in Names, x = <<n, NEG>>, S.cache[n].neg
      PROVE  Purged(S, T) /\ Nodes(T.cache) = Nodes(S.cache) \ {x}
  <2>1. x[1] = n /\ x[2] = NEG
    BY <1>1
  <2>2. S.cache[n].num_rrs = 0
    BY <1>1, DelNegation
  <2>3. T = del_cache_ent(S, n)
    BY <2>1, <2>2 DEF PurgeOldest
  <2>4. QED BY <1>1, <2>3, DelNegation
<1>2. ASSUME NEW n \in Names, NEW i \in Types, x = <<n, i>>, Has(S.cache[n].rr, i)
      PROVE  Purged(S, T) /\ Nodes(T.cache) = Nodes(S.cache) \ {x}
  <2> DEFINE P == DropRRset(S, n, i)
  <2>1. x[1] = n /\ x[2] = i /\ i # NEG
    BY <1>2, Basics
  <2>2. T = IF P.cache[n].num_rrs = 0 THEN del_cache_ent(P, n) ELSE P
    BY <2>1 DEF PurgeOldest
  <2>3. /\ P.cache[n].num_rrs = 0 => /\ Purged(S, del_cache_ent(P, n))
              /\ Nodes(del_cache_ent(P, n).cache) = Nodes(S.cache) \ {<<n, i>>}
        /\ P.cache[n].num_rrs # 0 =>
              Purged(S, P) /\ Nodes(P.cache) = Nodes(S.cache) \ {<<n, i>>}
    BY <1>2, DropPurges
  <2> HIDE DEF P
  <2>4. QED BY <1>2, <2>2, <2>3
<1>3. QED BY <1>1, <1>2, NodesIs

\* The two walks of purge_cache.
FirstPass(S, sz, lazy) ==
  Walk(S, S.rr_l, LAMBDA T : lazy /\ T.cache_size <= sz, PurgeTimedOut)

SecondPass(S, sz) == Walk(S, S.rr_l, LAMBDA T : T.cache_size <= sz, PurgeOldest)

\* Two runs that agree at the start and step by step agree at the end.
LEMMA SameRuns ==
  ASSUME NEW N \in Nat, NEW f, NEW h, f[0] = h[0],
         \A k \in 1..N : f[k - 1] = h[k - 1] => f[k] = h[k]
  PROVE  f[N] = h[N]
<1> DEFINE A == {k \in 0..N : f[k] = h[k]}
<1>1. 0 \in A
  OBVIOUS
<1>2. \A k \in 1..N : k - 1 \in A => k \in A
  OBVIOUS
<1>3. \A k \in 0..N : k \in A
  <2> HIDE DEF A
  <2> QED BY <1>1, <1>2, UpTo
<1>4. QED BY <1>3

\* The nodes of a sound cache are the elements of its list.
LEMMA ListNodes ==
  ASSUME NEW S, Sound(S)
  PROVE  /\ S \in DB /\ Len(S.rr_l) \in Nat
         /\ \A k \in 1..Len(S.rr_l) : S.rr_l[k] \in Nodes(S.cache)
         /\ \A x \in Nodes(S.cache) : \E k \in 1..Len(S.rr_l) : S.rr_l[k] = x
         /\ \A j, k \in 1..Len(S.rr_l) :
               j < k => /\ S.rr_l[j] # S.rr_l[k]
                        /\ NodeTs(S.cache, S.rr_l[j]) <= NodeTs(S.cache, S.rr_l[k])
<1>1. S \in DB /\ Listing(S.rr_l, Nodes(S.cache), S.cache)
  BY DEF Sound, Core
<1>2. S.rr_l \in Seq(NodeSet) /\ Nodes(S.cache) \subseteq NodeSet
  BY <1>1 DEF Listing
<1>3. \A k \in 1..Len(S.rr_l) : S.rr_l[k] \in NodeSet
  BY <1>2
<1>4. QED BY <1>1, <1>2, <1>3 DEF Listing

\* The first pass takes records that are due, and nothing if there is room.
LEMMA FirstPassIs ==
  ASSUME NEW S, Sound(S), NEW sz \in Nat, NEW lazy \in BOOLEAN
  PROVE  LET P == FirstPass(S, sz, lazy) IN
         /\ Purged(S, P)
         /\ \A x \in Nodes(S.cache) \ Nodes(P.cache) : timedout(Record(S.cache, x))
         /\ lazy /\ S.cache_size <= sz => P = S
<1> DEFINE l == S.rr_l
           N == Len(l)
           step(k, U) == IF lazy /\ U.cache_size <= sz THEN U ELSE PurgeTimedOut(U, l[k])
           F(g) == [k \in 0..N |-> IF k = 0 THEN S ELSE step(k, g[k - 1])]
           G == [k \in 1..N |-> [U \in DB |-> IF step(k, U) \in DB THEN step(k, U) ELSE U]]
           Taken(k, U) == \A x \in Nodes(S.cache) \ Nodes(U.cache) :
                             timedout(Record(S.cache, x)) /\ \E j \in 1..k : l[j] = x
           J(k, U) == /\ Purged(S, U) /\ Taken(k, U)
                      /\ lazy /\ S.cache_size <= sz => U = S
<1>1. /\ S \in DB /\ N \in Nat /\ \A k \in 1..N : l[k] \in Nodes(S.cache)
      /\ \A j, k \in 1..N : j < k => l[j] # l[k]
  BY ListNodes
<1>2. Maps(G, N, DB)
  <2>1. \A k \in 1..N : [U \in DB |-> IF step(k, U) \in DB THEN step(k, U) ELSE U] \in [DB -> DB]
    OBVIOUS
  <2>2. QED BY <2>1 DEF Maps
<1>3. PICK f : Iterates(f, N, DB, S, G)
  <2> HIDE DEF G, N
  <2> QED BY <1>1, <1>2, IterExists
<1>4. /\ f \in [0..N -> DB] /\ f[0] = S
      /\ \A k \in 1..N : f[k] = IF step(k, f[k - 1]) \in DB THEN step(k, f[k - 1]) ELSE f[k - 1]
  <2>1. f \in [0..N -> DB] /\ f[0] = S /\ \A k \in 1..N : f[k] = G[k][f[k - 1]]
    BY <1>3 DEF Iterates
  <2>2. \A k \in 1..N : f[k - 1] \in DB
    BY <2>1
  <2> HIDE DEF step
  <2>3. QED BY <2>1, <2>2
<1>5. J(0, S)
  BY PurgedSelf
<1>6. ASSUME NEW k \in 1..N, NEW U, J(k - 1, U)
      PROVE  J(k, step(k, U)) /\ step(k, U) \in DB
  <2>1. Sound(U) /\ U \in DB
    BY <1>6 DEF Purged, Sound, Core
  <2>2. CASE lazy /\ U.cache_size <= sz
    <3>1. step(k, U) = U
      BY <2>2
    <3>2. Taken(k, U)
      <4>1. \A j \in 1..(k - 1) : j \in 1..k
        BY <1>1
      <4>2. QED BY <1>6, <4>1
    <3> HIDE DEF step, Taken
    <3>3. QED BY <1>6, <2>1, <3>1, <3>2
  <2>3. CASE ~(lazy /\ U.cache_size <= sz)
    <3> DEFINE x == l[k]
               T == PurgeTimedOut(U, x)
    <3>1. step(k, U) = T
      BY <2>3
    <3>2. x \in Nodes(S.cache) /\ x \in Nodes(U.cache)
      <4>1. x \in Nodes(S.cache)
        BY <1>1
      <4>2. \A j \in 1..(k - 1) : l[j] # x
        BY <1>1
      <4>3. QED BY <1>6, <4>1, <4>2
    <3> HIDE DEF x
    <3>3. /\ Purged(U, T)
          /\ \/ Nodes(T.cache) = Nodes(U.cache)
             \/ (Nodes(T.cache) = Nodes(U.cache) \ {x} /\ timedout(Record(U.cache, x)))
      BY <2>1, <3>2, TimedOutStep
    <3> HIDE DEF T
    <3>4. Purged(S, T)
      BY <1>6, <3>3, PurgedTrans
    <3>5. timedout(Record(U.cache, x)) <=> timedout(Record(S.cache, x))
      <4>1. Lesser(S, U)
        BY <1>6 DEF Purged
      <4>2. QED BY <2>1, <3>2, <4>1, LesserNodes
    <3>6. ASSUME NEW y \in Nodes(S.cache) \ Nodes(T.cache)
          PROVE  timedout(Record(S.cache, y)) /\ \E j \in 1..k : l[j] = y
      <4>1. CASE y \notin Nodes(U.cache)
        <5>1. timedout(Record(S.cache, y)) /\ \E j \in 1..(k - 1) : l[j] = y
          BY <1>6, <4>1
        <5>2. QED BY <1>1, <5>1
      <4>2. CASE y \in Nodes(U.cache)
        <5>1. y = x /\ timedout(Record(U.cache, x))
          BY <3>3, <3>6, <4>2
        <5>2. k \in 1..k /\ l[k] = y
          BY <1>1, <5>1 DEF x
        <5>3. QED BY <3>5, <5>1, <5>2
      <4>3. QED BY <4>1, <4>2
    <3>7. T \in DB
      BY <3>4 DEF Purged, Sound, Core
    <3>8. lazy /\ S.cache_size <= sz => FALSE
      BY <1>6, <2>3
    <3> HIDE DEF step
    <3>9. QED BY <3>1, <3>4, <3>6, <3>7, <3>8
  <2>4. QED BY <2>2, <2>3
<1> HIDE DEF J
<1>7. \A k \in 0..N : J(k, f[k])
  <2> DEFINE A == {k \in 0..N : J(k, f[k])}
  <2>1. 0 \in A
    BY <1>1, <1>4, <1>5
  <2>2. ASSUME NEW k \in 1..N, k - 1 \in A PROVE k \in A
    <3>1. J(k, step(k, f[k - 1])) /\ step(k, f[k - 1]) \in DB
      BY <1>6, <2>2
    <3>2. f[k] = step(k, f[k - 1])
      BY <1>4, <3>1
    <3> HIDE DEF step
    <3>3. QED BY <3>1, <3>2
  <2>3. \A k \in 0..N : k \in A
    <3> HIDE DEF A, N
    <3> QED BY <1>1, <2>1, <2>2, UpTo
  <2>4. QED BY <2>3
<1>8. \A k \in 1..N : f[k] = step(k, f[k - 1])
  <2>1. ASSUME NEW k \in 1..N PROVE step(k, f[k - 1]) \in DB
    <3>1. J(k - 1, f[k - 1])
      BY <1>1, <1>7
    <3>2. QED BY <1>6, <3>1
  <2> HIDE DEF step
  <2>2. QED BY <1>4, <2>1
<1> DEFINE h == CHOOSE g : g = F(g)
<1>9. f = F(f)
  <2> HIDE DEF step
  <2> QED BY <1>1, <1>4, <1>8
<1>10. h = F(h)
  <2> HIDE DEF F
  <2> QED BY <1>9
<1>11. FirstPass(S, sz, lazy) = h[N]
  BY DEF FirstPass, Walk
<1>12. h[N] = f[N]
  <2> HIDE DEF h, step
  <2>1. h[0] = S /\ \A k \in 1..N : h[k] = step(k, h[k - 1])
    BY <1>1, <1>10
  <2> HIDE DEF F, N
  <2>2. \A k \in 1..N : f[k - 1] = h[k - 1] => f[k] = h[k]
    BY <1>8, <2>1
  <2>3. f[0] = h[0]
    BY <1>4, <2>1
  <2>4. QED BY <1>1, <2>2, <2>3, SameRuns
<1>13. J(N, FirstPass(S, sz, lazy))
  BY <1>1, <1>7, <1>11, <1>12
<1>14. QED BY <1>13 DEF J

\* The second pass takes the oldest nodes, until there is room or none is left.
LEMMA SecondPassIs ==
  ASSUME NEW S, Sound(S), NEW sz \in Nat
  PROVE  LET P == SecondPass(S, sz) IN
         /\ Purged(S, P) /\ (P.cache_size <= sz \/ P.rr_l = <<>>)
         /\ \A x \in Nodes(S.cache) \ Nodes(P.cache), y \in Nodes(P.cache) :
               NodeTs(S.cache, x) <= NodeTs(S.cache, y)
         /\ S.cache_size <= sz => P = S
<1> DEFINE l == S.rr_l
           N == Len(l)
           step(k, U) == IF U.cache_size <= sz THEN U ELSE PurgeOldest(U, l[k])
           F(g) == [k \in 0..N |-> IF k = 0 THEN S ELSE step(k, g[k - 1])]
           G == [k \in 1..N |-> [U \in DB |-> IF step(k, U) \in DB THEN step(k, U) ELSE U]]
           From(j) == {l[m] : m \in (j + 1)..N}
           J(k, U) == /\ Purged(S, U)
                      /\ \E j \in 0..k : /\ Nodes(U.cache) = From(j)
                                         /\ j # k => U.cache_size <= sz
                      /\ S.cache_size <= sz => U = S
<1>1. /\ S \in DB /\ N \in Nat /\ \A k \in 1..N : l[k] \in Nodes(S.cache)
      /\ \A x \in Nodes(S.cache) : \E k \in 1..N : l[k] = x
      /\ \A j, k \in 1..N : j < k => l[j] # l[k] /\ NodeTs(S.cache, l[j]) <= NodeTs(S.cache, l[k])
  BY ListNodes
<1>2. Maps(G, N, DB)
  <2>1. \A k \in 1..N : [U \in DB |-> IF step(k, U) \in DB THEN step(k, U) ELSE U] \in [DB -> DB]
    OBVIOUS
  <2>2. QED BY <2>1 DEF Maps
<1>3. PICK f : Iterates(f, N, DB, S, G)
  <2> HIDE DEF G, N
  <2> QED BY <1>1, <1>2, IterExists
<1>4. /\ f \in [0..N -> DB] /\ f[0] = S
      /\ \A k \in 1..N : f[k] = IF step(k, f[k - 1]) \in DB THEN step(k, f[k - 1]) ELSE f[k - 1]
  <2>1. f \in [0..N -> DB] /\ f[0] = S /\ \A k \in 1..N : f[k] = G[k][f[k - 1]]
    BY <1>3 DEF Iterates
  <2>2. \A k \in 1..N : f[k - 1] \in DB
    BY <2>1
  <2> HIDE DEF step
  <2>3. QED BY <2>1, <2>2
<1>5. J(0, S)
  <2>1. Nodes(S.cache) = From(0)
    BY <1>1
  <2>2. 0 \in 0..0
    OBVIOUS
  <2> HIDE DEF From
  <2>3. QED BY <2>1, <2>2, PurgedSelf
<1>6. ASSUME NEW k \in 1..N, NEW U, J(k - 1, U)
      PROVE  J(k, step(k, U)) /\ step(k, U) \in DB
  <2>1. Sound(U) /\ U \in DB
    BY <1>6 DEF Purged, Sound, Core
  <2>2. PICK j \in 0..(k - 1) : /\ Nodes(U.cache) = From(j)
                                /\ j # k - 1 => U.cache_size <= sz
    BY <1>6
  <2>3. CASE U.cache_size <= sz
    <3>1. step(k, U) = U
      BY <2>3
    <3>2. j \in 0..k
      BY <1>1
    <3> HIDE DEF step, From
    <3>3. QED BY <1>6, <2>1, <2>2, <2>3, <3>1, <3>2
  <2>4. CASE ~(U.cache_size <= sz)
    <3> DEFINE x == l[k]
               T == PurgeOldest(U, x)
    <3>1. step(k, U) = T
      BY <2>4
    <3>2. j = k - 1
      BY <2>2, <2>4
    <3>3. Nodes(U.cache) = {l[m] : m \in k..N}
      <4>1. (j + 1)..N = k..N
        BY <1>1, <3>2
      <4>2. QED BY <2>2, <4>1
    <3>4. x \in Nodes(U.cache)
      BY <1>1, <3>3
    <3> HIDE DEF x
    <3>5. Purged(U, T) /\ Nodes(T.cache) = Nodes(U.cache) \ {x}
      BY <2>1, <3>4, OldestStep
    <3> HIDE DEF T
    <3>6. Purged(S, T)
      BY <1>6, <3>5, PurgedTrans
    <3>7. Nodes(T.cache) = From(k)
      <4>1. \A m \in (k + 1)..N : m \in k..N /\ l[m] # x
        BY <1>1 DEF x
      <4>2. \A m \in k..N : l[m] # x => m \in (k + 1)..N
        BY <1>1 DEF x
      <4>3. QED BY <3>3, <3>5, <4>1, <4>2
    <3>8. T \in DB
      BY <3>6 DEF Purged, Sound, Core
    <3>9. S.cache_size <= sz => FALSE
      BY <1>6, <2>4
    <3>10. k \in 0..k
      BY <1>1
    <3> HIDE DEF step, From
    <3>11. QED BY <3>1, <3>6, <3>7, <3>8, <3>9, <3>10
  <2>5. QED BY <2>3, <2>4
<1> HIDE DEF J
<1>7. \A k \in 0..N : J(k, f[k])
  <2> DEFINE A == {k \in 0..N : J(k, f[k])}
  <2>1. 0 \in A
    BY <1>1, <1>4, <1>5
  <2>2. ASSUME NEW k \in 1..N, k - 1 \in A PROVE k \in A
    <3>1. J(k, step(k, f[k - 1])) /\ step(k, f[k - 1]) \in DB
      BY <1>6, <2>2
    <3>2. f[k] = step(k, f[k - 1])
      BY <1>4, <3>1
    <3> HIDE DEF step
    <3>3. QED BY <3>1, <3>2
  <2>3. \A k \in 0..N : k \in A
    <3> HIDE DEF A, N
    <3> QED BY <1>1, <2>1, <2>2, UpTo
  <2>4. QED BY <2>3
<1>8. \A k \in 1..N : f[k] = step(k, f[k - 1])
  <2>1. ASSUME NEW k \in 1..N PROVE step(k, f[k - 1]) \in DB
    <3>1. J(k - 1, f[k - 1])
      BY <1>1, <1>7
    <3>2. QED BY <1>6, <3>1
  <2> HIDE DEF step
  <2>2. QED BY <1>4, <2>1
<1> DEFINE h == CHOOSE g : g = F(g)
<1>9. f = F(f)
  <2> HIDE DEF step
  <2> QED BY <1>1, <1>4, <1>8
<1>10. h = F(h)
  <2> HIDE DEF F
  <2> QED BY <1>9
<1>11. SecondPass(S, sz) = h[N]
  BY DEF SecondPass, Walk
<1>12. h[N] = f[N]
  <2>5. N \in Nat
    BY <1>1
  <2> HIDE DEF h, step, N
  <2>1. h[0] = S /\ \A k \in 1..N : h[k] = step(k, h[k - 1])
    BY <1>10, <2>5
  <2> HIDE DEF F, N
  <2>2. \A k \in 1..N : f[k - 1] = h[k - 1] => f[k] = h[k]
    BY <1>8, <2>1
  <2>3. f[0] = h[0]
    BY <1>4, <2>1
  <2>4. QED BY <1>1, <2>2, <2>3, SameRuns
<1> DEFINE P == SecondPass(S, sz)
<1>13. J(N, P)
  BY <1>1, <1>7, <1>11, <1>12
<1> HIDE DEF P
<1>14. Purged(S, P) /\ (S.cache_size <= sz => P = S)
  BY <1>13 DEF J
<1>15. PICK j \in 0..N : Nodes(P.cache) = From(j) /\ (j # N => P.cache_size <= sz)
  BY <1>13 DEF J
<1>16. ASSUME j = N PROVE P.rr_l = <<>>
  <2>1. Nodes(P.cache) = {}
    BY <1>1, <1>15, <1>16
  <2>2. Sound(P)
    BY <1>14 DEF Purged
  <2>3. Len(P.rr_l) \in Nat /\ \A k \in 1..Len(P.rr_l) : P.rr_l[k] \in Nodes(P.cache)
    BY <2>2, ListNodes
  <2>4. Len(P.rr_l) = 0
    BY <2>1, <2>3
  <2>5. P.rr_l \in Seq(NodeSet)
    BY <2>2, Fields DEF Sound, Core
  <2>6. QED BY <2>4, <2>5
<1>17. ASSUME NEW x \in Nodes(S.cache) \ Nodes(P.cache), NEW y \in Nodes(P.cache)
       PROVE  NodeTs(S.cache, x) <= NodeTs(S.cache, y)
  <2>1. PICK a \in 1..N : l[a] = x
    BY <1>1
  <2>2. PICK b \in (j + 1)..N : l[b] = y
    BY <1>15
  <2>3. a \notin (j + 1)..N
    BY <1>15, <2>1
  <2>6. N \in Nat
    BY <1>1
  <2> HIDE DEF N
  <2>4. b \in 1..N /\ a < b
    BY <2>3, <2>6
  <2>5. QED BY <1>1, <2>1, <2>2, <2>4
<1>18. QED BY <1>14, <1>15, <1>16, <1>17 DEF P

\* purge_cache: what was taken was due, or not newer than what is left.
LEMMA PurgeIs ==
  ASSUME NEW S, Sound(S), NEW sz \in Nat, NEW lazy \in BOOLEAN
  PROVE  LET Q == purge_cache(S, sz, lazy) IN
         /\ Purged(S, Q) /\ (Q.cache_size <= sz \/ Q.rr_l = <<>>)
         /\ \A x \in Nodes(S.cache) \ Nodes(Q.cache) :
               \/ timedout(Record(S.cache, x))
               \/ \A y \in Nodes(Q.cache) : NodeTs(S.cache, x) <= NodeTs(Q.cache, y)
         /\ lazy /\ S.cache_size <= sz => Q = S
<1> DEFINE P == FirstPass(S, sz, lazy)
           Q == SecondPass(P, sz)
<1>1. purge_cache(S, sz, lazy) = Q
  BY DEF purge_cache, FirstPass, SecondPass
<1>2. /\ Purged(S, P)
      /\ \A x \in Nodes(S.cache) \ Nodes(P.cache) : timedout(Record(S.cache, x))
      /\ lazy /\ S.cache_size <= sz => P = S
  BY FirstPassIs
<1> HIDE DEF P
<1>3. Sound(P) /\ Lesser(S, P)
  BY <1>2 DEF Purged
<1>4. /\ Purged(P, Q) /\ (Q.cache_size <= sz \/ Q.rr_l = <<>>)
      /\ \A x \in Nodes(P.cache) \ Nodes(Q.cache), y \in Nodes(Q.cache) :
            NodeTs(P.cache, x) <= NodeTs(P.cache, y)
      /\ P.cache_size <= sz => Q = P
  BY <1>3, SecondPassIs
<1> HIDE DEF Q
<1>5. Purged(S, Q)
  BY <1>2, <1>4, PurgedTrans
<1>6. ASSUME NEW x \in Nodes(S.cache) \ Nodes(Q.cache), NEW y \in Nodes(Q.cache),
             x \in Nodes(P.cache)
      PROVE  NodeTs(S.cache, x) <= NodeTs(Q.cache, y)
  <2>1. NodeTs(P.cache, x) <= NodeTs(P.cache, y)
    BY <1>4, <1>6
  <2>2. NodeTs(P.cache, x) = NodeTs(S.cache, x)
    BY <1>3, <1>6, LesserNodes
  <2>3. Sound(Q) /\ Lesser(P, Q)
    BY <1>4 DEF Purged
  <2>4. NodeTs(Q.cache, y) = NodeTs(P.cache, y)
    BY <1>3, <2>3, LesserNodes
  <2>5. QED BY <2>1, <2>2, <2>4
<1>7. lazy /\ S.cache_size <= sz => Q = S
  BY <1>2, <1>4
<1>8. QED BY <1>1, <1>2, <1>4, <1>5, <1>6, <1>7

\* T is S with rrsets of n dropped.
Part(S, T, n) ==
  /\ Sound(T) /\ Off(S, T, n) /\ T.cache_size <= S.cache_size
  /\ Cached(T, n) <=> Cached(S, n)
  /\ T.cache[n].neg = S.cache[n].neg
  /\ T.cache[n].ts = S.cache[n].ts /\ T.cache[n].ttl = S.cache[n].ttl
  /\ \A i \in Types : T.cache[n].rr[i] \in {S.cache[n].rr[i], NoRR}

\* purge_rrset drops at most its rrset.
LEMMA PurgeRRset ==
  ASSUME NEW S, Sound(S), NEW n \in Names, NEW i \in Types
  PROVE  Part(S, purge_rrset(S, n, i), n)
<1>1. S \in DB /\ S.cache[n] \in Cents /\ S.cache_size \in Int
  BY Fields, Basics DEF Sound, Core
<1>2. CASE MustGo(S, n, i)
  <2> DEFINE P == DropRRset(S, n, i)
  <2>1. /\ Sound(P) /\ Off(S, P, n) /\ P.cache_size <= S.cache_size
        /\ P.cache[n].rr = [S.cache[n].rr EXCEPT ![i] = NoRR]
        /\ P.cache[n].neg = S.cache[n].neg /\ P.cache[n].ts = S.cache[n].ts
        /\ P.cache[n].ttl = S.cache[n].ttl /\ (Cached(P, n) <=> Cached(S, n))
    BY DropIs
  <2> HIDE DEF P
  <2>2. \A j \in Types : P.cache[n].rr[j] \in {S.cache[n].rr[j], NoRR}
    BY <1>1, <2>1, CentFields
  <2>3. Part(S, P, n)
    BY <2>1, <2>2 DEF Part
  <2>4. QED BY <1>2, <2>3 DEF purge_rrset, P
<1>3. CASE ~MustGo(S, n, i)
  <2>1. Part(S, S, n)
    BY <1>1 DEF Part, Off
  <2>2. QED BY <1>3, <2>1 DEF purge_rrset
<1>4. QED BY <1>2, <1>3

\* So does purge_all_rrsets.
LEMMA PurgeAll ==
  ASSUME NEW S, Sound(S), NEW n \in Names
  PROVE  Part(S, purge_all_rrsets(S, n), n)
<1>1. S.cache_size \in Int
  BY Fields DEF Sound, Core
<1>2. CASE S.cache[n].neg
  <2>1. Part(S, S, n)
    BY <1>1 DEF Part, Off
  <2>2. QED BY <1>2, <2>1 DEF purge_all_rrsets
<1>3. CASE ~S.cache[n].neg
  <2> DEFINE T == purge_rrset(S, n, "A")
             U == purge_rrset(T, n, "CNAME")
  <2>1. Part(S, T, n)
    BY PurgeRRset DEF Types
  <2> HIDE DEF T
  <2>2. Part(T, U, n)
    BY <2>1, PurgeRRset DEF Part, Types
  <2> HIDE DEF U
  <2>3. T.cache_size \in Int /\ U.cache_size \in Int
    BY <2>1, <2>2, Fields DEF Part, Sound, Core
  <2>4. U.cache_size <= S.cache_size
    BY <1>1, <2>1, <2>2, <2>3 DEF Part
  <2>5. Off(S, U, n)
    BY <2>1, <2>2 DEF Part, Off
  <2>6. \A i \in Types : U.cache[n].rr[i] \in {S.cache[n].rr[i], NoRR}
    BY <2>1, <2>2 DEF Part
  <2>7. Part(S, U, n)
    BY <2>1, <2>2, <2>4, <2>5, <2>6 DEF Part
  <2>8. QED BY <1>3, <2>7 DEF purge_all_rrsets, T, U
<1>4. QED BY <1>2, <1>3

\* purge_cent leaves no entry without information, if it may remove the entry.
LEMMA CentPurge ==
  ASSUME NEW S, Sound(S), NEW n \in Names, Cached(S, n)
  PROVE  /\ LET P == purge_cent(S, n, FALSE) IN
            Sound(P) /\ Off(S, P, n) /\ Cached(P, n)
         /\ LET R == purge_cent(S, n, TRUE) IN
            Purged(S, R) /\ Off(S, R, n) /\ ~Hollow(R, n)
<1> DEFINE P == purge_all_rrsets(S, n)
           D == del_cache_ent(P, n)
           R == purge_cent(S, n, TRUE)
<1>1. Part(S, P, n)
  BY PurgeAll
<1>2. purge_cent(S, n, FALSE) = P
  BY DEF purge_cent
<1>3. R = IF Dispensable(P, n) THEN D ELSE P
  BY DEF purge_cent
<1> HIDE DEF P
<1>4. Sound(P) /\ Off(S, P, n) /\ Cached(P, n)
  BY <1>1 DEF Part
<1>5. CASE ~Dispensable(P, n)
  <2>1. R = P /\ ~Hollow(P, n)
    BY <1>3, <1>5 DEF Dispensable, Hollow
  <2>2. Purged(S, P)
    BY <1>1, <2>1, LesserOne DEF Part
  <2> HIDE DEF R
  <2>3. Purged(S, R) /\ Off(S, R, n) /\ ~Hollow(R, n)
    BY <1>4, <2>1, <2>2
  <2>4. QED BY <1>2, <1>4, <2>3 DEF R
<1>6. CASE Dispensable(P, n)
  <2>1. R = D
    BY <1>3, <1>6
  <2>2. /\ Sound(D) /\ Off(P, D, n) /\ D.cache[n] = Absent
        /\ D.cache_size = P.cache_size - P.cache[n].cs
    BY <1>4, DelEnt
  <2> HIDE DEF D, R
  <2>3. P.cache_size \in Int /\ S.cache_size \in Int /\ P.cache[n].cs \in Nat
    BY <1>4, Fields, Basics DEF Sound, Core
  <2>4. D.cache_size <= S.cache_size
    BY <1>1, <2>2, <2>3 DEF Part
  <2>5. Off(S, D, n) /\ ~Hollow(D, n)
    BY <1>4, <2>2, AbsentIs DEF Off, Hollow, Cached
  <2>6. Purged(S, D)
    BY <2>2, <2>4, <2>5, LesserOne
  <2>7. Purged(S, R) /\ Off(S, R, n) /\ ~Hollow(R, n)
    BY <2>1, <2>5, <2>6
  <2>8. QED BY <1>2, <1>4, <2>7 DEF R
<1>7. QED BY <1>5, <1>6

\* The configured entry is never purged.
LEMMA LocalStays ==
  ASSUME NEW S, Sound(S), NEW delete \in BOOLEAN
  PROVE  purge_cent(S, LocalName, delete) = S
<1>1. S.cache[LocalName] = LocalEnt
  BY DEF Sound, Core
<1>2. /\ ~S.cache[LocalName].neg /\ S.cache[LocalName].num_rrs = 1
      /\ S.cache[LocalName].rr["A"].kind = "local" /\ S.cache[LocalName].rr["CNAME"].kind = "none"
  BY <1>1 DEF LocalEnt, RRset, NoRR, Types
<1>3. purge_rrset(S, LocalName, "A") = S /\ purge_rrset(S, LocalName, "CNAME") = S
  BY <1>2 DEF purge_rrset, MustGo, Has
<1>4. purge_all_rrsets(S, LocalName) = S
  BY <1>2, <1>3 DEF purge_all_rrsets
<1>5. ~Dispensable(S, LocalName)
  BY <1>2 DEF Dispensable
<1>6. QED BY <1>4, <1>5 DEF purge_cent

\* A list is empty if nothing can be purged.
LEMMA EmptyList ==
  ASSUME NEW S, Sound(S)
  PROVE  S.rr_l = <<>> <=> Nodes(S.cache) = {}
<1>1. /\ Len(S.rr_l) \in Nat /\ S.rr_l \in Seq(NodeSet)
      /\ \A k \in 1..Len(S.rr_l) : S.rr_l[k] \in Nodes(S.cache)
      /\ \A x \in Nodes(S.cache) : \E k \in 1..Len(S.rr_l) : S.rr_l[k] = x
  BY ListNodes, Fields
<1>2. ASSUME S.rr_l = <<>> PROVE Nodes(S.cache) = {}
  <2>1. Len(S.rr_l) = 0
    BY <1>2
  <2>2. QED BY <1>1, <2>1
<1>3. ASSUME Nodes(S.cache) = {} PROVE S.rr_l = <<>>
  <2>1. Len(S.rr_l) = 0
    BY <1>1, <1>3
  <2>2. QED BY <1>1, <2>1
<1>4. QED BY <1>2, <1>3

-----------------------------------------------------------------------------
(* Adding.                                                                 *)

\* An rrset is added where there is none of its type and none that excludes it.
LEMMA AddRRset ==
  ASSUME NEW S, Core(S), NEW n \in Names, Cached(S, n), NEW i \in Types,
         ~Has(S.cache[n].rr, i), NEW rrs \in RRs, Kept(rrs), rrs.kind # "none",
         ~(Records(rrs) /\ Records(S.cache[n].rr[Other(i)]))
  PROVE  LET T == insert_rrl(add_cent_rrset_by_index(S, n, i, rrs), n, i) IN
         /\ Core(T) /\ Off(S, T, n) /\ T.cache_size = S.cache_size
         /\ Cached(T, n) /\ Has(T.cache[n].rr, i)
<1> DEFINE ce == S.cache[n]
           w == With(ce, i, rrs)
           x == <<n, i>>
           B == add_cent_rrset_by_index(S, n, i, rrs)
           T == insert_rrl(B, n, i)
           M == Nodes(S.cache) \ {<<n, NEG>>}
<1>1. S \in DB /\ EntOK(ce) /\ n \in AllNames /\ ce \in Cents /\ n # LocalName
  BY Basics DEF Core, EntOK
<1>2. Real(ce)
  BY <1>1, CachedReal DEF Cached
<1>3. /\ w.neg = FALSE /\ w.ts = ce.ts /\ w.rr = [ce.rr EXCEPT ![i] = rrs]
      /\ EntOK(w) /\ Real(w)
  BY <1>1, <1>2, WithIs
<1> HIDE DEF w
<1>4. /\ B.cache = [S.cache EXCEPT ![n] = w]
      /\ B.rr_l = IF ce.neg THEN RemoveFirst(S.rr_l, <<n, NEG>>) ELSE S.rr_l
      /\ B.cache_size = S.cache_size /\ B.ent_num = S.ent_num
  BY <1>1 DEF add_cent_rrset_by_index, remove_rrl, DB, w
<1>5. Listing(B.rr_l, M, S.cache)
  <2>1. Listing(S.rr_l, Nodes(S.cache), S.cache) /\ <<n, NEG>> \in NodeSet
    BY Basics DEF Core
  <2>2. CASE ce.neg
    BY <1>4, <2>1, <2>2, ListRemove
  <2>3. CASE ~ce.neg
    <3>1. M = Nodes(S.cache)
      BY <2>3, NodesIs
    <3>2. QED BY <1>4, <2>1, <2>3, <3>1
  <2>4. QED BY <2>2, <2>3
<1>6. B \in DB
  <2>1. B.rr_l \in Seq(NodeSet)
    BY <1>5 DEF Listing
  <2>2. B.cache \in [AllNames -> Cents]
    BY <1>1, <1>3, <1>4, Fields DEF EntOK
  <2>3. CASE ce.neg
    BY <1>1, <1>4, <2>1, <2>2, <2>3 DEF add_cent_rrset_by_index, remove_rrl, DB, w
  <2>4. CASE ~ce.neg
    BY <1>1, <1>4, <2>1, <2>2, <2>4 DEF add_cent_rrset_by_index, DB, w
  <2>5. QED BY <2>3, <2>4
<1> HIDE DEF B
<1>7. B.cache[n] = w /\ Off(S, B, n)
  BY <1>1, <1>4, Fields DEF Off
<1>8. ASSUME NEW y \in NodeSet
      PROVE  /\ y \in Nodes(B.cache) <=> y \in M \cup {x}
             /\ y \in M => NodeTs(B.cache, y) = NodeTs(S.cache, y)
  <2>1. CASE y[1] # n
    BY <1>7, <2>1, NodesOff
  <2>2. CASE y = <<n, NEG>>
    <3>1. y \notin Nodes(B.cache)
      BY <1>3, <1>7, <2>2, NodesIs
    <3>2. QED BY <2>2, <3>1, Basics
  <2>3. CASE y = <<n, i>>
    <3>1. rrs = w.rr[i]
      BY <1>1, <1>3, CentFields
    <3>2. y \in Nodes(B.cache) /\ y \notin Nodes(S.cache)
      BY <1>7, <2>3, <3>1, NodesIs DEF Has
    <3>3. QED BY <2>3, <3>2
  <2>4. ASSUME NEW j \in Types, j # i, y = <<n, j>>
        PROVE  /\ y \in Nodes(B.cache) <=> y \in M \cup {x}
               /\ y \in M => NodeTs(B.cache, y) = NodeTs(S.cache, y)
    <3>1. w.rr[j] = ce.rr[j]
      BY <1>1, <1>3, <2>4, CentFields
    <3>2. y \in Nodes(B.cache) <=> y \in Nodes(S.cache)
      BY <1>7, <2>4, <3>1, NodesIs DEF Has
    <3>3. NodeTs(B.cache, y) = NodeTs(S.cache, y)
      BY <1>7, <2>4, <3>1, Basics DEF NodeTs
    <3>4. y # x /\ y # <<n, NEG>>
      BY <2>4, Basics
    <3>5. QED BY <3>2, <3>3, <3>4
  <2>5. y[1] # n \/ y = <<n, NEG>> \/ \E j \in Types : y = <<n, j>>
    BY OwnNodes
  <2>6. QED BY <2>1, <2>2, <2>3, <2>4, <2>5
<1>9. x \in NodeSet /\ x \notin M
  BY Basics, NodesIs
<1>10. Nodes(B.cache) = M \cup {x} /\ \A y \in M : NodeTs(S.cache, y) = NodeTs(B.cache, y)
  <2>1. Nodes(B.cache) \subseteq NodeSet /\ M \subseteq NodeSet
    BY NodesIs
  <2> HIDE DEF M, x
  <2>2. QED BY <1>8, <1>9, <2>1
<1>11. Listing(B.rr_l, M, B.cache)
  <2> HIDE DEF M
  <2> QED BY <1>5, <1>10, ListSame
<1>12. Listing(InsertAt(B.rr_l, Place(B, x), x), M \cup {x}, B.cache)
  <2>1. Stamped(B.cache)
    BY <1>6, Fields, StampsAre
  <2> HIDE DEF M, x
  <2>2. QED BY <1>9, <1>11, <2>1, ListInsert
<1>13. /\ T.cache = B.cache /\ T.rr_l = InsertAt(B.rr_l, Place(B, x), x)
       /\ T.cache_size = B.cache_size /\ T.ent_num = B.ent_num
  BY <1>1, <1>6 DEF insert_rrl, DB
<1>14. T \in DB
  <2>1. T.rr_l \in Seq(NodeSet)
    BY <1>12, <1>13 DEF Listing
  <2>2. T = [B EXCEPT !.rr_l = T.rr_l]
    BY <1>1, <1>6 DEF insert_rrl, DB
  <2> HIDE DEF T
  <2>3. QED BY <1>6, <2>1, <2>2 DEF DB
<1> HIDE DEF T
<1>15. Listing(T.rr_l, Nodes(T.cache), T.cache)
  BY <1>10, <1>12, <1>13
<1>16. Off(S, T, n) /\ T.cache[n] = w
  BY <1>7, <1>13 DEF Off
<1>17. Cached(T, n)
  BY <1>3, <1>16, CachedReal DEF Cached
<1>18. Has(T.cache[n].rr, i)
  BY <1>1, <1>3, <1>16, CentFields DEF Has
<1>19. Core(T)
  BY <1>3, <1>4, <1>13, <1>14, <1>15, <1>16, <1>17, CoreEdit
<1>20. QED BY <1>4, <1>13, <1>16, <1>17, <1>18, <1>19 DEF T, B

\* MergeRRset keeps all but the size; an additional record leaves something.
LEMMA MergeOne ==
  ASSUME NEW S, Core(S), NEW n \in Names, Cached(S, n), NEW i \in Types, NEW rrs \in RRs
  PROVE  LET M == MergeRRset(S, n, i, rrs) IN
         /\ Core(M) /\ Off(S, M, n) /\ M.cache_size = S.cache_size /\ Cached(M, n)
         /\ rrs.kind = "add" => \E j \in Types : Has(M.cache[n].rr, j)
         /\ rrs.kind = "none" => M = S
<1> DEFINE M == MergeRRset(S, n, i, rrs)
           D == del_cent_rrset_by_index(S, n, i)
           o == Other(i)
           C == cr_check_add(D, n, i, rrs)
           a == adjust_ttl(rrs)
<1>1. o \in Types /\ o # i /\ n # LocalName
  BY Basics
<1>2. CASE rrs.kind = "none"
  <2>1. M = S
    BY <1>2 DEF MergeRRset
  <2> HIDE DEF M
  <2>2. QED BY <1>2, <2>1 DEF M, Off
<1>3. CASE rrs.kind # "none" /\ Precedes(S.cache[n].rr[i], rrs)
  <2>1. M = S
    BY <1>3 DEF MergeRRset
  <2>2. Has(S.cache[n].rr, i)
    BY <1>3 DEF Precedes, Has
  <2> HIDE DEF M
  <2>3. QED BY <1>3, <2>1, <2>2 DEF M, Off
<1>4. CASE rrs.kind # "none" /\ ~Precedes(S.cache[n].rr[i], rrs)
  <2>1. /\ Core(D) /\ Off(S, D, n) /\ D.cache_size = S.cache_size
        /\ D.cache[n].rr = [S.cache[n].rr EXCEPT ![i] = NoRR] /\ Cached(D, n)
    BY DelRRset
  <2>2. M = IF ~MayAdd(D, n, i, rrs) THEN D
            ELSE insert_rrl(add_cent_rrset_by_index(C, n, i, a), n, i)
    BY <1>4 DEF MergeRRset
  <2> HIDE DEF D
  <2>3. S.cache[n].rr \in [Types -> RRs]
    BY CentFields DEF Core, EntOK
  <2>4. ~Has(D.cache[n].rr, i)
    BY <2>1, <2>3 DEF Has, NoRR
  <2>5. CASE ~MayAdd(D, n, i, rrs)
    <3>1. M = D
      BY <2>2, <2>5
    <3>2. rrs.kind = "add" => Has(D.cache[n].rr, o)
      BY <1>1, <2>5 DEF MayAdd, Conflicts, Has
    <3> HIDE DEF M, o
    <3>3. QED BY <1>1, <1>4, <2>1, <3>1, <3>2 DEF M
  <2>6. CASE MayAdd(D, n, i, rrs)
    <3>1. M = insert_rrl(add_cent_rrset_by_index(C, n, i, a), n, i)
      BY <2>2, <2>6
    <3>2. a \in RRs /\ Kept(a) /\ a.kind = rrs.kind
      BY <1>4, AdjustTTL
    <3>3. /\ Core(C) /\ Off(S, C, n) /\ C.cache_size = S.cache_size
          /\ Cached(C, n) /\ ~Has(C.cache[n].rr, i)
          /\ ~(Records(rrs) /\ Records(C.cache[n].rr[o]))
      <4>1. CASE rrs.kind = "neg" \/ ~Conflicts(D, n, i)
        <5>1. C = D
          BY <4>1 DEF cr_check_add
        <5>2. ~(Records(rrs) /\ Records(D.cache[n].rr[o]))
          BY <4>1 DEF Records, Conflicts
        <5> HIDE DEF C, o
        <5>3. QED BY <2>1, <2>4, <5>1, <5>2
      <4>2. CASE ~(rrs.kind = "neg" \/ ~Conflicts(D, n, i))
        <5>1. C = del_cent_rrset_by_index(D, n, o)
          BY <4>2 DEF cr_check_add
        <5> DEFINE E == del_cent_rrset_by_index(D, n, o)
        <5> HIDE DEF C, o
        <5>8. /\ Core(E) /\ Off(D, E, n) /\ E.cache_size = D.cache_size
              /\ E.cache[n].rr = [D.cache[n].rr EXCEPT ![o] = NoRR] /\ Cached(E, n)
          <6>1. Core(D) /\ Cached(D, n) /\ o \in Types
            BY <1>1, <2>1
          <6>2. QED BY <6>1, DelRRset
        <5> HIDE DEF E
        <5>2. /\ Core(C) /\ Off(D, C, n) /\ C.cache_size = D.cache_size
              /\ C.cache[n].rr = [D.cache[n].rr EXCEPT ![o] = NoRR] /\ Cached(C, n)
          BY <5>1, <5>8 DEF E
        <5>3. D.cache[n].rr \in [Types -> RRs]
          BY <2>1, CentFields DEF Core, EntOK
        <5>4. C.cache[n].rr[o] = NoRR /\ C.cache[n].rr[i] = D.cache[n].rr[i]
          BY <1>1, <5>2, <5>3
        <5>5. ~Has(C.cache[n].rr, i) /\ ~Records(C.cache[n].rr[o])
          BY <2>4, <5>4 DEF Has, Records, NoRR
        <5>6. Off(S, C, n)
          BY <2>1, <5>2 DEF Off
        <5>7. QED BY <2>1, <5>2, <5>5, <5>6
      <4>3. QED BY <4>1, <4>2
    <3> HIDE DEF C, a, M
    <3>4. ~(Records(a) /\ Records(C.cache[n].rr[Other(i)]))
      BY <3>2, <3>3 DEF Records
    <3>5. /\ Core(M) /\ Off(C, M, n) /\ M.cache_size = C.cache_size
          /\ Cached(M, n) /\ Has(M.cache[n].rr, i)
      BY <1>4, <3>1, <3>2, <3>3, <3>4, AddRRset
    <3>6. Off(S, M, n)
      BY <3>3, <3>5 DEF Off
    <3>7. QED BY <1>4, <3>3, <3>5, <3>6 DEF M
  <2>7. QED BY <2>5, <2>6
<1>5. QED BY <1>2, <1>3, <1>4

\* An entry that add_cache may be given.
Offered(cent) ==
  /\ cent \in Cents /\ cent.cs = TotalSize(cent.rr) /\ cent.num_rrs = Count(cent.rr)
  /\ cent.neg => ~Has(cent.rr, "A") /\ ~Has(cent.rr, "CNAME")
  /\ ~(Records(cent.rr["A"]) /\ Records(cent.rr["CNAME"]))
  /\ \A i \in Types : cent.rr[i].kind = "none" => cent.rr[i] = NoRR

\* It is stored with its ttls adjusted; one that was stored stays as it is.
LEMMA AdjustedIs ==
  ASSUME NEW cent, Offered(cent)
  PROVE  LET a == Adjusted(cent) IN
         /\ EntOK(a) /\ Real(a) /\ a.neg = cent.neg /\ a.cs = cent.cs
         /\ a.num_rrs = cent.num_rrs /\ \A i \in Types : Has(a.rr, i) <=> Has(cent.rr, i)
         /\ EntOK(cent) /\ Real(cent) => a = cent
<1> DEFINE a == Adjusted(cent)
<1>1. /\ cent \in Cents /\ cent.cs \in Nat /\ cent.num_rrs \in Nat /\ cent.ttl \in Nat
      /\ cent.rr \in [Types -> RRs] /\ cent.neg \in BOOLEAN /\ cent.ts \in Nat
  BY CentFields DEF Offered
<1>2. CASE cent.neg
  <2> DEFINE low == LowTTL(TRUE)
             t == Clamp(cent.ttl, low)
  <2>1. low \in Nat /\ low <= max_ttl /\ max_ttl \in Nat
    BY LowTTLIs
  <2> HIDE DEF low
  <2>2. /\ t \in Nat /\ low <= t /\ t <= max_ttl
        /\ low <= cent.ttl /\ cent.ttl <= max_ttl => t = cent.ttl
    BY <1>1, <2>1 DEF Clamp
  <2>3. a = [cent EXCEPT !.ttl = t]
    BY <1>2 DEF Adjusted, adjust_dom_ttl, low
  <2> HIDE DEF t
  <2>4. /\ a \in Cents /\ a.neg = cent.neg /\ a.cs = cent.cs /\ a.num_rrs = cent.num_rrs
        /\ a.rr = cent.rr /\ a.ttl = t
    BY <1>1, <2>2, <2>3 DEF Cents
  <2>5. EntOK(cent) /\ Real(cent) => a = cent
    <3>1. Real(cent) => t = cent.ttl
      BY <1>2, <2>2 DEF Real, low
    <3>2. QED BY <1>1, <2>3, <3>1 DEF Cents
  <2> HIDE DEF a
  <2>6. Real(a)
    BY <1>2, <2>2, <2>4 DEF Real, Offered, low
  <2>7. \A i \in Types : Kept(a.rr[i])
    <3>1. \A i \in Types : a.rr[i].kind = "none"
      BY <1>2, <2>4 DEF Offered, Has, Types
    <3>2. QED BY <2>4, <3>1, AbsentIs DEF Offered
  <2>8. QED BY <2>4, <2>5, <2>6, <2>7 DEF EntOK, a
<1>3. CASE ~cent.neg
  <2> DEFINE rr == [i \in Types |-> IF Has(cent.rr, i) THEN adjust_ttl(cent.rr[i]) ELSE NoRR]
  <2>1. a = [cent EXCEPT !.rr = rr]
    BY <1>3 DEF Adjusted
  <2>2. ASSUME NEW i \in Types
        PROVE  /\ rr[i] \in RRs /\ rr[i].kind = cent.rr[i].kind /\ Kept(rr[i])
               /\ Kept(cent.rr[i]) => rr[i] = cent.rr[i]
    <3>1. cent.rr[i] \in RRs
      BY <1>1
    <3>2. CASE Has(cent.rr, i)
      <4>1. rr[i] = adjust_ttl(cent.rr[i])
        BY <3>2
      <4>2. cent.rr[i].kind # "none"
        BY <3>2 DEF Has
      <4> HIDE DEF rr
      <4>3. QED BY <3>1, <4>1, <4>2, AdjustTTL
    <3>3. CASE ~Has(cent.rr, i)
      <4>1. rr[i] = NoRR /\ cent.rr[i] = NoRR
        BY <3>3 DEF Has, Offered
      <4>2. QED BY <4>1, AbsentIs
    <3>4. QED BY <3>2, <3>3
  <2>3. rr \in [Types -> RRs]
    BY <2>2
  <2>4. (\A i \in Types : Kept(cent.rr[i])) => rr = cent.rr
    <3>1. (\A i \in Types : Kept(cent.rr[i])) => \A i \in Types : rr[i] = cent.rr[i]
      BY <2>2
    <3> HIDE DEF rr
    <3>2. QED BY <1>1, <2>3, <3>1
  <2> HIDE DEF rr
  <2>5. /\ a \in Cents /\ a.neg = cent.neg /\ a.cs = cent.cs /\ a.num_rrs = cent.num_rrs
        /\ a.rr = rr
    BY <1>1, <2>1, <2>3 DEF Cents
  <2>6. EntOK(cent) => a = cent
    <3>1. EntOK(cent) => rr = cent.rr
      BY <2>4 DEF EntOK
    <3>2. QED BY <1>1, <2>1, <3>1 DEF Cents
  <2> HIDE DEF a
  <2>7. \A i \in Types : a.rr[i].kind = cent.rr[i].kind
    BY <2>2, <2>5
  <2>8. TotalSize(a.rr) = TotalSize(cent.rr) /\ Count(a.rr) = Count(cent.rr)
    BY <2>7 DEF TotalSize, SizeOf, Count, Has, Types
  <2>9. Real(a)
    BY <1>3, <2>5, <2>7, <2>8 DEF Real, Offered, Records, Types
  <2>10. QED BY <2>2, <2>5, <2>6, <2>7, <2>9 DEF EntOK, Has, a
<1>4. QED BY <1>2, <1>3

\* insert_rrl adds a node to the list.
LEMMA InsertNode ==
  ASSUME NEW S, S \in DB, NEW M, Listing(S.rr_l, M, S.cache),
         NEW n \in Names, NEW i \in Types \cup {NEG}, <<n, i>> \notin M
  PROVE  LET T == insert_rrl(S, n, i) IN
         /\ T \in DB /\ T.cache = S.cache /\ T.cache_size = S.cache_size
         /\ T.ent_num = S.ent_num /\ Listing(T.rr_l, M \cup {<<n, i>>}, T.cache)
<1> DEFINE T == insert_rrl(S, n, i)
           x == <<n, i>>
<1>1. x \in NodeSet /\ n # LocalName
  BY Basics
<1>2. T = [S EXCEPT !.rr_l = InsertAt(S.rr_l, Place(S, x), x)]
  BY <1>1 DEF insert_rrl
<1>3. Listing(InsertAt(S.rr_l, Place(S, x), x), M \cup {x}, S.cache)
  <2>1. Stamped(S.cache)
    BY Fields, StampsAre
  <2> HIDE DEF x
  <2>2. QED BY <1>1, <2>1, ListInsert DEF x
<1>4. InsertAt(S.rr_l, Place(S, x), x) \in Seq(NodeSet)
  BY <1>3 DEF Listing
<1> HIDE DEF T
<1>5. /\ T \in DB /\ T.cache = S.cache /\ T.cache_size = S.cache_size
      /\ T.ent_num = S.ent_num /\ T.rr_l = InsertAt(S.rr_l, Place(S, x), x)
  BY <1>2, <1>4 DEF DB
<1>6. QED BY <1>3, <1>5 DEF T

\* InsertRRset adds a node if there is an rrset.
LEMMA InsertIfHas ==
  ASSUME NEW S, S \in DB, NEW M, Listing(S.rr_l, M, S.cache),
         NEW n \in Names, NEW i \in Types, <<n, i>> \notin M
  PROVE  LET T == InsertRRset(S, n, i) IN
         /\ T \in DB /\ T.cache = S.cache /\ T.cache_size = S.cache_size
         /\ T.ent_num = S.ent_num
         /\ Listing(T.rr_l, M \cup {x \in {<<n, i>>} : Has(S.cache[n].rr, i)}, T.cache)
<1> DEFINE T == InsertRRset(S, n, i)
           E == {x \in {<<n, i>>} : Has(S.cache[n].rr, i)}
<1>1. CASE Has(S.cache[n].rr, i)
  <2>1. T = insert_rrl(S, n, i) /\ E = {<<n, i>>}
    BY <1>1 DEF InsertRRset
  <2> HIDE DEF T, E
  <2>2. /\ T \in DB /\ T.cache = S.cache /\ T.cache_size = S.cache_size
        /\ T.ent_num = S.ent_num /\ Listing(T.rr_l, M \cup {<<n, i>>}, T.cache)
    BY <2>1, InsertNode
  <2>3. QED BY <2>1, <2>2 DEF T, E
<1>2. CASE ~Has(S.cache[n].rr, i)
  <2>1. T = S /\ E = {}
    BY <1>2 DEF InsertRRset
  <2>2. M \cup E = M
    BY <2>1
  <2> HIDE DEF T, E
  <2>3. QED BY <2>1, <2>2 DEF T, E
<1>3. QED BY <1>1, <1>2

\* A new entry is stored, counted and listed.
LEMMA NewEntryIs ==
  ASSUME NEW S, Sound(S), NEW n \in Names, ~Cached(S, n), NEW cent, Offered(cent)
  PROVE  LET T == NewEntry(S, n, cent) IN
         /\ Sound(T) /\ Off(S, T, n) /\ T.cache[n] = Adjusted(cent)
         /\ T.cache_size = S.cache_size + cent.cs
<1> DEFINE a == Adjusted(cent)
           B == [S EXCEPT !.cache[n] = a, !.ent_num = @ + 1, !.cache_size = @ + cent.cs]
           T == NewEntry(S, n, cent)
           M == Nodes(S.cache)
<1>1. Core(S) /\ S \in DB /\ n \in AllNames /\ EntOK(S.cache[n])
  BY Basics DEF Sound, Core
<1>2. /\ EntOK(a) /\ Real(a) /\ a.neg = cent.neg /\ a.cs = cent.cs
      /\ \A i \in Types : Has(a.rr, i) <=> Has(cent.rr, i)
  BY AdjustedIs
<1>3. T = IF cent.neg THEN insert_rrl(B, n, NEG)
          ELSE InsertRRset(InsertRRset(B, n, "A"), n, "CNAME")
  BY DEF NewEntry
<1> HIDE DEF a, T
<1>4. a.cs \in Nat /\ cent.cs \in Nat /\ a \in Cents
  BY <1>2, CentFields DEF EntOK
<1>5. /\ B \in DB /\ B.cache = [S.cache EXCEPT ![n] = a] /\ B.rr_l = S.rr_l
      /\ B.cache_size = S.cache_size + cent.cs /\ B.ent_num = S.ent_num + 1
  <2>1. [S.cache EXCEPT ![n] = a] \in [AllNames -> Cents]
    BY <1>1, <1>4, Fields
  <2>2. S.ent_num + 1 \in Int /\ S.cache_size + cent.cs \in Int
    BY <1>1, <1>4, Fields
  <2>3. QED BY <1>1, <2>1, <2>2 DEF DB
<1> HIDE DEF B
<1>6. B.cache[n] = a /\ Off(S, B, n)
  BY <1>1, <1>5, Fields DEF Off
<1>7. S.cache[n] = Absent
  BY <1>1, CachedReal DEF Cached
<1>8. M \subseteq NodeSet /\ \A x \in M : x[1] # n
  <2>1. ~S.cache[n].neg /\ \A i \in Types : ~Has(S.cache[n].rr, i)
    BY <1>7, AbsentIs DEF Has, NoRRs, NoRR
  <2>2. ASSUME NEW x \in M PROVE x \in NodeSet /\ x[1] # n
    <3>1. x \in NodeSet
      BY NodesIs
    <3>2. x[1] # n \/ x = <<n, NEG>> \/ \E i \in Types : x = <<n, i>>
      BY <3>1, OwnNodes
    <3>3. <<n, NEG>> \notin M
      BY <2>1, NodesIs
    <3>4. \A i \in Types : <<n, i>> \notin M
      BY <2>1, NodesIs
    <3>5. QED BY <3>1, <3>2, <3>3, <3>4
  <2>3. QED BY <2>2
<1>9. Listing(B.rr_l, M, B.cache)
  <2>1. Listing(S.rr_l, M, S.cache)
    BY <1>1 DEF Core
  <2>2. \A x \in M : NodeTs(S.cache, x) = NodeTs(B.cache, x)
    BY <1>6, <1>8, NodesOff
  <2> HIDE DEF M
  <2>3. QED BY <1>5, <2>1, <2>2, ListSame
<1>10. <<n, NEG>> \notin M /\ \A i \in Types : <<n, i>> \notin M
  BY <1>8
<1> DEFINE Own == {x \in {<<n, NEG>>} : a.neg} \cup {x \in {<<n, "A">>} : Has(a.rr, "A")}
                  \cup {x \in {<<n, "CNAME">>} : Has(a.rr, "CNAME")}
<1>11. Nodes(B.cache) = M \cup Own
  <2>1. ASSUME NEW x \in NodeSet PROVE x \in Nodes(B.cache) <=> x \in M \cup Own
    <3>1. CASE x[1] # n
      BY <1>6, <3>1, NodesOff
    <3>2. CASE x = <<n, NEG>>
      BY <1>6, <1>10, <3>2, NodesIs DEF NEG
    <3>3. ASSUME NEW i \in Types, x = <<n, i>> PROVE x \in Nodes(B.cache) <=> x \in M \cup Own
      <4>1. x \in Nodes(B.cache) <=> Has(a.rr, i)
        BY <1>6, <3>3, NodesIs
      <4>2. x \notin M
        BY <1>10, <3>3
      <4>3. QED BY <3>3, <4>1, <4>2 DEF Types, NEG
    <3>4. x[1] # n \/ x = <<n, NEG>> \/ \E i \in Types : x = <<n, i>>
      BY OwnNodes
    <3>5. QED BY <3>1, <3>2, <3>3, <3>4
  <2>2. Own \subseteq NodeSet
    BY Basics DEF Types
  <2>3. Nodes(B.cache) \subseteq NodeSet
    BY NodesIs
  <2> HIDE DEF Own, M
  <2>4. QED BY <1>8, <2>1, <2>2, <2>3
<1>12. /\ T \in DB /\ T.cache = B.cache /\ T.cache_size = B.cache_size
       /\ T.ent_num = B.ent_num /\ Listing(T.rr_l, M \cup Own, T.cache)
  <2>1. CASE cent.neg
    <3>1. T = insert_rrl(B, n, NEG)
      BY <1>3, <2>1
    <3>2. Own = {<<n, NEG>>}
      BY <1>2, <2>1 DEF Real
    <3> DEFINE V == insert_rrl(B, n, NEG)
    <3> HIDE DEF M, Own
    <3>3. /\ V \in DB /\ V.cache = B.cache /\ V.cache_size = B.cache_size
          /\ V.ent_num = B.ent_num /\ Listing(V.rr_l, M \cup {<<n, NEG>>}, V.cache)
      BY <1>5, <1>9, <1>10, InsertNode
    <3> HIDE DEF V
    <3>4. QED BY <3>1, <3>2, <3>3 DEF V
  <2>2. CASE ~cent.neg
    <3> DEFINE V == InsertRRset(B, n, "A")
               W == InsertRRset(V, n, "CNAME")
               E1 == {x \in {<<n, "A">>} : Has(B.cache[n].rr, "A")}
               E2 == {x \in {<<n, "CNAME">>} : Has(V.cache[n].rr, "CNAME")}
    <3>1. T = W
      BY <1>3, <2>2
    <3> HIDE DEF M
    <3>2. /\ V \in DB /\ V.cache = B.cache /\ V.cache_size = B.cache_size
          /\ V.ent_num = B.ent_num /\ Listing(V.rr_l, M \cup E1, V.cache)
      <4>1. "A" \in Types
        BY DEF Types
      <4>2. <<n, "A">> \notin M
        BY <1>10, <4>1
      <4>3. QED BY <1>5, <1>9, <4>1, <4>2, InsertIfHas
    <3> HIDE DEF V
    <3>3. /\ W \in DB /\ W.cache = V.cache /\ W.cache_size = V.cache_size
          /\ W.ent_num = V.ent_num /\ Listing(W.rr_l, (M \cup E1) \cup E2, W.cache)
      <4>1. "CNAME" \in Types
        BY DEF Types
      <4>2. <<n, "CNAME">> \notin M \cup E1
        BY <1>10, <4>1
      <4> DEFINE K == M \cup E1
      <4> HIDE DEF K
      <4>3. Listing(V.rr_l, K, V.cache) /\ <<n, "CNAME">> \notin K
        BY <3>2, <4>2 DEF K
      <4>4. /\ W \in DB /\ W.cache = V.cache /\ W.cache_size = V.cache_size
            /\ W.ent_num = V.ent_num /\ Listing(W.rr_l, K \cup E2, W.cache)
        BY <3>2, <4>1, <4>3, InsertIfHas
      <4>5. QED BY <4>4 DEF K
    <3> HIDE DEF W
    <3>4. (M \cup E1) \cup E2 = M \cup Own
      BY <1>2, <1>6, <2>2, <3>2
    <3>5. QED BY <3>1, <3>2, <3>3, <3>4
  <2>3. QED BY <2>1, <2>2
<1> HIDE DEF Own, M
<1>13. Off(S, T, n) /\ T.cache[n] = a
  BY <1>6, <1>12 DEF Off
<1>14. \A m \in Names : EntOK(T.cache[m])
  BY <1>1, <1>2, <1>13, Basics DEF Core, Off
<1>15. T.cache[LocalName] = LocalEnt
  BY <1>1, <1>13, Basics DEF Core, Off
<1>16. T.ent_num = Cardinality({m \in AllNames : Cached(T, m)})
  <2> DEFINE A == {m \in AllNames : Cached(S, m)}
  <2>1. a.cs > 0
    BY <1>2, CachedReal
  <2>2. {m \in AllNames : Cached(T, m)} = A \cup {n}
    BY <1>1, <1>13, <2>1 DEF Cached, Off
  <2>3. IsFiniteSet(A) /\ n \notin A
    BY Basics, FS_Subset
  <2>4. S.ent_num = Cardinality(A)
    BY <1>1 DEF Core
  <2> HIDE DEF A
  <2>5. Cardinality(A \cup {n}) = Cardinality(A) + 1
    BY <2>3, FS_AddElement
  <2>6. QED BY <1>5, <1>12, <2>2, <2>4, <2>5
<1>17. Core(T)
  BY <1>11, <1>12, <1>14, <1>15, <1>16 DEF Core
<1>18. T.cache_size = SumCs(T.cache, AllNames)
  <2>1. SumCs(T.cache, AllNames) = SumCs(S.cache, AllNames) - S.cache[n].cs + T.cache[n].cs
    BY <1>1, <1>12, <1>13, SumOff
  <2>2. S.cache_size = SumCs(S.cache, AllNames) /\ S.cache[n].cs = 0
    BY <1>7, AbsentIs DEF Sound
  <2>3. S.cache_size \in Int
    BY <1>1, Fields
  <2>4. QED BY <1>2, <1>4, <1>5, <1>12, <1>13, <2>1, <2>2, <2>3
<1>19. QED BY <1>5, <1>12, <1>13, <1>17, <1>18 DEF Sound, T, a

\* An entry is merged into one that is there.
LEMMA MergeIs ==
  ASSUME NEW S, Sound(S), NEW n \in Names, Cached(S, n), NEW cent \in Cents
  PROVE  LET T == Merge(S, n, cent) IN
         /\ Sound(T) /\ Off(S, T, n)
         /\ cent.rr["A"].kind = "add" /\ cent.rr["CNAME"].kind = "none" => ~Hollow(T, n)
<1> DEFINE P == purge_cent(S, n, FALSE)
           w == P.cache_size - P.cache[n].cs
           W == [P EXCEPT !.cache_size = w]
           V == MergeRRset(W, n, "A", cent.rr["A"])
           M == MergeRRset(V, n, "CNAME", cent.rr["CNAME"])
           v == M.cache_size + M.cache[n].cs
           T == [M EXCEPT !.cache_size = v]
<1>1. Merge(S, n, cent) = T
  BY DEF Merge
<1>2. Sound(P) /\ Off(S, P, n) /\ Cached(P, n)
  BY CentPurge
<1> HIDE DEF P
<1>3. Core(P) /\ P \in DB /\ P.cache_size \in Int /\ P.cache[n].cs \in Nat /\ n \in AllNames
  BY <1>2, Fields, Basics DEF Sound, Core
<1>4. w \in Int
  BY <1>3
<1> HIDE DEF w
<1>5. Core(W) /\ W.cache = P.cache /\ W.cache_size = w
  BY <1>3, <1>4, Resize
<1> HIDE DEF W
<1>6. Cached(W, n)
  BY <1>2, <1>5 DEF Cached
<1>7. /\ "A" \in Types /\ "CNAME" \in Types
      /\ cent.rr["A"] \in RRs /\ cent.rr["CNAME"] \in RRs
  BY CentFields DEF Types
<1>8. /\ Core(V) /\ Off(W, V, n) /\ V.cache_size = w /\ Cached(V, n)
      /\ cent.rr["A"].kind = "add" => \E j \in Types : Has(V.cache[n].rr, j)
  BY <1>5, <1>6, <1>7, MergeOne
<1> HIDE DEF V
<1>9. /\ Core(M) /\ Off(V, M, n) /\ M.cache_size = w /\ Cached(M, n)
      /\ cent.rr["CNAME"].kind = "none" => M = V
  BY <1>7, <1>8, MergeOne
<1> HIDE DEF M
<1>10. M \in DB /\ M.cache[n].cs \in Nat
  BY <1>3, <1>9, Fields DEF Core
<1>11. Off(P, M, n)
  BY <1>5, <1>8, <1>9 DEF Off
<1>12. v = P.cache_size - P.cache[n].cs + M.cache[n].cs /\ v \in Int
  BY <1>3, <1>9, <1>10 DEF w
<1> HIDE DEF v
<1>13. Core(T) /\ T.cache = M.cache /\ T.cache_size = v
  BY <1>9, <1>12, Resize
<1> HIDE DEF T
<1>14. SumCs(M.cache, AllNames) = v
  BY <1>2, <1>3, <1>10, <1>11, <1>12, SumOff DEF Sound
<1>15. Sound(T)
  BY <1>13, <1>14 DEF Sound
<1>16. Off(S, T, n)
  BY <1>2, <1>11, <1>13 DEF Off
<1>17. ASSUME cent.rr["A"].kind = "add", cent.rr["CNAME"].kind = "none"
       PROVE  ~Hollow(T, n)
  <2>1. \E j \in Types : Has(M.cache[n].rr, j)
    BY <1>8, <1>9, <1>17
  <2>2. EntOK(M.cache[n])
    BY <1>9 DEF Core
  <2>3. M.cache[n].num_rrs # 0
    BY <2>1, <2>2, NumZero
  <2>4. QED BY <1>13, <2>3 DEF Hollow
<1>18. QED BY <1>1, <1>15, <1>16, <1>17

\* An additional record does not change the configured entry.
LEMMA MergeLocal ==
  ASSUME NEW S, Sound(S), NEW cent, cent.rr["A"].kind = "add", cent.rr["CNAME"].kind = "none"
  PROVE  Merge(S, LocalName, cent) = S
<1> DEFINE z == S.cache[LocalName].cs
           W == [S EXCEPT !.cache_size = S.cache_size - z]
<1>1. S \in DB /\ S.cache[LocalName] = LocalEnt
  BY DEF Sound, Core
<1>2. W.cache = S.cache
  BY <1>1 DEF DB
<1>3. S.cache[LocalName].rr["A"].kind = "local"
  BY <1>1 DEF LocalEnt, RRset, Types
<1>4. MergeRRset(W, LocalName, "A", cent.rr["A"]) = W
  BY <1>2, <1>3 DEF MergeRRset, Precedes
<1>5. MergeRRset(W, LocalName, "CNAME", cent.rr["CNAME"]) = W
  BY DEF MergeRRset
<1>6. purge_cent(S, LocalName, FALSE) = S
  BY LocalStays
<1>7. Merge(S, LocalName, cent) = [W EXCEPT !.cache_size = @ + W.cache[LocalName].cs]
  <2> HIDE DEF W
  <2> QED BY <1>4, <1>5, <1>6 DEF Merge, W
<1>8. z \in Nat /\ S.cache_size \in Int
  BY <1>1, Fields, Basics
<1>9. [W EXCEPT !.cache_size = @ + W.cache[LocalName].cs] = S
  <2>1. W.cache_size = S.cache_size - z /\ W.cache[LocalName].cs = z
    BY <1>1 DEF DB
  <2>2. W.cache_size + W.cache[LocalName].cs = S.cache_size
    BY <1>8, <2>1
  <2>3. [W EXCEPT !.cache_size = S.cache_size] = S
    BY <1>1 DEF DB
  <2> HIDE DEF W, z
  <2>4. QED BY <2>2, <2>3
<1>10. QED BY <1>7, <1>9

\* The cache is within its limit, or there is nothing to purge.
Room(S) == S.cache_size <= PermSize + MCSZ \/ S.rr_l = <<>>

\* What is gone of other names than n was due, or not newer than what is left.
Evicts(S, Q, n) ==
  \A x \in Nodes(S.cache) \ Nodes(Q.cache) :
     x[1] # n => \/ timedout(Record(S.cache, x))
                 \/ \A y \in Nodes(Q.cache) : NodeTs(S.cache, x) <= NodeTs(Q.cache, y)

\* The purge that follows an addition to n.
LEMMA Fits ==
  ASSUME NEW S, NEW X, Sound(X), NEW n \in Names, Off(S, X, n)
  PROVE  LET Q == purge_cache(X, PermSize + MCSZ, TRUE) IN
         /\ Sound(Q) /\ Room(Q) /\ Evicts(S, Q, n)
         /\ \A m \in Names : Hollow(Q, m) => Hollow(X, m) /\ (m = n \/ Hollow(S, m))
         /\ \A m \in Names : Cached(Q, m) => m = n \/ Cached(S, m)
         /\ X.cache_size <= PermSize + MCSZ => Q = X
<1> DEFINE sz == PermSize + MCSZ
           Q == purge_cache(X, sz, TRUE)
<1>1. sz \in Nat
  BY CacheAssumption
<1> HIDE DEF sz
<1>2. /\ Purged(X, Q) /\ (Q.cache_size <= sz \/ Q.rr_l = <<>>)
      /\ \A x \in Nodes(X.cache) \ Nodes(Q.cache) :
            \/ timedout(Record(X.cache, x))
            \/ \A y \in Nodes(Q.cache) : NodeTs(X.cache, x) <= NodeTs(Q.cache, y)
      /\ X.cache_size <= sz => Q = X
  <2>1. LET R == purge_cache(X, sz, TRUE) IN
        /\ Purged(X, R) /\ (R.cache_size <= sz \/ R.rr_l = <<>>)
        /\ \A x \in Nodes(X.cache) \ Nodes(R.cache) :
              \/ timedout(Record(X.cache, x))
              \/ \A y \in Nodes(R.cache) : NodeTs(X.cache, x) <= NodeTs(R.cache, y)
        /\ TRUE /\ X.cache_size <= sz => R = X
    BY <1>1, PurgeIs
  <2>2. QED BY <2>1
<1> HIDE DEF Q
<1>3. Sound(Q) /\ \A m \in Names : Hollow(Q, m) => Hollow(X, m)
  BY <1>2 DEF Purged
<1>4. ASSUME NEW m \in Names, m # n PROVE Hollow(X, m) <=> Hollow(S, m)
  <2>1. X.cache[m] = S.cache[m]
    BY <1>4, Basics DEF Off
  <2>2. QED BY <2>1 DEF Hollow, Cached
<1>5. ASSUME NEW x \in Nodes(S.cache) \ Nodes(Q.cache), x[1] # n
      PROVE  \/ timedout(Record(S.cache, x))
             \/ \A y \in Nodes(Q.cache) : NodeTs(S.cache, x) <= NodeTs(Q.cache, y)
  <2>1. x \in NodeSet
    BY NodesIs
  <2>2. x \in Nodes(X.cache) /\ NodeTs(X.cache, x) = NodeTs(S.cache, x)
    BY <1>5, <2>1, NodesOff
  <2>3. x[1] \in AllNames
    BY <2>1, Basics DEF NodeSet
  <2>4. X.cache[x[1]] = S.cache[x[1]]
    BY <1>5, <2>3 DEF Off
  <2>5. Record(X.cache, x) = Record(S.cache, x)
    BY <2>4 DEF Record
  <2>6. QED BY <1>2, <1>5, <2>2, <2>5
<1>6. Evicts(S, Q, n)
  BY <1>5 DEF Evicts
<1>7. ASSUME NEW m \in Names, Cached(Q, m) PROVE m = n \/ Cached(S, m)
  <2>1. Cached(X, m)
    BY <1>2, <1>7, PurgedAbsent
  <2>2. QED BY <2>1, Basics DEF Off, Cached
<1>8. QED BY <1>2, <1>3, <1>4, <1>6, <1>7 DEF Room, Q, sz

\* add_cache.
LEMMA AddCacheIs ==
  ASSUME NEW S, Sound(S), Room(S), NEW n \in Names, NEW cent, Offered(cent)
  PROVE  LET Q == add_cache(S, n, cent) IN
         /\ Sound(Q) /\ Room(Q) /\ Evicts(S, Q, n)
         /\ \A m \in Names : m # n /\ Hollow(Q, m) => Hollow(S, m)
         /\ \A m \in Names : Cached(Q, m) => m = n \/ Cached(S, m)
         /\ (\/ ~Cached(S, n)
             \/ ~cent.neg /\ cent.rr["A"].kind = "add" /\ cent.rr["CNAME"].kind = "none")
            => (Hollow(Q, n) => Hollow(S, n))
<1> DEFINE sz == PermSize + MCSZ
           Q == add_cache(S, n, cent)
           empty == cent.num_rrs = 0 /\ ~cent.neg
           extra == \/ ~Cached(S, n)
                    \/ ~cent.neg /\ cent.rr["A"].kind = "add" /\ cent.rr["CNAME"].kind = "none"
<1>1. cent \in Cents /\ cent.neg \in BOOLEAN
  BY CentFields DEF Offered
<1>2. ASSUME NEW X, Sound(X), Off(S, X, n), Q = purge_cache(X, PermSize + MCSZ, TRUE),
             extra => (Hollow(X, n) => Hollow(S, n))
      PROVE  /\ Sound(Q) /\ Room(Q) /\ Evicts(S, Q, n)
             /\ \A m \in Names : m # n /\ Hollow(Q, m) => Hollow(S, m)
             /\ \A m \in Names : Cached(Q, m) => m = n \/ Cached(S, m)
             /\ extra => (Hollow(Q, n) => Hollow(S, n))
  <2> HIDE DEF Q, extra
  <2>1. LET R == purge_cache(X, PermSize + MCSZ, TRUE) IN
        /\ Sound(R) /\ Room(R) /\ Evicts(S, R, n)
        /\ \A m \in Names : Hollow(R, m) => Hollow(X, m) /\ (m = n \/ Hollow(S, m))
        /\ \A m \in Names : Cached(R, m) => m = n \/ Cached(S, m)
    BY <1>2, Fits
  <2>2. /\ Sound(Q) /\ Room(Q) /\ Evicts(S, Q, n)
        /\ \A m \in Names : Hollow(Q, m) => Hollow(X, m) /\ (m = n \/ Hollow(S, m))
        /\ \A m \in Names : Cached(Q, m) => m = n \/ Cached(S, m)
    BY <1>2, <2>1
  <2>3. QED BY <1>2, <2>2
<1>3. ASSUME NEW X, Sound(X), ~Cached(X, n), Off(S, X, n), ~empty
      PROVE  LET T == NewEntry(X, n, cent) IN Sound(T) /\ Off(S, T, n) /\ ~Hollow(T, n)
  <2> DEFINE T == NewEntry(X, n, cent)
             a == Adjusted(cent)
  <2>1. Sound(T) /\ Off(X, T, n) /\ T.cache[n] = a
    BY <1>3, NewEntryIs
  <2>2. a.neg = cent.neg /\ a.num_rrs = cent.num_rrs
    BY AdjustedIs
  <2> HIDE DEF T, a
  <2>3. ~Hollow(T, n)
    BY <1>3, <2>1, <2>2 DEF Hollow
  <2>4. Off(S, T, n)
    BY <1>3, <2>1 DEF Off
  <2>5. QED BY <2>1, <2>3, <2>4 DEF T
<1>4. CASE ~Cached(S, n) /\ empty
  <2>1. Q = purge_cache(S, PermSize + MCSZ, TRUE)
    BY <1>4 DEF add_cache
  <2>2. Off(S, S, n)
    BY DEF Off
  <2>3. QED BY <1>2, <2>1, <2>2
<1>5. CASE ~Cached(S, n) /\ ~empty
  <2> DEFINE X == NewEntry(S, n, cent)
  <2>1. Q = purge_cache(X, PermSize + MCSZ, TRUE)
    BY <1>5 DEF add_cache
  <2>2. Off(S, S, n)
    BY DEF Off
  <2>3. Sound(X) /\ Off(S, X, n) /\ ~Hollow(X, n)
    BY <1>3, <1>5, <2>2
  <2> HIDE DEF X
  <2>4. QED BY <1>2, <2>1, <2>3
<1>6. CASE Cached(S, n) /\ cent.neg /\ HasLocal(S, n)
  <2>1. Q = S
    BY <1>6 DEF add_cache
  <2>2. Evicts(S, S, n)
    BY DEF Evicts
  <2> HIDE DEF Q
  <2>3. QED BY <2>1, <2>2 DEF Q
<1>7. CASE Cached(S, n) /\ cent.neg /\ ~HasLocal(S, n)
  <2> DEFINE D == del_cache_ent(S, n)
             X == NewEntry(D, n, cent)
  <2>1. Q = purge_cache(X, PermSize + MCSZ, TRUE)
    BY <1>7 DEF add_cache
  <2>2. Sound(D) /\ Off(S, D, n) /\ D.cache[n] = Absent
    BY <1>7, DelEnt
  <2>3. ~Cached(D, n)
    BY <2>2, AbsentIs DEF Cached
  <2> HIDE DEF D
  <2>4. Sound(X) /\ Off(S, X, n) /\ ~Hollow(X, n)
    BY <1>3, <1>7, <2>2, <2>3
  <2> HIDE DEF X
  <2>5. QED BY <1>2, <2>1, <2>4
<1>8. CASE Cached(S, n) /\ ~cent.neg
  <2> DEFINE X == Merge(S, n, cent)
  <2>1. Q = purge_cache(X, PermSize + MCSZ, TRUE)
    BY <1>8 DEF add_cache
  <2>2. /\ Sound(X) /\ Off(S, X, n)
        /\ cent.rr["A"].kind = "add" /\ cent.rr["CNAME"].kind = "none" => ~Hollow(X, n)
    BY <1>1, <1>8, MergeIs
  <2> HIDE DEF X
  <2>3. QED BY <1>2, <1>8, <2>1, <2>2
<1>9. QED BY <1>1, <1>4, <1>5, <1>6, <1>7, <1>8

\* An additional record for the configured name only makes room.
LEMMA AddLocal ==
  ASSUME NEW S, Sound(S), NEW cent, ~cent.neg, cent.rr["A"].kind = "add",
         cent.rr["CNAME"].kind = "none"
  PROVE  LET Q == add_cache(S, LocalName, cent) IN
         Sound(Q) /\ Room(Q) /\ \A m \in Names : Hollow(Q, m) => Hollow(S, m)
<1> DEFINE sz == PermSize + MCSZ
           Q == purge_cache(S, sz, TRUE)
<1>1. Cached(S, LocalName)
  BY DEF Sound, Core, Cached, LocalEnt
<1>2. Merge(S, LocalName, cent) = S
  BY MergeLocal
<1>3. add_cache(S, LocalName, cent) = Q
  BY <1>1, <1>2 DEF add_cache
<1>4. sz \in Nat
  BY CacheAssumption
<1> HIDE DEF sz
<1>5. Purged(S, Q) /\ (Q.cache_size <= sz \/ Q.rr_l = <<>>)
  BY <1>4, PurgeIs
<1> HIDE DEF Q
<1>6. QED BY <1>3, <1>5 DEF Purged, Room, sz

\* A saved entry may be given to add_cache.
LEMMA SavedOffered ==
  ASSUME NEW cent, EntOK(cent), Savable(cent)
  PROVE  Real(cent) /\ cent \in Cents /\ cent.cs \in Nat /\ Offered(cent)
<1>1. Real(cent) /\ cent \in Cents /\ cent.cs \in Nat
  BY CachedReal, CentFields DEF Savable, EntOK
<1>2. Offered(cent)
  BY <1>1 DEF Offered, Real, EntOK, Kept
<1>3. QED BY <1>1, <1>2

\* A saved entry is read back as it is, if it fits.
LEMMA RestoreOne ==
  ASSUME NEW S, Sound(S), NEW n \in Names, ~Cached(S, n), NEW cent, EntOK(cent),
         Savable(cent), S.cache_size + cent.cs <= PermSize + MCSZ
  PROVE  LET Q == add_cache(S, n, cent) IN
         /\ Sound(Q) /\ Off(S, Q, n) /\ Q.cache[n] = cent
         /\ Q.cache_size = S.cache_size + cent.cs
<1> DEFINE T == NewEntry(S, n, cent)
           Q == purge_cache(T, PermSize + MCSZ, TRUE)
<1>1. Real(cent) /\ cent \in Cents /\ cent.cs \in Nat /\ Offered(cent)
  BY SavedOffered
<1>3. Adjusted(cent) = cent
  BY <1>1, AdjustedIs
<1>4. ~(cent.num_rrs = 0 /\ ~cent.neg)
  <2>1. Present(cent.rr) # {} => cent.num_rrs # 0
    BY NumZero DEF Present
  <2>2. QED BY <2>1 DEF Savable
<1>5. add_cache(S, n, cent) = Q
  BY <1>4 DEF add_cache
<1>6. Sound(T) /\ Off(S, T, n) /\ T.cache[n] = cent /\ T.cache_size = S.cache_size + cent.cs
  BY <1>1, <1>3, NewEntryIs
<1> HIDE DEF T
<1>7. T.cache_size <= PermSize + MCSZ
  <2>1. S.cache_size \in Int
    BY Fields DEF Sound, Core
  <2>2. QED BY <1>1, <1>6, <2>1, CacheAssumption
<1>8. Q = T
  BY <1>6, <1>7, Fits
<1> HIDE DEF Q
<1>9. QED BY <1>5, <1>6, <1>8

-----------------------------------------------------------------------------
(* Start and restart.                                                      *)

\* Entries of no size.
LEMMA SumZero ==
  ASSUME NEW c, NEW A, IsFiniteSet(A), \A n \in A : c[n].cs = 0
  PROVE  SumCs(c, A) = 0
<1>1. Sized(c, A)
  BY DEF Sized
<1>2. Units(c, A) = {}
  <2>1. \A n \in A : {n} \X (1..c[n].cs) = {}
    OBVIOUS
  <2>2. QED BY <2>1 DEF Units
<1>3. QED BY <1>1, <1>2, SumIsUnits, FS_EmptySet

\* The entries of the file d, and the configured one.
Full(d) == [n \in AllNames |-> IF n = LocalName THEN LocalEnt ELSE d[n]]

\* A cache file: what may be saved, or nothing for a name.
DiskOK(d) ==
  d \in [Names -> Cents] /\ \A n \in Names : EntOK(d[n]) /\ (d[n] = Absent \/ Savable(d[n]))

\* It fits the running cache.
DiskFits(d) == SumCs(Full(d), AllNames) <= PermSize + MCSZ

\* The cache once the configuration is read.
LEMMA ConfiguredIs ==
  /\ Sound(Configured) /\ Room(Configured) /\ Configured.cache = Full(Nothing)
  /\ Configured.cache_size = 3 /\ \A n \in Names : Configured.cache[n] = Absent
<1> DEFINE cent == Cent(FALSE, 0, 0, [NoRRs EXCEPT !["A"] = RRset("local", 0, max_ttl)])
           r == RRset("local", 0, max_ttl)
           rr == [NoRRs EXCEPT !["A"] = r]
           C == [cache |-> Full(Nothing), rr_l |-> <<>>, cache_size |-> 3, ent_num |-> 1]
<1>1. /\ max_ttl \in Nat /\ r \in RRs /\ r.kind = "local" /\ r.ttl = max_ttl
      /\ LowTTL(FALSE) \in Nat /\ LowTTL(FALSE) <= max_ttl
  BY LowTTLIs DEF RRset, RRs, Kinds
<1>2. adjust_ttl(r) = r
  <2> HIDE DEF r
  <2>3. LowTTL(r.kind = "neg") <= r.ttl /\ r.ttl <= max_ttl
    BY <1>1, CacheAssumption DEF LowTTL
  <2>1. Kept(r)
    BY <1>1, <2>3 DEF Kept
  <2>2. QED BY <1>1, <2>1, AdjustTTL
<1>3. rr = [i \in Types |-> IF i = "A" THEN r ELSE NoRR]
  BY DEF NoRRs
<1>4. Has(rr, "A") /\ ~Has(rr, "CNAME")
  BY <1>1, <1>3 DEF Has, Types, NoRR
<1>5. TotalSize(rr) = 3 /\ Cardinality(Present(rr)) = 1
  <2>1. SizeOf(rr["A"]) = 2 /\ SizeOf(rr["CNAME"]) = 0
    BY <1>1, <1>3 DEF SizeOf, NoRR, Types
  <2>2. QED BY <1>4, <2>1, PresentCount DEF TotalSize, Count
<1>6. cent = LocalEnt
  BY <1>3, <1>5 DEF Cent, LocalEnt
<1>7. Adjusted(LocalEnt) = LocalEnt
  <2>1. LocalEnt.rr = rr /\ ~LocalEnt.neg
    BY <1>3 DEF LocalEnt
  <2>2. [i \in Types |-> IF Has(rr, i) THEN adjust_ttl(rr[i]) ELSE NoRR] = rr
    <3>1. \A i \in Types : (IF Has(rr, i) THEN adjust_ttl(rr[i]) ELSE NoRR) = rr[i]
      BY <1>2, <1>3, <1>4 DEF Types
    <3>2. rr = [i \in Types |-> rr[i]]
      BY <1>3
    <3> HIDE DEF rr
    <3>3. QED BY <3>1, <3>2
  <2>3. Adjusted(LocalEnt) = [LocalEnt EXCEPT !.rr = rr]
    BY <2>1, <2>2 DEF Adjusted
  <2>4. QED BY <2>1, <2>3 DEF LocalEnt
<1>8. Configured = C
  <2> DEFINE T == [Empty EXCEPT !.cache[LocalName] = LocalEnt, !.ent_num = @ + 1,
                                !.cache_size = @ + LocalEnt.cs]
  <2>6. [Empty.cache EXCEPT ![LocalName] = LocalEnt] = Full(Nothing)
    BY Basics DEF Empty, Full, Nothing
  <2>7. LocalEnt.cs = 3
    BY DEF LocalEnt
  <2> DEFINE E == Empty.cache
  <2>8. Empty = [cache |-> E, rr_l |-> <<>>, cache_size |-> 0, ent_num |-> 0]
    BY DEF Empty
  <2> HIDE DEF E
  <2>9. T = [cache |-> [E EXCEPT ![LocalName] = LocalEnt], rr_l |-> <<>>,
             cache_size |-> 0 + LocalEnt.cs, ent_num |-> 0 + 1]
    <3> DEFINE X == [Empty EXCEPT !.cache[LocalName] = LocalEnt]
               Y == [X EXCEPT !.ent_num = @ + 1]
               Z == [Y EXCEPT !.cache_size = @ + LocalEnt.cs]
    <3>1. T = Z
      OBVIOUS
    <3>2. X = [cache |-> [E EXCEPT ![LocalName] = LocalEnt], rr_l |-> <<>>,
               cache_size |-> 0, ent_num |-> 0]
      BY <2>8
    <3> HIDE DEF X
    <3>3. Y = [cache |-> [E EXCEPT ![LocalName] = LocalEnt], rr_l |-> <<>>,
               cache_size |-> 0, ent_num |-> 0 + 1]
      BY <3>2
    <3> HIDE DEF Y
    <3>4. Z = [cache |-> [E EXCEPT ![LocalName] = LocalEnt], rr_l |-> <<>>,
               cache_size |-> 0 + LocalEnt.cs, ent_num |-> 0 + 1]
      BY <3>3
    <3> HIDE DEF Z, T
    <3>5. QED BY <3>1, <3>4
  <2>1. T = C
    BY <2>6, <2>7, <2>9 DEF E
  <2>2. InsertRRset(T, LocalName, "A") = T /\ InsertRRset(T, LocalName, "CNAME") = T
    BY DEF InsertRRset, insert_rrl
  <2>3. ~LocalEnt.neg
    BY DEF LocalEnt
  <2>4. Configured = InsertRRset(InsertRRset(T, LocalName, "A"), LocalName, "CNAME")
    BY <1>6, <1>7, <2>3 DEF Configured, OneRRset, NewEntry
  <2>5. QED BY <2>1, <2>2, <2>4
<1> HIDE DEF C, r, rr, cent
<1>9. /\ C.cache = Full(Nothing) /\ C.rr_l = <<>> /\ C.cache_size = 3 /\ C.ent_num = 1
      /\ C.cache[LocalName] = LocalEnt /\ \A n \in Names : C.cache[n] = Absent
  BY Basics DEF C, Full, Nothing
<1>10. LocalEnt \in Cents /\ LocalEnt.cs = 3
  <2>1. RRset("local", 0, max_ttl) \in RRs
    BY <1>1 DEF r
  <2>2. QED BY <2>1, AbsentIs DEF LocalEnt, Cents
<1>11. C \in DB
  <2>1. Full(Nothing) \in [AllNames -> Cents]
    BY <1>10, AbsentIs, Basics DEF Full, Nothing
  <2>2. <<>> \in Seq(NodeSet)
    OBVIOUS
  <2>3. QED BY <2>1, <2>2 DEF C, DB
<1>12. Nodes(C.cache) = {}
  <2>1. \A n \in Names : ~C.cache[n].neg /\ \A i \in Types : ~Has(C.cache[n].rr, i)
    BY <1>9, AbsentIs DEF Has, NoRRs, NoRR
  <2>2. QED BY <2>1, NodesIs
<1>13. Listing(C.rr_l, Nodes(C.cache), C.cache)
  <2>1. Len(<<>>) = 0 /\ <<>> \in Seq(NodeSet)
    OBVIOUS
  <2>2. QED BY <1>9, <1>12, <2>1 DEF Listing
<1>14. C.ent_num = Cardinality({n \in AllNames : Cached(C, n)})
  <2>1. {n \in AllNames : Cached(C, n)} = {LocalName}
    BY <1>9, <1>10, AbsentIs, Basics DEF Cached
  <2>2. QED BY <1>9, <2>1, FS_Singleton
<1>15. Core(C)
  BY <1>9, <1>11, <1>13, <1>14, AbsentIs DEF Core
<1>16. SumCs(C.cache, AllNames) = 3
  <2>1. Sized(C.cache, AllNames)
    BY <1>11, Basics, Fields DEF Sized
  <2>2. AllNames \ {LocalName} = Names
    BY Basics
  <2>3. SumCs(C.cache, Names) = 0
    BY <1>9, AbsentIs, Basics, SumZero
  <2>4. SumCs(C.cache, AllNames) = C.cache[LocalName].cs + SumCs(C.cache, AllNames \ {LocalName})
    BY <2>1, Basics, SumSplit
  <2>5. SumCs(C.cache, AllNames \ {LocalName}) = 0
    BY <2>2, <2>3, Zenon
  <2>6. C.cache[LocalName].cs = 3
    BY <1>9, <1>10
  <2>7. QED BY <2>4, <2>5, <2>6
<1>17. Sound(C) /\ Room(C)
  BY <1>9, <1>15, <1>16 DEF Sound, Room
<1>18. QED BY <1>8, <1>9, <1>17

\* A stopped pdnsd has no cache.
LEMMA EmptyIs ==
  /\ \A n \in AllNames : Empty.cache[n] = Absent
  /\ Empty.rr_l = <<>> /\ Empty.cache_size = 0 /\ Empty.ent_num = 0
  /\ SumCs(Empty.cache, AllNames) = 0 /\ Nodes(Empty.cache) = {}
<1>1. /\ \A n \in AllNames : Empty.cache[n] = Absent
      /\ Empty.rr_l = <<>> /\ Empty.cache_size = 0 /\ Empty.ent_num = 0
  BY DEF Empty
<1>2. SumCs(Empty.cache, AllNames) = 0
  BY <1>1, AbsentIs, Basics, SumZero
<1>3. \A n \in Names : ~Empty.cache[n].neg /\ \A i \in Types : ~Has(Empty.cache[n].rr, i)
  BY <1>1, AbsentIs, Basics DEF Has, NoRRs, NoRR
<1>4. Nodes(Empty.cache) = {}
  BY <1>3, NodesIs
<1>5. QED BY <1>1, <1>2, <1>4

\* What read_disk_cache leaves for a file d, read in an order.
Restored(d, order) ==
  LET S[k \in 0..Len(order)] ==
        IF k = 0 THEN Configured ELSE add_cache(S[k - 1], order[k], d[order[k]])
  IN  S[Len(order)]

\* An order of the file has every entry once.
LEMMA OrderIs ==
  ASSUME NEW d, NEW order \in SetToSeqs({n \in Names : Savable(d[n])})
  PROVE  /\ Len(order) \in Nat
         /\ \A k \in 1..Len(order) : order[k] \in Names /\ Savable(d[order[k]])
         /\ \A j, k \in 1..Len(order) : j # k => order[j] # order[k]
         /\ \A n \in Names : Savable(d[n]) => \E k \in 1..Len(order) : order[k] = n
<1> DEFINE A == {n \in Names : Savable(d[n])}
           c == Cardinality(A)
           D == 1..c
<1>1. IsFiniteSet(A) /\ c \in Nat
  BY Basics, FS_Subset, FS_CardinalityType
<1>2. order \in [D -> A] /\ \A i, j \in D : i # j => order[i] # order[j]
  BY DEF SetToSeqs
<1>3. Cardinality(D) = c
  <2>1. Cardinality(D) = IF 1 > c THEN 0 ELSE c - 1 + 1
    <3> HIDE DEF c
    <3> QED BY <1>1, FS_Interval
  <2> HIDE DEF c, D
  <2>2. QED BY <1>1, <2>1
<1> HIDE DEF A, c
<1>4. Len(order) = c
  BY <1>1, <1>2
<1>5. order \in Injection(D, A)
  BY <1>2 DEF Injection, IsInjective
<1>6. order \in Surjection(D, A)
  <2> HIDE DEF D
  <2> QED BY <1>1, <1>3, <1>5, FS_Injection DEF c
<1>7. \A n \in A : \E k \in D : order[k] = n
  BY <1>6 DEF Surjection
<1>8. QED BY <1>1, <1>2, <1>4, <1>7 DEF A

\* The sizes of a file are numbers.
LEMMA FullSized ==
  ASSUME NEW d, DiskOK(d)
  PROVE  /\ Sized(Full(d), AllNames) /\ Full(d)[LocalName] = LocalEnt /\ LocalEnt.cs = 3
         /\ \A n \in Names : Full(d)[n] = d[n] /\ d[n].cs \in Nat
<1>1. Full(d)[LocalName] = LocalEnt /\ LocalEnt.cs = 3 /\ \A n \in Names : Full(d)[n] = d[n]
  BY Basics DEF Full, LocalEnt
<1>2. \A n \in Names : d[n].cs \in Nat
  BY DEF DiskOK, Cents
<1>3. \A n \in AllNames : Full(d)[n].cs \in Nat
  BY <1>1, <1>2, Basics
<1>4. QED BY <1>1, <1>2, <1>3, Basics DEF Sized

\* A file that was cut to size is read back as it is, and without evictions.
LEMMA ReadIs ==
  ASSUME NEW d, DiskOK(d), NEW order \in SetToSeqs({n \in Names : Savable(d[n])})
  PROVE  LET R == Restored(d, order) IN
         /\ Sound(R) /\ Room(R) /\ \A n \in Names : ~Hollow(R, n)
         /\ DiskFits(d) => /\ \A n \in Names : R.cache[n] = d[n]
                           /\ R.cache_size <= PermSize + MCSZ
<1> DEFINE N == Len(order)
           step(k, U) == add_cache(U, order[k], d[order[k]])
           F(g) == [k \in 0..N |-> IF k = 0 THEN Configured ELSE step(k, g[k - 1])]
           G == [k \in 1..N |-> [U \in DB |-> IF step(k, U) \in DB THEN step(k, U) ELSE U]]
           Safe(U) == Sound(U) /\ Room(U) /\ \A n \in Names : ~Hollow(U, n)
           Later(k, U) == \A n \in Names : Cached(U, n) => \E j \in 1..k : order[j] = n
           Read(k, U) == /\ U.cache_size <= PermSize + MCSZ
                         /\ \A j \in 1..k : U.cache[order[j]] = d[order[j]]
           J(k, U) == Safe(U) /\ Later(k, U) /\ (DiskFits(d) => Read(k, U))
<1>1. /\ N \in Nat /\ \A k \in 1..N : order[k] \in Names /\ Savable(d[order[k]])
      /\ \A j, k \in 1..N : j # k => order[j] # order[k]
      /\ \A n \in Names : Savable(d[n]) => \E k \in 1..N : order[k] = n
  BY OrderIs
<1> HIDE DEF N
<1>2. /\ Sized(Full(d), AllNames) /\ Full(d)[LocalName] = LocalEnt /\ LocalEnt.cs = 3
      /\ \A n \in Names : Full(d)[n] = d[n] /\ d[n].cs \in Nat
  BY FullSized
<1>3. Maps(G, N, DB)
  <2>1. \A k \in 1..N : [U \in DB |-> IF step(k, U) \in DB THEN step(k, U) ELSE U] \in [DB -> DB]
    OBVIOUS
  <2>2. QED BY <2>1 DEF Maps
<1>4. Configured \in DB
  BY ConfiguredIs DEF Sound, Core
<1>5. PICK f : Iterates(f, N, DB, Configured, G)
  <2> HIDE DEF G
  <2> QED BY <1>1, <1>3, <1>4, IterExists
<1>6. /\ f \in [0..N -> DB] /\ f[0] = Configured
      /\ \A k \in 1..N : f[k] = IF step(k, f[k - 1]) \in DB THEN step(k, f[k - 1]) ELSE f[k - 1]
  <2>1. f \in [0..N -> DB] /\ f[0] = Configured /\ \A k \in 1..N : f[k] = G[k][f[k - 1]]
    BY <1>5 DEF Iterates
  <2>2. \A k \in 1..N : f[k - 1] \in DB
    BY <1>1, <2>1
  <2> HIDE DEF step
  <2>3. QED BY <2>1, <2>2
<1>7. J(0, Configured)
  <2>1. Safe(Configured) /\ Later(0, Configured)
    BY ConfiguredIs, AbsentIs DEF Hollow, Cached
  <2>2. DiskFits(d) => Configured.cache_size <= PermSize + MCSZ
    <3>1. SumCs(Full(d), AllNames) = 3 + SumCs(Full(d), AllNames \ {LocalName})
      BY <1>2, Basics, SumSplit
    <3>2. SumCs(Full(d), AllNames \ {LocalName}) \in Nat
      <4>1. Sized(Full(d), AllNames \ {LocalName})
        BY <1>2, FS_RemoveElement DEF Sized
      <4>2. QED BY <4>1, SumSplit
    <3>3. QED BY <3>1, <3>2, ConfiguredIs, CacheAssumption DEF DiskFits
  <2> HIDE DEF Safe, Later
  <2>3. QED BY <2>1, <2>2
<1>8. ASSUME NEW k \in 1..N, NEW U, J(k - 1, U)
      PROVE  J(k, step(k, U)) /\ step(k, U) \in DB
  <2> DEFINE n == order[k]
             e == d[n]
             Q == step(k, U)
  <2>1. n \in Names /\ EntOK(e) /\ Savable(e) /\ Offered(e) /\ e \in Cents /\ e.cs \in Nat
    BY <1>1, SavedOffered DEF DiskOK
  <2>2. Sound(U) /\ Room(U) /\ \A m \in Names : ~Hollow(U, m)
    BY <1>8
  <2>3. ~Cached(U, n)
    <3>1. \A j \in 1..(k - 1) : j \in 1..N /\ j # k
      BY <1>1
    <3>2. QED BY <1>1, <1>8, <2>1, <3>1
  <2> HIDE DEF n
  <2>4. Q = add_cache(U, n, e)
    BY DEF n
  <2> HIDE DEF Q, step, e
  <2>5. /\ Sound(Q) /\ Room(Q) /\ \A m \in Names : m # n /\ Hollow(Q, m) => Hollow(U, m)
        /\ \A m \in Names : Cached(Q, m) => m = n \/ Cached(U, m)
        /\ Hollow(Q, n) => Hollow(U, n)
    BY <2>1, <2>2, <2>3, <2>4, AddCacheIs
  <2>6. Safe(Q)
    BY <2>1, <2>2, <2>5
  <2>7. Later(k, Q)
    <3>1. ASSUME NEW m \in Names, Cached(Q, m) PROVE \E j \in 1..k : order[j] = m
      <4>1. CASE m = n
        <5>1. k \in 1..k
          BY <1>1
        <5>2. QED BY <4>1, <5>1 DEF n
      <4>2. CASE m # n
        <5>1. \E j \in 1..(k - 1) : order[j] = m
          BY <1>8, <2>5, <3>1, <4>2
        <5>2. QED BY <1>1, <5>1
      <4>3. QED BY <4>1, <4>2
    <3>2. QED BY <3>1
  <2>8. ASSUME DiskFits(d) PROVE Read(k, Q)
    <3>1. Read(k - 1, U)
      BY <1>8, <2>8
    <3> DEFINE T == [U EXCEPT !.cache[n] = e]
    <3>2. U \in DB /\ n \in AllNames
      BY <2>1, <2>2, Basics DEF Sound, Core
    <3>3. T \in DB /\ T.cache = [U.cache EXCEPT ![n] = e]
      <4>1. [U.cache EXCEPT ![n] = e] \in [AllNames -> Cents]
        BY <2>1, <3>2, Fields
      <4>2. QED BY <3>2, <4>1 DEF DB
    <3> HIDE DEF T
    <3>4. T.cache[n] = e /\ Off(U, T, n)
      BY <3>2, <3>3, Fields DEF Off
    <3>5. U.cache[n].cs = 0
      BY <2>1, <2>2, <2>3, CachedReal, AbsentIs DEF Cached, Sound, Core
    <3>6. SumCs(T.cache, AllNames) = U.cache_size + e.cs
      <4>1. SumCs(T.cache, AllNames) = SumCs(U.cache, AllNames) - U.cache[n].cs + T.cache[n].cs
        <5>1. U \in DB /\ T \in DB /\ n \in AllNames /\ Off(U, T, n)
          BY <3>2, <3>3, <3>4
        <5>2. QED BY <5>1, SumOff
      <4>2. U.cache_size = SumCs(U.cache, AllNames) /\ U.cache_size \in Int
        BY <2>2, <3>2, Fields DEF Sound
      <4>3. QED BY <2>1, <3>4, <3>5, <4>1, <4>2
    <3>7. SumCs(T.cache, AllNames) <= SumCs(Full(d), AllNames)
      <4>1. Sized(T.cache, AllNames)
        BY <3>3, Fields, Basics DEF Sized
      <4>2. ASSUME NEW m \in AllNames PROVE T.cache[m].cs <= Full(d)[m].cs
        <5>1. CASE m = n
          BY <1>2, <2>1, <3>4, <5>1 DEF e
        <5>2. CASE m = LocalName
          <6>1. m # n
            BY <2>1, <5>2, Basics
          <6>2. T.cache[m] = LocalEnt
            BY <2>2, <3>4, <5>2, <6>1 DEF Off, Sound, Core
          <6>3. QED BY <1>2, <5>2, <6>2
        <5>3. CASE m # n /\ m # LocalName
          <6>1. m \in Names /\ T.cache[m] = U.cache[m]
            BY <3>4, <5>3, Basics DEF Off
          <6>2. CASE Cached(U, m)
            <7>1. PICK j \in 1..(k - 1) : order[j] = m
              BY <1>8, <6>1, <6>2
            <7>2. U.cache[m] = d[m]
              BY <3>1, <7>1
            <7>3. QED BY <1>2, <6>1, <7>2
          <6>3. CASE ~Cached(U, m)
            <7>1. U.cache[m].cs = 0
              BY <2>2, <6>1, <6>3, CachedReal, AbsentIs DEF Cached, Sound, Core
            <7>2. QED BY <1>2, <6>1, <7>1
          <6>4. QED BY <6>2, <6>3
        <5>4. QED BY <5>1, <5>2, <5>3
      <4>3. QED BY <1>2, <4>1, <4>2, SumLess
    <3>8. U.cache_size + e.cs <= PermSize + MCSZ
      <4>1. SumCs(Full(d), AllNames) \in Nat /\ SumCs(Full(d), AllNames) <= PermSize + MCSZ
        BY <1>2, <2>8, SumSplit DEF DiskFits
      <4>2. U.cache_size + e.cs \in Int
        BY <2>1, <3>2, Fields
      <4>3. QED BY <3>6, <3>7, <4>1, <4>2, CacheAssumption
    <3>9. Off(U, Q, n) /\ Q.cache[n] = e /\ Q.cache_size = U.cache_size + e.cs
      BY <2>1, <2>2, <2>3, <2>4, <3>8, RestoreOne
    <3>10. ASSUME NEW j \in 1..k PROVE Q.cache[order[j]] = d[order[j]]
      <4>1. CASE j = k
        BY <3>9, <4>1 DEF n, e
      <4>2. CASE j # k
        <5>1. j \in 1..(k - 1) /\ j \in 1..N
          BY <1>1, <4>2
        <5>2. order[j] # n /\ order[j] \in AllNames
          BY <1>1, <4>2, <5>1, Basics DEF n
        <5>3. U.cache[order[j]] = d[order[j]]
          BY <3>1, <5>1
        <5>4. QED BY <3>9, <5>2, <5>3 DEF Off
      <4>3. QED BY <4>1, <4>2
    <3>11. QED BY <3>8, <3>9, <3>10
  <2>9. Q \in DB
    BY <2>5 DEF Sound, Core
  <2> HIDE DEF Safe, Later, Read
  <2>10. QED BY <2>6, <2>7, <2>8, <2>9 DEF Q
<1> HIDE DEF J
<1>9. \A k \in 0..N : J(k, f[k])
  <2> DEFINE A == {k \in 0..N : J(k, f[k])}
  <2>1. 0 \in A
    BY <1>1, <1>6, <1>7
  <2>2. ASSUME NEW k \in 1..N, k - 1 \in A PROVE k \in A
    <3>1. J(k, step(k, f[k - 1])) /\ step(k, f[k - 1]) \in DB
      BY <1>8, <2>2
    <3>2. f[k] = step(k, f[k - 1])
      BY <1>6, <3>1
    <3> HIDE DEF step
    <3>3. QED BY <3>1, <3>2
  <2>3. \A k \in 0..N : k \in A
    <3> HIDE DEF A
    <3> QED BY <1>1, <2>1, <2>2, UpTo
  <2>4. QED BY <2>3
<1>10. \A k \in 1..N : f[k] = step(k, f[k - 1])
  <2>1. ASSUME NEW k \in 1..N PROVE step(k, f[k - 1]) \in DB
    <3>1. J(k - 1, f[k - 1])
      BY <1>1, <1>9
    <3>2. QED BY <1>8, <3>1
  <2> HIDE DEF step
  <2>2. QED BY <1>6, <2>1
<1> DEFINE h == CHOOSE g : g = F(g)
<1>11. f = F(f)
  <2> HIDE DEF step
  <2> QED BY <1>1, <1>6, <1>10
<1>12. h = F(h)
  <2> HIDE DEF F
  <2> QED BY <1>11
<1>13. Restored(d, order) = h[N]
  BY DEF Restored, N
<1>14. h[N] = f[N]
  <2> HIDE DEF h, step
  <2>1. h[0] = Configured /\ \A k \in 1..N : h[k] = step(k, h[k - 1])
    BY <1>1, <1>12
  <2> HIDE DEF F
  <2>2. \A k \in 1..N : f[k - 1] = h[k - 1] => f[k] = h[k]
    BY <1>10, <2>1
  <2>3. f[0] = h[0]
    BY <1>6, <2>1
  <2>4. QED BY <1>1, <2>2, <2>3, SameRuns
<1> DEFINE R == Restored(d, order)
<1>15. J(N, R)
  BY <1>1, <1>9, <1>13, <1>14
<1> HIDE DEF R
<1>16. Sound(R) /\ Room(R) /\ \A n \in Names : ~Hollow(R, n)
  BY <1>15 DEF J
<1>17. ASSUME DiskFits(d), NEW n \in Names PROVE R.cache[n] = d[n]
  <2>1. CASE Savable(d[n])
    <3>1. PICK k \in 1..N : order[k] = n
      BY <1>1, <2>1
    <3>2. QED BY <1>15, <1>17, <3>1 DEF J
  <2>2. CASE ~Savable(d[n])
    <3>1. d[n] = Absent
      BY <2>2 DEF DiskOK
    <3>2. ~Cached(R, n)
      <4>1. \A j \in 1..N : order[j] # n
        BY <1>1, <2>2
      <4>2. QED BY <1>15, <4>1 DEF J
    <3>3. R.cache[n] = Absent
      BY <1>16, <3>2, CachedReal DEF Cached, Sound, Core
    <3>4. QED BY <3>1, <3>3
  <2>3. QED BY <2>1, <2>2
<1>18. DiskFits(d) => R.cache_size <= PermSize + MCSZ
  BY <1>15 DEF J
<1>19. QED BY <1>16, <1>17, <1>18 DEF R

-----------------------------------------------------------------------------
(* The specification.                                                      *)

PCs == {"idle", "purge", "resolve", "merged", "repurge"}

\* A query that is under way is for a name of the app's.
QueriesOK ==
  /\ q \in [Threads -> [pc : PCs, name : AllNames, ts : Nat]]
  /\ \A t \in Threads : q[t].pc # "idle" => q[t].name \in Names

\* The cache is sound and within its limit while pdnsd runs.
CacheOK ==
  /\ up \in BOOLEAN
  /\ up => Sound(db) /\ Room(db)
  /\ ~up => db = Empty

\* Someone is about to remove what no node leads to.
HollowOK ==
  \A n \in Names : Hollow(db, n) =>
     \E t \in Threads : q[t].name = n /\ q[t].pc \in {"merged", "repurge"}

\* The inductive invariant.
Inv == now \in Nat /\ QueriesOK /\ CacheOK /\ HollowOK /\ DiskOK(disk)

\* An entry with one rrset.
LEMMA OneRR ==
  ASSUME NEW i \in Types, NEW r \in RRs
  PROVE  LET rr == [NoRRs EXCEPT ![i] = r] IN
         /\ rr \in [Types -> RRs] /\ rr[i] = r
         /\ \A j \in Types : j # i => rr[j] = NoRR
<1>1. NoRRs \in [Types -> RRs] /\ \A j \in Types : NoRRs[j] = NoRR
  BY AbsentIs DEF NoRRs
<1>2. QED BY <1>1

\* What Cent builds of rrsets may be given to add_cache.
LEMMA CentOffered ==
  ASSUME NEW rr \in [Types -> RRs], ~(Records(rr["A"]) /\ Records(rr["CNAME"])),
         \A i \in Types : rr[i].kind = "none" => rr[i] = NoRR
  PROVE  LET c == Cent(FALSE, 0, 0, rr) IN Offered(c) /\ ~c.neg /\ c.rr = rr
<1> DEFINE c == Cent(FALSE, 0, 0, rr)
<1>1. ~c.neg /\ c.rr = rr /\ c.cs = TotalSize(rr) /\ c.num_rrs = Count(rr)
  BY PresentCount DEF Cent
<1>2. TotalSize(rr) \in Nat /\ Count(rr) \in Nat
  BY DEF TotalSize, SizeOf, Count
<1>3. c \in Cents
  BY <1>1, <1>2 DEF Cents, Cent
<1> HIDE DEF c
<1>4. QED BY <1>1, <1>3 DEF Offered, c

\* A negated domain may be given to add_cache.
LEMMA NegationOffered ==
  ASSUME NEW ts \in Nat, NEW ttl \in Nat
  PROVE  Offered(Cent(TRUE, ts, ttl, NoRRs))
<1> DEFINE c == Cent(TRUE, ts, ttl, NoRRs)
<1>1. c.rr = NoRRs /\ c.cs = TotalSize(NoRRs) /\ c.num_rrs = Count(NoRRs)
  BY PresentCount DEF Cent
<1>2. TotalSize(NoRRs) \in Nat /\ Count(NoRRs) \in Nat
  BY DEF TotalSize, SizeOf, Count
<1>3. c \in Cents
  BY <1>1, <1>2, AbsentIs DEF Cents, Cent
<1>4. \A i \in Types : NoRRs[i] = NoRR
  BY DEF NoRRs
<1>5. ~Has(NoRRs, "A") /\ ~Has(NoRRs, "CNAME") /\ ~Records(NoRRs["A"])
  BY <1>4 DEF Has, Records, NoRR, Types
<1> HIDE DEF c
<1>6. QED BY <1>1, <1>3, <1>4, <1>5 DEF Offered, c

\* Answers and additional records may be given to add_cache.
LEMMA AnswerOffered ==
  ASSUME NEW ts \in Nat
  PROVE  /\ \A cent \in Answer(ts) : Offered(cent)
         /\ \A ttl \in TTLs :
               LET c == OneRRset("A", "add", ts, ttl) IN
               Offered(c) /\ ~c.neg /\ c.rr["A"].kind = "add" /\ c.rr["CNAME"].kind = "none"
<1>1. /\ \A kind \in Kinds, ttl \in Nat : RRset(kind, ts, ttl) \in RRs
      /\ \A kind \in Kinds, ttl \in Nat : RRset(kind, ts, ttl).kind = kind
  BY DEF RRset, RRs
<1>2. TTLs \subseteq Nat /\ neg_ttl \in Nat
  BY CacheAssumption
<1>3. NoRRs \in [Types -> RRs] /\ \A i \in Types : NoRRs[i] = NoRR
  BY AbsentIs DEF NoRRs
<1>4. ~Records(NoRR)
  BY DEF Records, NoRR
<1>5. Offered(Cent(FALSE, 0, 0, NoRRs))
  <2>1. ~(Records(NoRRs["A"]) /\ Records(NoRRs["CNAME"]))
    BY <1>3, <1>4 DEF Types
  <2>2. QED BY <1>3, <2>1, CentOffered
<1>6. ASSUME NEW i \in Types, NEW kind \in Kinds \ {"none"}, NEW ttl \in Nat
      PROVE  LET c == OneRRset(i, kind, ts, ttl) IN
             /\ Offered(c) /\ ~c.neg /\ c.rr[i].kind = kind
             /\ \A j \in Types : j # i => c.rr[j].kind = "none"
  <2> DEFINE r == RRset(kind, ts, ttl)
             rr == [NoRRs EXCEPT ![i] = r]
             c == Cent(FALSE, 0, 0, rr)
  <2>1. r \in RRs /\ r.kind = kind /\ kind # "none"
    BY <1>1
  <2> HIDE DEF r
  <2>2. rr \in [Types -> RRs] /\ rr[i] = r /\ \A j \in Types : j # i => rr[j] = NoRR
    BY <2>1, OneRR
  <2> HIDE DEF rr
  <2>3. ~(Records(rr["A"]) /\ Records(rr["CNAME"]))
    BY <1>4, <2>2 DEF Types
  <2>4. \A j \in Types : rr[j].kind = "none" => rr[j] = NoRR
    BY <2>1, <2>2
  <2>5. Offered(c) /\ ~c.neg /\ c.rr = rr
    BY <2>2, <2>3, <2>4, CentOffered
  <2> HIDE DEF c
  <2>6. /\ Offered(c) /\ ~c.neg /\ c.rr[i].kind = kind
        /\ \A j \in Types : j # i => c.rr[j].kind = "none"
    BY <2>1, <2>2, <2>5 DEF NoRR
  <2>7. QED BY <2>6 DEF c, rr, r, OneRRset
<1>7. ASSUME NEW cent \in Answer(ts) PROVE Offered(cent)
  <2> DEFINE nothing == Cent(FALSE, 0, 0, NoRRs)
             domain == Cent(TRUE, ts, neg_ttl, NoRRs)
             data(i, ttl) == OneRRset(i, "ans", ts, ttl)
             type == OneRRset("A", "neg", ts, neg_ttl)
  <2>1. Offered(nothing) /\ Offered(domain)
    BY <1>2, <1>5, NegationOffered
  <2>2. \A i \in Types, ttl \in TTLs : Offered(data(i, ttl))
    BY <1>2, <1>6 DEF Kinds
  <2>3. Offered(type)
    BY <1>2, <1>6 DEF Kinds, Types
  <2> DEFINE many == {data(i, ttl) : i \in Types, ttl \in TTLs}
  <2>4. Answer(ts) = {nothing, domain} \cup many \cup {type}
    BY DEF Answer
  <2>5. cent \in many => \E i \in Types, ttl \in TTLs : cent = data(i, ttl)
    OBVIOUS
  <2> HIDE DEF nothing, domain, type, many, data
  <2>6. cent = nothing \/ cent = domain \/ cent = type \/ cent \in many
    BY <2>4
  <2>7. QED BY <2>1, <2>2, <2>3, <2>5, <2>6
<1>8. ASSUME NEW ttl \in TTLs
      PROVE  LET c == OneRRset("A", "add", ts, ttl) IN
             Offered(c) /\ ~c.neg /\ c.rr["A"].kind = "add" /\ c.rr["CNAME"].kind = "none"
  <2>1. "A" \in Types /\ "CNAME" \in Types /\ "CNAME" # "A" /\ "add" \in Kinds \ {"none"} /\ ttl \in Nat
    BY <1>2 DEF Types, Kinds
  <2> DEFINE c == OneRRset("A", "add", ts, ttl)
  <2>2. Offered(c) /\ ~c.neg
    BY <1>6, <2>1
  <2>3. c.rr["A"].kind = "add" /\ c.rr["CNAME"].kind = "none"
    BY <1>1, <2>1 DEF OneRRset, Cent, NoRRs, NoRR
  <2> HIDE DEF c
  <2>4. QED BY <2>2, <2>3 DEF c
<1>9. QED BY <1>7, <1>8

\* Purging keeps within the limit.
LEMMA RoomShrinks ==
  ASSUME NEW S, NEW T, Sound(S), Room(S), Purged(S, T)
  PROVE  Room(T)
<1>1. Sound(T) /\ T.cache_size <= S.cache_size /\ Lesser(S, T)
  BY DEF Purged
<1>2. CASE S.cache_size <= PermSize + MCSZ
  <2>1. S.cache_size \in Int /\ T.cache_size \in Int
    BY <1>1, Fields DEF Sound, Core
  <2>2. QED BY <1>1, <1>2, <2>1, CacheAssumption DEF Room
<1>3. CASE S.rr_l = <<>>
  <2>1. Nodes(S.cache) = {}
    BY <1>3, EmptyList
  <2>2. Nodes(T.cache) = {}
    BY <1>1, <2>1, LesserNodes
  <2>3. QED BY <1>1, <2>2, EmptyList DEF Room
<1>4. QED BY <1>2, <1>3 DEF Room

\* A file with some of the savable entries of a cache.
PartOf(d, P) ==
  /\ DOMAIN d = Names /\ d = [n \in Names |-> d[n]]
  /\ \A n \in Names : d[n] = Absent \/ (d[n] = P.cache[n] /\ Savable(d[n]))

\* A part of a sound cache is in order, and fits if the cache is within its limit.
LEMMA SavedIs ==
  ASSUME NEW P, Sound(P), NEW d, PartOf(d, P)
  PROVE  /\ DiskOK(d)
         /\ 3 <= PermSize + MCSZ /\ Room(P) => DiskFits(d)
<1>1. P \in DB /\ \A n \in Names : EntOK(P.cache[n]) /\ P.cache[n] \in Cents
  BY DEF Sound, Core, EntOK
<1>2. \A n \in Names : d[n] = Absent \/ (d[n] = P.cache[n] /\ Savable(d[n]))
  BY DEF PartOf
<1>3. d \in [Names -> Cents]
  <2>1. \A n \in Names : d[n] \in Cents
    BY <1>1, <1>2, AbsentIs
  <2>2. QED BY <2>1 DEF PartOf
<1>4. \A n \in Names : EntOK(d[n]) /\ (d[n] = Absent \/ Savable(d[n]))
  BY <1>1, <1>2, AbsentIs
<1>5. DiskOK(d)
  BY <1>3, <1>4 DEF DiskOK
<1>6. /\ Sized(Full(d), AllNames) /\ Full(d)[LocalName] = LocalEnt /\ LocalEnt.cs = 3
      /\ \A n \in Names : Full(d)[n] = d[n] /\ d[n].cs \in Nat
  BY <1>5, FullSized
<1>7. SumCs(Full(d), AllNames) \in Nat
  BY <1>6, SumSplit
<1>8. ASSUME P.cache_size <= PermSize + MCSZ PROVE DiskFits(d)
  <2>1. Sized(P.cache, AllNames)
    BY <1>1, Fields, Basics DEF Sized
  <2>2. ASSUME NEW n \in AllNames PROVE Full(d)[n].cs <= P.cache[n].cs
    <3>1. CASE n = LocalName
      BY <1>6, <3>1 DEF Sound, Core
    <3>2. CASE n \in Names
      <4>1. P.cache[n].cs \in Nat
        BY <1>1, <3>2, CentFields
      <4>2. QED BY <1>2, <1>6, <3>2, <4>1, AbsentIs
    <3>3. QED BY <3>1, <3>2, Basics
  <2>3. SumCs(Full(d), AllNames) <= SumCs(P.cache, AllNames)
    BY <1>6, <2>1, <2>2, SumLess
  <2>4. P.cache_size \in Int /\ P.cache_size = SumCs(P.cache, AllNames)
    BY <1>1, Fields DEF Sound
  <2>5. QED BY <1>7, <1>8, <2>3, <2>4, CacheAssumption DEF DiskFits
<1>9. ASSUME P.rr_l = <<>>, 3 <= PermSize + MCSZ PROVE DiskFits(d)
  <2>1. Nodes(P.cache) = {}
    BY <1>9, EmptyList
  <2>2. \A n \in Names : ~P.cache[n].neg /\ \A i \in Types : ~Has(P.cache[n].rr, i)
    BY <2>1, NodesIs
  <2>3. \A n \in Names : ~Savable(P.cache[n])
    BY <2>2 DEF Savable, Present
  <2>4. \A n \in Names : d[n] = Absent
    BY <1>2, <2>3
  <2>5. SumCs(Full(d), Names) = 0
    BY <1>6, <2>4, AbsentIs, Basics, SumZero
  <2>6. AllNames \ {LocalName} = Names
    BY Basics
  <2>7. SumCs(Full(d), AllNames) = LocalEnt.cs + SumCs(Full(d), AllNames \ {LocalName})
    BY <1>6, Basics, SumSplit
  <2>8. SumCs(Full(d), AllNames \ {LocalName}) = 0
    BY <2>5, <2>6, Zenon
  <2>9. QED BY <1>6, <1>9, <2>7, <2>8 DEF DiskFits
<1>10. QED BY <1>5, <1>8, <1>9 DEF Room


\* One thread goes on with its query.
LEMMA QueryStep ==
  ASSUME QueriesOK, NEW t \in Threads, NEW r \in [pc : PCs, name : AllNames, ts : Nat],
         r.pc # "idle" => r.name \in Names, q' = [q EXCEPT ![t] = r]
  PROVE  /\ QueriesOK' /\ q'[t] = r
         /\ \A u \in Threads : u # t => q'[u] = q[u]
<1>1. q' \in [Threads -> [pc : PCs, name : AllNames, ts : Nat]]
  BY DEF QueriesOK
<1>2. q'[t] = r /\ \A u \in Threads : u # t => q'[u] = q[u]
  BY DEF QueriesOK
<1>3. \A u \in Threads : q'[u].pc # "idle" => q'[u].name \in Names
  BY <1>2 DEF QueriesOK
<1>4. QED BY <1>1, <1>2, <1>3 DEF QueriesOK

\* What a query is doing when it has been looked up.
LEMMA AfterIs ==
  ASSUME QueriesOK, NEW S, NEW t \in Threads, NEW n \in AllNames, NEW ts \in Nat,
         n = LocalName \/ n \in Names, After(S, t, n, ts)
  PROVE  /\ QueriesOK' /\ q'[t].pc \in {"idle", "resolve"}
         /\ \A u \in Threads : u # t => q'[u] = q[u]
<1> DEFINE r == IF Answers(S, n, ts) THEN Idle ELSE [pc |-> "resolve", name |-> n, ts |-> ts]
<1>1. q' = [q EXCEPT ![t] = r]
  BY DEF After
<1>2. n = LocalName => Answers(S, n, ts)
  BY DEF Answers
<1>3. r \in [pc : PCs, name : AllNames, ts : Nat]
  BY Basics DEF PCs, Idle
<1>4. r.pc # "idle" => r.name \in Names
  BY <1>2 DEF Idle
<1>5. r.pc \in {"idle", "resolve"}
  BY DEF Idle
<1> HIDE DEF r
<1>6. QED BY <1>1, <1>3, <1>4, <1>5, QueryStep

\* The invariant is kept by the first half of lookup_cache, which only reads the cache.
LEMMA LookupKeeps ==
  ASSUME Inv, NEW t \in Threads, NEW n \in AllNames, lookup_cache(t, n)
  PROVE  Inv'
<1>1. /\ up /\ q[t].pc = "idle" /\ db' = db /\ now' = now /\ disk' = disk /\ up' = up
      /\ QueriesOK /\ now \in Nat /\ Sound(db)
  BY DEF Inv, lookup_cache, CacheOK
<1>2. QueriesOK' /\ \A u \in Threads : u # t => q'[u] = q[u]
  <2>1. CASE MustPurge(db, n)
    <3> DEFINE r == [pc |-> "purge", name |-> n, ts |-> now]
    <3>1. n # LocalName
      BY <1>1, <2>1, LocalStays DEF MustPurge
    <3>2. n \in Names
      BY <3>1, Basics
    <3>3. r \in [pc : PCs, name : AllNames, ts : Nat] /\ r.name \in Names
      BY <1>1, <3>2 DEF PCs
    <3>4. q' = [q EXCEPT ![t] = r]
      BY <2>1 DEF lookup_cache
    <3> HIDE DEF r
    <3>5. QED BY <1>1, <3>3, <3>4, QueryStep
  <2>2. CASE ~MustPurge(db, n)
    <3>1. After(db, t, n, now)
      BY <2>2 DEF lookup_cache
    <3>2. QED BY <1>1, <3>1, AfterIs, Basics
  <2>3. QED BY <2>1, <2>2
<1>3. HollowOK'
  BY <1>1, <1>2 DEF Inv, HollowOK
<1>4. CacheOK'
  BY <1>1 DEF Inv, CacheOK
<1>5. DiskOK(disk')
  BY <1>1 DEF Inv
<1>6. QED BY <1>1, <1>2, <1>3, <1>4, <1>5 DEF Inv

\* A name is purged with write access, and the query goes on.
LEMMA PurgeKeeps ==
  ASSUME Inv, up, NEW t \in Threads, q[t].pc # "idle", QueriesOK',
         \A u \in Threads : u # t => q'[u] = q[u],
         db' = IF Cached(db, q[t].name) THEN purge_cent(db, q[t].name, TRUE) ELSE db,
         now' = now, up' = up, disk' = disk
  PROVE  Inv'
<1> DEFINE n == q[t].name
<1>1. n \in Names /\ Sound(db) /\ Room(db)
  BY DEF Inv, QueriesOK, CacheOK
<1> HIDE DEF n
<1>2. /\ Sound(db') /\ Room(db') /\ ~Hollow(db', n)
      /\ \A m \in Names : Hollow(db', m) => Hollow(db, m)
  <2>1. CASE Cached(db, n)
    <3> DEFINE P == purge_cent(db, n, TRUE)
    <3>1. Purged(db, P) /\ ~Hollow(P, n)
      BY <1>1, <2>1, CentPurge
    <3>2. db' = P
      BY <2>1 DEF n
    <3> HIDE DEF P
    <3>3. Room(P)
      BY <1>1, <3>1, RoomShrinks
    <3>4. QED BY <3>1, <3>2, <3>3 DEF Purged
  <2>2. CASE ~Cached(db, n)
    <3>1. db' = db
      BY <2>2 DEF n
    <3>2. QED BY <1>1, <2>2, <3>1 DEF Hollow
  <2>3. QED BY <2>1, <2>2
<1>3. HollowOK'
  <2>1. ASSUME NEW m \in Names, Hollow(db', m)
        PROVE  \E u \in Threads : q'[u].name = m /\ q'[u].pc \in {"merged", "repurge"}
    <3>1. m # n /\ Hollow(db, m)
      BY <1>2, <2>1
    <3>2. PICK u \in Threads : q[u].name = m /\ q[u].pc \in {"merged", "repurge"}
      BY <3>1 DEF Inv, HollowOK
    <3>3. u # t
      BY <3>1, <3>2 DEF n
    <3>4. QED BY <3>2, <3>3
  <2>2. QED BY <2>1 DEF HollowOK
<1>4. CacheOK'
  BY <1>2 DEF Inv, CacheOK
<1>5. DiskOK(disk')
  BY DEF Inv
<1>6. QED BY <1>3, <1>4, <1>5 DEF Inv


\* The invariant is kept by the second half of lookup_cache.
LEMMA LookupPurgeKeeps ==
  ASSUME Inv, NEW t \in Threads, lookup_cache_purge(t)
  PROVE  Inv'
<1> DEFINE n == q[t].name
           S == IF Cached(db, n) THEN purge_cent(db, n, TRUE) ELSE db
<1>1. /\ up /\ q[t].pc = "purge" /\ now' = now /\ disk' = disk /\ up' = up
      /\ db' = S /\ After(S, t, n, q[t].ts)
  BY DEF lookup_cache_purge, Writable
<1>2. QueriesOK /\ n \in Names /\ n \in AllNames /\ q[t].ts \in Nat
  BY <1>1, Basics DEF Inv, QueriesOK
<1> HIDE DEF S
<1>3. QueriesOK' /\ \A u \in Threads : u # t => q'[u] = q[u]
  BY <1>1, <1>2, AfterIs
<1>4. q[t].pc # "idle"
  BY <1>1
<1>5. db' = IF Cached(db, q[t].name) THEN purge_cent(db, q[t].name, TRUE) ELSE db
  BY <1>1 DEF S
<1>6. QED BY <1>1, <1>3, <1>4, <1>5, PurgeKeeps

\* The invariant is kept by the purge of an entry that was found merged.
LEMMA MergedPurgeKeeps ==
  ASSUME Inv, NEW t \in Threads, LookupMergedPurge(t)
  PROVE  Inv'
<1>1. /\ up /\ q[t].pc # "idle" /\ now' = now /\ disk' = disk /\ up' = up
      /\ q' = [q EXCEPT ![t] = Idle]
      /\ db' = IF Cached(db, q[t].name) THEN purge_cent(db, q[t].name, TRUE) ELSE db
  BY DEF LookupMergedPurge, Writable
<1>2. Idle \in [pc : PCs, name : AllNames, ts : Nat] /\ Idle.pc = "idle"
  BY Basics DEF Idle, PCs
<1>3. QueriesOK' /\ \A u \in Threads : u # t => q'[u] = q[u]
  BY <1>1, <1>2, QueryStep DEF Inv
<1>4. QED BY <1>1, <1>3, PurgeKeeps

\* The invariant is kept when an answer is merged.  The entry may be left without
\* information: the thread is to look it up again.
LEMMA ResolveKeeps ==
  ASSUME Inv, NEW t \in Threads, p_dns_resolve(t)
  PROVE  Inv' /\ Evicts(db, db', q[t].name)
<1> DEFINE n == q[t].name
           r == [q[t] EXCEPT !.pc = "merged"]
<1>1. /\ up /\ q[t].pc = "resolve" /\ now' = now /\ disk' = disk /\ up' = up
      /\ q' = [q EXCEPT ![t].pc = "merged"]
  BY DEF p_dns_resolve, Writable
<1>2. /\ QueriesOK /\ q \in [Threads -> [pc : PCs, name : AllNames, ts : Nat]]
      /\ n \in Names /\ q[t].ts \in Nat /\ q[t] \in [pc : PCs, name : AllNames, ts : Nat]
  BY <1>1 DEF Inv, QueriesOK
<1>3. r \in [pc : PCs, name : AllNames, ts : Nat] /\ r.pc = "merged" /\ r.name = n
  BY <1>2 DEF PCs
<1>4. q' = [q EXCEPT ![t] = r]
  BY <1>1, <1>2
<1> HIDE DEF r
<1>5. QueriesOK' /\ q'[t] = r /\ \A u \in Threads : u # t => q'[u] = q[u]
  BY <1>2, <1>3, <1>4, QueryStep
<1>6. PICK cent \in Answer(q[t].ts) : db' = add_cache(db, n, cent)
  BY DEF p_dns_resolve
<1>7. Offered(cent)
  BY <1>2, AnswerOffered
<1>8. Sound(db) /\ Room(db)
  BY <1>1 DEF Inv, CacheOK
<1> HIDE DEF n
<1>9. /\ Sound(db') /\ Room(db') /\ Evicts(db, db', n)
      /\ \A m \in Names : m # n /\ Hollow(db', m) => Hollow(db, m)
  BY <1>2, <1>6, <1>7, <1>8, AddCacheIs
<1>10. HollowOK'
  <2>1. ASSUME NEW m \in Names, Hollow(db', m)
        PROVE  \E u \in Threads : q'[u].name = m /\ q'[u].pc \in {"merged", "repurge"}
    <3>1. CASE m = n
      BY <1>3, <1>5, <3>1
    <3>2. CASE m # n
      <4>1. PICK u \in Threads : q[u].name = m /\ q[u].pc \in {"merged", "repurge"}
        BY <1>9, <2>1, <3>2 DEF Inv, HollowOK
      <4>2. u # t
        BY <1>1, <4>1
      <4>3. QED BY <1>5, <4>1, <4>2
    <3>3. QED BY <3>1, <3>2
  <2>2. QED BY <2>1 DEF HollowOK
<1>11. CacheOK'
  BY <1>1, <1>9 DEF Inv, CacheOK
<1>12. now' \in Nat /\ DiskOK(disk')
  BY <1>1 DEF Inv
<1>13. Inv'
  BY <1>5, <1>10, <1>11, <1>12 DEF Inv
<1>14. QED BY <1>9, <1>13 DEF n

\* The invariant is kept when an additional record is merged, which leaves no entry
\* without information.
LEMMA AdditionalKeeps ==
  ASSUME Inv, NEW t \in Threads, AddAdditional(t)
  PROVE  Inv'
<1>1. up /\ now' = now /\ disk' = disk /\ up' = up /\ q' = q
  BY DEF AddAdditional, Writable
<1>2. PICK n \in AllNames, ttl \in TTLs : db' = add_cache(db, n, OneRRset("A", "add", q[t].ts, ttl))
  BY DEF AddAdditional
<1> DEFINE c == OneRRset("A", "add", q[t].ts, ttl)
<1>3. q[t].ts \in Nat
  BY DEF Inv, QueriesOK
<1>4. Offered(c) /\ ~c.neg /\ c.rr["A"].kind = "add" /\ c.rr["CNAME"].kind = "none"
  BY <1>3, AnswerOffered
<1>5. db' = add_cache(db, n, c)
  BY <1>2
<1> HIDE DEF c
<1>6. Sound(db) /\ Room(db)
  BY <1>1 DEF Inv, CacheOK
<1>7. Sound(db') /\ Room(db') /\ \A m \in Names : Hollow(db', m) => Hollow(db, m)
  <2>1. CASE n = LocalName
    BY <1>4, <1>5, <1>6, <2>1, AddLocal
  <2>2. CASE n \in Names
    BY <1>4, <1>5, <1>6, <2>2, AddCacheIs
  <2>3. QED BY <2>1, <2>2, Basics
<1>8. HollowOK'
  BY <1>1, <1>7 DEF Inv, HollowOK
<1>9. CacheOK'
  BY <1>1, <1>7 DEF Inv, CacheOK
<1>10. QueriesOK' /\ now' \in Nat /\ DiskOK(disk')
  BY <1>1 DEF Inv, QueriesOK
<1>11. QED BY <1>8, <1>9, <1>10 DEF Inv


\* The invariant is kept when the server fails: that query had not merged anything.
LEMMA FailedKeeps ==
  ASSUME Inv, NEW t \in Threads, ResolveFailed(t)
  PROVE  Inv'
<1>1. /\ up /\ q[t].pc = "resolve" /\ db' = db /\ now' = now /\ disk' = disk /\ up' = up
      /\ q' = [q EXCEPT ![t] = Idle]
  BY DEF ResolveFailed
<1>2. Idle \in [pc : PCs, name : AllNames, ts : Nat] /\ Idle.pc = "idle"
  BY Basics DEF Idle, PCs
<1>3. QueriesOK' /\ \A u \in Threads : u # t => q'[u] = q[u]
  BY <1>1, <1>2, QueryStep DEF Inv
<1>4. HollowOK'
  BY <1>1, <1>3 DEF Inv, HollowOK
<1>5. CacheOK'
  BY <1>1 DEF Inv, CacheOK
<1>6. QED BY <1>1, <1>3, <1>4, <1>5 DEF Inv

\* The invariant is kept when the merged entry is looked up: one without information
\* must be purged.
LEMMA MergedKeeps ==
  ASSUME Inv, NEW t \in Threads, LookupMerged(t)
  PROVE  Inv'
<1> DEFINE n == q[t].name
           r == IF MustPurge(db, n) THEN [q[t] EXCEPT !.pc = "repurge"] ELSE Idle
<1>1. /\ up /\ q[t].pc = "merged" /\ db' = db /\ now' = now /\ disk' = disk /\ up' = up
      /\ q' = [q EXCEPT ![t] = r]
  BY DEF LookupMerged
<1>2. QueriesOK /\ n \in Names /\ q[t] \in [pc : PCs, name : AllNames, ts : Nat]
  BY <1>1 DEF Inv, QueriesOK
<1>3. /\ r \in [pc : PCs, name : AllNames, ts : Nat] /\ (r.pc # "idle" => r.name \in Names)
      /\ MustPurge(db, n) => r.pc = "repurge" /\ r.name = n
  BY <1>2, Basics DEF PCs, Idle
<1> HIDE DEF r
<1>4. QueriesOK' /\ q'[t] = r /\ \A u \in Threads : u # t => q'[u] = q[u]
  BY <1>1, <1>2, <1>3, QueryStep
<1>5. Hollow(db, n) => MustPurge(db, n)
  <2> SUFFICES ASSUME Hollow(db, n) PROVE MustPurge(db, n)
    OBVIOUS
  <2>1. Cached(db, n)
    BY DEF Hollow
  <2>2. Sound(db)
    BY <1>1 DEF Inv, CacheOK
  <2> HIDE DEF n
  <2>3. ~Hollow(purge_cent(db, n, TRUE), n)
    BY <1>2, <2>1, <2>2, CentPurge
  <2>4. QED BY <2>1, <2>3 DEF MustPurge
<1>6. HollowOK'
  <2>1. ASSUME NEW m \in Names, Hollow(db, m)
        PROVE  \E u \in Threads : q'[u].name = m /\ q'[u].pc \in {"merged", "repurge"}
    <3>1. CASE m = n
      BY <1>3, <1>4, <1>5, <2>1, <3>1
    <3>2. CASE m # n
      <4>1. PICK u \in Threads : q[u].name = m /\ q[u].pc \in {"merged", "repurge"}
        BY <2>1 DEF Inv, HollowOK
      <4>2. u # t
        BY <3>2, <4>1
      <4>3. QED BY <1>4, <4>1, <4>2
    <3>3. QED BY <3>1, <3>2
  <2>2. QED BY <1>1, <2>1 DEF HollowOK
<1>7. CacheOK'
  BY <1>1 DEF Inv, CacheOK
<1>8. QED BY <1>1, <1>4, <1>6, <1>7 DEF Inv

\* The invariant is kept when pdnsd ends: nothing is left in memory.
LEMMA EndKeeps ==
  ASSUME Inv, Ends
  PROVE  Inv'
<1>1. up' = FALSE /\ db' = Empty /\ q' = [t \in Threads |-> Idle]
  BY DEF Ends
<1>2. Idle \in [pc : PCs, name : AllNames, ts : Nat] /\ Idle.pc = "idle"
  BY Basics DEF Idle, PCs
<1>3. QueriesOK'
  BY <1>1, <1>2 DEF QueriesOK
<1>4. \A n \in Names : ~Hollow(db', n)
  BY <1>1, EmptyIs, AbsentIs, Basics DEF Hollow, Cached
<1>5. HollowOK'
  BY <1>4 DEF HollowOK
<1>6. CacheOK'
  BY <1>1 DEF CacheOK
<1>7. now' \in Nat /\ DiskOK(disk')
  BY DEF Ends, Inv
<1>8. QED BY <1>3, <1>5, <1>6, <1>7 DEF Inv

\* The invariant is kept when the exit cuts the cache to its permanent size.
LEMMA PurgeForSaveKeeps ==
  ASSUME Inv, PurgeForSave
  PROVE  Inv'
<1> DEFINE P == purge_cache(db, PermSize, FALSE)
<1>1. up /\ up' = up /\ db' = P /\ q' = q /\ now' = now /\ disk' = disk
  BY DEF PurgeForSave
<1>2. Sound(db) /\ PermSize \in Nat /\ MCSZ \in Nat
  BY <1>1, CacheAssumption DEF Inv, CacheOK
<1>3. Purged(db, P) /\ (P.cache_size <= PermSize \/ P.rr_l = <<>>)
  BY <1>2, PurgeIs
<1> HIDE DEF P
<1>4. Sound(P) /\ \A n \in Names : Hollow(P, n) => Hollow(db, n)
  BY <1>3 DEF Purged
<1>5. P.cache_size \in Int
  BY <1>4, Fields DEF Sound, Core
<1>6. Room(P)
  BY <1>2, <1>3, <1>5 DEF Room
<1>7. CacheOK'
  BY <1>1, <1>4, <1>6 DEF CacheOK
<1>8. HollowOK'
  BY <1>1, <1>4 DEF Inv, HollowOK
<1>9. QueriesOK' /\ now' \in Nat /\ DiskOK(disk')
  BY <1>1 DEF Inv, QueriesOK
<1>10. QED BY <1>7, <1>8, <1>9 DEF Inv

\* The empty file is a part of any cache, and stays one as entries are written.
LEMMA NothingPart ==
  ASSUME NEW P
  PROVE  PartOf(Nothing, P)
BY DEF PartOf, Nothing

LEMMA WrittenPart ==
  ASSUME NEW P, NEW d, PartOf(d, P), NEW n \in Names, Savable(P.cache[n])
  PROVE  PartOf([d EXCEPT ![n] = P.cache[n]], P)
<1> DEFINE e == [d EXCEPT ![n] = P.cache[n]]
<1>1. DOMAIN d = Names
  BY DEF PartOf
<1>2. DOMAIN e = Names /\ e = [m \in Names |-> e[m]]
  BY <1>1
<1>3. \A m \in Names : e[m] = IF m = n THEN P.cache[n] ELSE d[m]
  BY <1>1
<1> HIDE DEF e
<1>4. \A m \in Names : e[m] = Absent \/ (e[m] = P.cache[m] /\ Savable(e[m]))
  BY <1>3 DEF PartOf
<1>5. PartOf(e, P)
  BY <1>2, <1>4 DEF PartOf
<1>6. QED BY <1>5 DEF e

\* The exit's writing of the file: it is a part of the cache at every moment of it,
\* and fits the running cache at every moment of all.
Filing ==
  /\ ~up => save = "no"
  /\ save = "writing" => PartOf(disk, db)
  /\ 3 <= PermSize + MCSZ => DiskFits(disk)

\* The invariant is kept when the file is opened and when an entry is written.
LEMMA WriteKeeps ==
  ASSUME Inv, Filing, OpenFile \/ \E n \in Names : WriteEntry(n)
  PROVE  Inv' /\ Filing'
<1>1. /\ up /\ up' = up /\ db' = db /\ q' = q /\ now' = now
      /\ save \in {"purged", "writing"} /\ save' = "writing"
  BY DEF OpenFile, WriteEntry
<1>2. PartOf(disk', db)
  <2>1. CASE OpenFile
    BY <2>1, NothingPart DEF OpenFile
  <2>2. ASSUME NEW n \in Names, WriteEntry(n) PROVE PartOf(disk', db)
    BY <2>2, WrittenPart DEF WriteEntry, Filing
  <2>3. QED BY <2>1, <2>2
<1>3. Sound(db) /\ Room(db)
  BY <1>1 DEF Inv, CacheOK
<1>4. DiskOK(disk') /\ (3 <= PermSize + MCSZ => DiskFits(disk'))
  BY <1>2, <1>3, SavedIs
<1>5. Inv'
  BY <1>1, <1>4 DEF Inv, QueriesOK, CacheOK, HollowOK
<1>6. Filing'
  BY <1>1, <1>2, <1>4 DEF Filing
<1>7. QED BY <1>5, <1>6

\* The invariant is kept when pdnsd reads the file, in any order; a file that fits
\* comes back as it is.
LEMMA ReadKeeps ==
  ASSUME Inv, read_disk_cache
  PROVE  /\ Inv'
         /\ DiskFits(disk) => /\ \A n \in Names : db'.cache[n] = disk[n]
                              /\ db'.cache_size <= PermSize + MCSZ
<1>1. up' = TRUE /\ now' = now /\ disk' = disk /\ q' = q
  BY DEF read_disk_cache
<1>2. PICK order \in SetToSeqs({n \in Names : Savable(disk[n])}) : db' = Restored(disk, order)
  BY DEF read_disk_cache, Restored
<1>3. DiskOK(disk)
  BY DEF Inv
<1>4. /\ Sound(db') /\ Room(db') /\ \A n \in Names : ~Hollow(db', n)
      /\ DiskFits(disk) => /\ \A n \in Names : db'.cache[n] = disk[n]
                           /\ db'.cache_size <= PermSize + MCSZ
  BY <1>2, <1>3, ReadIs
<1>5. HollowOK'
  BY <1>4 DEF HollowOK
<1>6. CacheOK'
  BY <1>1, <1>4 DEF CacheOK
<1>7. QueriesOK' /\ now' \in Nat /\ DiskOK(disk')
  BY <1>1 DEF Inv, QueriesOK
<1>8. Inv'
  BY <1>5, <1>6, <1>7 DEF Inv
<1>9. QED BY <1>4, <1>8

\* Steps that leave the cache and the queries alone.
LEMMA OthersKeep ==
  ASSUME Inv, Tick \/ UNCHANGED vars
  PROVE  Inv'
<1>1. CASE Tick
  <2>1. /\ db' = db /\ q' = q /\ disk' = disk /\ up' = up /\ now' \in Nat
    BY <1>1 DEF Tick, Inv
  <2>2. QED BY <2>1 DEF Inv, QueriesOK, CacheOK, HollowOK
<1>2. CASE UNCHANGED vars
  <2>1. /\ db' = db /\ q' = q /\ disk' = disk /\ up' = up /\ now' = now
    BY <1>2 DEF vars
  <2>2. QED BY <2>1 DEF Inv, QueriesOK, CacheOK, HollowOK
<1>3. QED BY <1>1, <1>2


\* The invariant holds at the start: only the configured entry is cached, and the
\* file, of which there is none yet, fits if that entry does.
LEMMA InitInv ==
  ASSUME Init
  PROVE  Inv /\ Filing
<1>1. /\ db = Configured /\ now = 1 /\ q = [t \in Threads |-> Idle] /\ disk = Nothing /\ up = TRUE
      /\ save = "no"
  BY DEF Init
<1>2. Idle \in [pc : PCs, name : AllNames, ts : Nat] /\ Idle.pc = "idle"
  BY Basics DEF Idle, PCs
<1>3. QueriesOK
  BY <1>1, <1>2 DEF QueriesOK
<1>4. CacheOK
  BY <1>1, ConfiguredIs DEF CacheOK
<1>5. HollowOK
  BY <1>1, ConfiguredIs, AbsentIs DEF HollowOK, Hollow, Cached
<1>6. DiskOK(disk)
  BY <1>1, AbsentIs DEF DiskOK, Nothing
<1>7. ASSUME 3 <= PermSize + MCSZ PROVE DiskFits(disk)
  <2>1. Configured.cache_size = SumCs(Full(Nothing), AllNames) /\ Configured.cache_size = 3
    BY ConfiguredIs DEF Sound
  <2>2. QED BY <1>1, <1>7, <2>1 DEF DiskFits
<1>8. Filing
  BY <1>1, <1>7 DEF Filing
<1>9. QED BY <1>1, <1>3, <1>4, <1>5, <1>6, <1>8 DEF Inv

\* The file while the exit writes it: nobody has write access then.
LEMMA FilingKept ==
  ASSUME Inv, Filing, [Next]_vars
  PROVE  Filing'
<1>1. ASSUME disk' = disk, up' = up, save' = save, save # "writing" \/ db' = db PROVE Filing'
  BY <1>1 DEF Filing
<1>2. ASSUME NEW t \in Threads, NEW n \in AllNames, lookup_cache(t, n) PROVE Filing'
  BY <1>1, <1>2 DEF lookup_cache
<1>3. ASSUME NEW t \in Threads,
             \/ lookup_cache_purge(t) \/ p_dns_resolve(t) \/ AddAdditional(t)
             \/ LookupMergedPurge(t)
      PROVE  Filing'
  BY <1>1, <1>3 DEF lookup_cache_purge, p_dns_resolve, AddAdditional, LookupMergedPurge, Writable
<1>4. ASSUME NEW t \in Threads, ResolveFailed(t) \/ LookupMerged(t) PROVE Filing'
  BY <1>1, <1>4 DEF ResolveFailed, LookupMerged
<1>5. CASE PurgeForSave
  BY <1>5 DEF PurgeForSave, Filing
<1>6. CASE OpenFile \/ \E n \in Names : WriteEntry(n)
  BY <1>6, WriteKeeps
<1>7. CASE Ends
  BY <1>7 DEF Ends, Filing
<1>8. CASE read_disk_cache
  <2>1. save = "no" /\ save' = save /\ disk' = disk /\ up'
    BY <1>8 DEF read_disk_cache, Filing
  <2>2. QED BY <2>1 DEF Filing
<1>9. CASE Tick \/ UNCHANGED vars
  BY <1>1, <1>9 DEF Tick, vars
<1>10. QED BY <1>2, <1>3, <1>4, <1>5, <1>6, <1>7, <1>8, <1>9 DEF Next

\* The invariant is inductive.
LEMMA NextInv ==
  ASSUME Inv, Filing, [Next]_vars
  PROVE  Inv' /\ Filing'
<1>1. ASSUME NEW t \in Threads, NEW n \in AllNames, lookup_cache(t, n) PROVE Inv'
  BY <1>1, LookupKeeps
<1>2. ASSUME NEW t \in Threads, lookup_cache_purge(t) PROVE Inv'
  BY <1>2, LookupPurgeKeeps
<1>3. ASSUME NEW t \in Threads, p_dns_resolve(t) PROVE Inv'
  BY <1>3, ResolveKeeps
<1>4. ASSUME NEW t \in Threads, AddAdditional(t) PROVE Inv'
  BY <1>4, AdditionalKeeps
<1>5. ASSUME NEW t \in Threads, ResolveFailed(t) PROVE Inv'
  BY <1>5, FailedKeeps
<1>6. ASSUME NEW t \in Threads, LookupMerged(t) PROVE Inv'
  BY <1>6, MergedKeeps
<1>7. ASSUME NEW t \in Threads, LookupMergedPurge(t) PROVE Inv'
  BY <1>7, MergedPurgeKeeps
<1>8. ASSUME PurgeForSave PROVE Inv'
  BY <1>8, PurgeForSaveKeeps
<1>9. ASSUME OpenFile \/ \E n \in Names : WriteEntry(n) PROVE Inv'
  BY <1>9, WriteKeeps
<1>10. ASSUME Ends PROVE Inv'
  BY <1>10, EndKeeps
<1>11. ASSUME read_disk_cache PROVE Inv'
  BY <1>11, ReadKeeps
<1>12. ASSUME Tick \/ UNCHANGED vars PROVE Inv'
  BY <1>12, OthersKeep
<1>13. Inv'
  BY <1>1, <1>2, <1>3, <1>4, <1>5, <1>6, <1>7, <1>8, <1>9, <1>10, <1>11, <1>12 DEF Next
<1>14. QED BY <1>13, FilingKept

\* Always.
LEMMA InvAlways == Spec => [](Inv /\ Filing)
<1>1. Init => Inv /\ Filing
  BY InitInv
<1>2. Inv /\ Filing /\ [Next]_vars => (Inv /\ Filing)'
  BY NextInv
<1>3. QED BY <1>1, <1>2, PTL DEF Spec

\* A sound cache keeps its books.
LEMMA BooksOK ==
  ASSUME NEW S, Sound(S), NEW n \in AllNames, Cached(S, n)
  PROVE  /\ S.cache[n].cs = TotalSize(S.cache[n].rr)
         /\ S.cache[n].num_rrs = Cardinality(Present(S.cache[n].rr))
<1>1. CASE n \in Names
  <2>1. Real(S.cache[n])
    BY <1>1, CachedReal DEF Sound, Core, Cached
  <2>2. QED BY <2>1, PresentCount DEF Real
<1>2. CASE n = LocalName
  <2>1. S.cache[n] = LocalEnt
    BY <1>2 DEF Sound, Core
  <2>2. LocalEnt.rr["A"].kind = "local" /\ LocalEnt.rr["CNAME"].kind = "none"
    BY DEF LocalEnt, Types, NoRR, RRset
  <2>3. TotalSize(LocalEnt.rr) = 3 /\ Count(LocalEnt.rr) = 1
    BY <2>2 DEF TotalSize, SizeOf, Count, Has
  <2>4. LocalEnt.cs = 3 /\ LocalEnt.num_rrs = 1
    BY DEF LocalEnt
  <2>5. QED BY <2>1, <2>3, <2>4, PresentCount
<1>3. QED BY <1>1, <1>2, Basics

\* The accounts follow from the invariant.
LEMMA InvAccounting ==
  ASSUME Inv
  PROVE  Accounting
<1>1. CASE up
  <2>1. Sound(db) /\ Room(db)
    BY <1>1 DEF Inv, CacheOK
  <2>2. QED BY <2>1, BooksOK DEF Accounting, Sound, Core, Room
<1>2. CASE ~up
  <2>1. db = Empty
    BY <1>2 DEF Inv, CacheOK
  <2>2. \A n \in AllNames : ~Cached(Empty, n)
    BY EmptyIs, AbsentIs DEF Cached
  <2>3. {n \in AllNames : Cached(Empty, n)} = {}
    BY <2>2
  <2>4. Empty.ent_num = Cardinality({n \in AllNames : Cached(Empty, n)})
    BY <2>3, EmptyIs, FS_EmptySet
  <2>5. QED BY <2>1, <2>2, <2>4, EmptyIs DEF Accounting
<1>3. QED BY <1>1, <1>2 DEF Inv, CacheOK


\* The list of a sound cache has the nodes as its elements, and as many.
LEMMA ListElements ==
  ASSUME NEW S, Sound(S)
  PROVE  ToSet(S.rr_l) = Nodes(S.cache) /\ Len(S.rr_l) = Cardinality(Nodes(S.cache))
<1> DEFINE l == S.rr_l
           N == Len(l)
           D == Nodes(S.cache)
<1>1. /\ N \in Nat /\ l \in Seq(NodeSet)
      /\ \A k \in 1..N : l[k] \in D
      /\ \A x \in D : \E k \in 1..N : l[k] = x
      /\ \A j, k \in 1..N : j < k => l[j] # l[k]
  BY ListNodes, Fields
<1>2. DOMAIN l = 1..N /\ l \in [1..N -> NodeSet]
  BY <1>1
<1> HIDE DEF D, l
<1>3. l \in [1..N -> D]
  BY <1>1, <1>2
<1> HIDE DEF N
<1>4. ToSet(l) = D
  <2>1. ToSet(l) = {l[k] : k \in 1..N}
    BY <1>2 DEF ToSet
  <2>2. QED BY <1>1, <2>1
<1>5. l \in Surjection(1..N, D)
  BY <1>1, <1>3 DEF Surjection
<1>6. \A j, k \in 1..N : l[j] = l[k] => j = k
  <2>1. \A j, k \in 1..N : j < k \/ k < j \/ j = k
    BY <1>1
  <2>2. QED BY <1>1, <2>1
<1>7. l \in Injection(1..N, D)
  BY <1>3, <1>6 DEF Injection, IsInjective
<1>8. IsFiniteSet(1..N) /\ Cardinality(1..N) = N
  BY <1>1, FS_Interval
<1>9. Cardinality(D) = N
  BY <1>5, <1>7, <1>8, FS_Surjection
<1>10. QED BY <1>4, <1>9 DEF D, N, l

\* So does ListExact.
LEMMA InvListExact ==
  ASSUME Inv
  PROVE  ListExact
<1>1. CASE up
  <2>1. Sound(db)
    BY <1>1 DEF Inv, CacheOK
  <2>2. ASSUME NEW k \in 1..(Len(db.rr_l) - 1)
        PROVE  NodeTs(db.cache, db.rr_l[k]) <= NodeTs(db.cache, db.rr_l[k + 1])
    <3>1. Len(db.rr_l) \in Nat
      BY <2>1, ListNodes
    <3>2. k \in 1..Len(db.rr_l) /\ k + 1 \in 1..Len(db.rr_l) /\ k < k + 1
      BY <3>1
    <3>3. QED BY <2>1, <3>2, ListNodes
  <2>3. QED BY <2>1, <2>2, ListElements DEF ListExact
<1>2. CASE ~up
  <2>1. db = Empty
    BY <1>2 DEF Inv, CacheOK
  <2>2. db.rr_l = <<>> /\ Nodes(db.cache) = {}
    BY <2>1, EmptyIs
  <2>3. ToSet(db.rr_l) = {} /\ Len(db.rr_l) = 0
    BY <2>2 DEF ToSet
  <2>4. QED BY <2>2, <2>3, FS_EmptySet DEF ListExact
<1>3. QED BY <1>1, <1>2 DEF Inv, CacheOK

\* No entry of a sound cache has records of both types.
LEMMA Exclusive ==
  ASSUME NEW S, Sound(S), NEW n \in AllNames
  PROVE  ~(Records(S.cache[n].rr["A"]) /\ Records(S.cache[n].rr["CNAME"]))
<1>1. NoRRs["A"] = NoRR /\ ~Records(NoRR)
  BY DEF NoRRs, NoRR, Records, Types
<1>2. CASE n \in Names
  BY <1>1, <1>2, AbsentIs DEF Sound, Core, EntOK, Real
<1>3. CASE n = LocalName
  <2>1. S.cache[n] = LocalEnt
    BY <1>3 DEF Sound, Core
  <2>2. LocalEnt.rr["CNAME"] = NoRR
    BY DEF LocalEnt, Types
  <2>3. QED BY <1>1, <2>1, <2>2
<1>4. QED BY <1>2, <1>3, Basics

\* So does EntriesSound.
LEMMA InvEntriesSound ==
  ASSUME Inv
  PROVE  EntriesSound
<1>1. ASSUME NEW n \in Names, Cached(db, n), Dispensable(db, n), ~db.cache[n].neg
      PROVE  \E t \in Threads : q[t].name = n /\ q[t].pc \in {"merged", "repurge"}
  <2>1. Hollow(db, n)
    BY <1>1 DEF Dispensable, Hollow
  <2>2. QED BY <2>1 DEF Inv, HollowOK
<1>2. ASSUME NEW n \in AllNames
      PROVE  ~(Records(db.cache[n].rr["A"]) /\ Records(db.cache[n].rr["CNAME"]))
  <2>1. CASE up
    BY <2>1, Exclusive DEF Inv, CacheOK
  <2>2. CASE ~up
    <3>1. db.cache[n] = Absent
      BY <2>2, EmptyIs DEF Inv, CacheOK
    <3>2. Absent.rr["A"] = NoRR
      BY AbsentIs DEF NoRRs, Types
    <3>3. QED BY <3>1, <3>2 DEF Records, NoRR
  <2>3. QED BY <2>1, <2>2 DEF Inv, CacheOK
<1>3. ASSUME NEW n \in AllNames
      PROVE  {i \in Types : db.cache[n].rr[i].kind \in {"ans", "add", "local"}} # Types
  BY <1>2 DEF Records, Types
<1>4. QED BY <1>1, <1>3 DEF EntriesSound

\* Only an answer takes a query from the server to its merged entry.
LEMMA OnlyResolve ==
  ASSUME Inv, [Next]_vars, NEW t \in Threads, q[t].pc = "resolve", q'[t].pc = "merged"
  PROVE  p_dns_resolve(t)
<1>1. q \in [Threads -> [pc : PCs, name : AllNames, ts : Nat]] /\ q'[t] # q[t] /\ Idle.pc = "idle"
  BY DEF Inv, QueriesOK, Idle
<1>2. ASSUME NEW u \in Threads, NEW n \in AllNames, lookup_cache(u, n) PROVE FALSE
  <2>1. q[u].pc = "idle" /\ \E r : q' = [q EXCEPT ![u] = r]
    BY <1>2 DEF lookup_cache, After
  <2>2. QED BY <1>1, <2>1
<1>3. ASSUME NEW u \in Threads, lookup_cache_purge(u) PROVE FALSE
  <2>1. q[u].pc = "purge" /\ \E r : q' = [q EXCEPT ![u] = r]
    BY <1>3 DEF lookup_cache_purge, After
  <2>2. QED BY <1>1, <2>1
<1>4. ASSUME NEW u \in Threads, p_dns_resolve(u) PROVE u = t
  <2>1. q' = [q EXCEPT ![u].pc = "merged"]
    BY <1>4 DEF p_dns_resolve
  <2>2. QED BY <1>1, <2>1
<1>5. ASSUME NEW u \in Threads, AddAdditional(u) PROVE FALSE
  BY <1>1, <1>5 DEF AddAdditional
<1>6. ASSUME NEW u \in Threads, ResolveFailed(u) \/ LookupMergedPurge(u) PROVE FALSE
  <2>1. q' = [q EXCEPT ![u] = Idle]
    BY <1>6 DEF ResolveFailed, LookupMergedPurge
  <2>2. QED BY <1>1, <2>1
<1>7. ASSUME NEW u \in Threads, LookupMerged(u) PROVE FALSE
  <2>1. q[u].pc = "merged" /\ \E r : q' = [q EXCEPT ![u] = r]
    BY <1>7 DEF LookupMerged
  <2>2. QED BY <1>1, <2>1
<1>8. CASE Ends
  <2>1. q' = [u \in Threads |-> Idle]
    BY <1>8 DEF Ends
  <2>2. QED BY <1>1, <2>1
<1>9. CASE \/ PurgeForSave \/ OpenFile \/ \E n \in Names : WriteEntry(n)
           \/ read_disk_cache \/ Tick \/ UNCHANGED vars
  BY <1>1, <1>9 DEF PurgeForSave, OpenFile, WriteEntry, read_disk_cache, Tick, vars
<1>10. QED BY <1>2, <1>3, <1>4, <1>5, <1>6, <1>7, <1>8, <1>9 DEF Next


\* An answer that is merged evicts the oldest.
LEMMA StepEvicts ==
  ASSUME Inv, Filing, [Next]_vars, NEW t \in Threads,
         q[t].pc = "resolve", q'[t].pc = "merged",
         NEW k \in DOMAIN db.rr_l, db.rr_l[k][1] # q[t].name,
         db.rr_l[k] \notin ToSet(db'.rr_l), ~timedout(Record(db.cache, db.rr_l[k])),
         NEW m \in ToSet(db'.rr_l)
  PROVE  NodeTs(db.cache, db.rr_l[k]) <= NodeTs(db'.cache, m)
<1>1. p_dns_resolve(t)
  BY OnlyResolve
<1>2. Inv' /\ Evicts(db, db', q[t].name)
  BY <1>1, ResolveKeeps
<1>3. up /\ up' = up
  BY <1>1 DEF p_dns_resolve, Writable
<1>4. Sound(db) /\ Sound(db')
  BY <1>2, <1>3 DEF Inv, CacheOK
<1> DEFINE x == db.rr_l[k]
<1>5. db.rr_l \in Seq(NodeSet) /\ k \in 1..Len(db.rr_l)
  BY <1>4, ListNodes, Fields
<1>6. x \in Nodes(db.cache)
  BY <1>4, <1>5, ListNodes
<1>7. ToSet(db'.rr_l) = Nodes(db'.cache)
  BY <1>4, ListElements
<1>8. x \notin Nodes(db'.cache) /\ m \in Nodes(db'.cache)
  BY <1>7
<1>9. x[1] # q[t].name /\ ~timedout(Record(db.cache, x))
  OBVIOUS
<1> HIDE DEF x
<1>10. NodeTs(db.cache, x) <= NodeTs(db'.cache, m)
  BY <1>2, <1>6, <1>8, <1>9 DEF Evicts
<1>11. QED BY <1>10 DEF x

\* Only reading the file starts pdnsd.
LEMMA OnlyRead ==
  ASSUME [Next]_vars, ~up, up'
  PROVE  read_disk_cache
<1>1. \A t \in Threads, n \in AllNames : ~lookup_cache(t, n)
  BY DEF lookup_cache
<1>2. \A t \in Threads :
         ~(\/ lookup_cache_purge(t) \/ p_dns_resolve(t) \/ AddAdditional(t)
           \/ ResolveFailed(t) \/ LookupMerged(t) \/ LookupMergedPurge(t))
  BY DEF lookup_cache_purge, p_dns_resolve, AddAdditional, ResolveFailed, LookupMerged,
         LookupMergedPurge, Writable
<1>3. ~PurgeForSave /\ ~OpenFile /\ ~Ends /\ \A n \in Names : ~WriteEntry(n)
  BY DEF PurgeForSave, OpenFile, Ends, WriteEntry
<1>4. ~Tick /\ ~UNCHANGED vars
  BY DEF Tick, vars
<1>5. QED BY <1>1, <1>2, <1>3, <1>4 DEF Next

-----------------------------------------------------------------------------
(* The theorems.                                                           *)

(* The books agree in every reachable state: what add_cache, the merging   *)
(* of rrsets, cr_check_add, both passes of purge_cache and the reading of  *)
(* the file carry along in cache_size, ent_num, cs and num_rrs is what the *)
(* cache holds, and the size is within its limit unless nothing is left to *)
(* purge.                                                                  *)
THEOREM AccountingAlways == Spec => []Accounting
<1>1. Inv => Accounting
  BY InvAccounting
<1>2. QED BY <1>1, InvAlways, PTL

(* rr_l names exactly the rrsets and negations that may be purged, each    *)
(* once and oldest first, through insert_rrl, remove_rrl and the walks     *)
(* that remove nodes from the list they follow.                            *)
THEOREM ListExactAlways == Spec => []ListExact
<1>1. Inv => ListExact
  BY InvListExact
<1>2. QED BY <1>1, InvAlways, PTL

(* An entry without information, which purge_cache could not find, exists  *)
(* only while a query is about to look it up and remove it; and no entry   *)
(* has records of types that exclude each other.                           *)
THEOREM EntriesSoundAlways == Spec => []EntriesSound
<1>1. Inv => EntriesSound
  BY InvEntriesSound
<1>2. QED BY <1>1, InvAlways, PTL

(* What merging an answer evicts of other names before its time is no      *)
(* newer than anything it leaves.                                          *)
THEOREM EvictsOldestAlways == Spec => EvictsOldest
<1> DEFINE Evicted(t) ==
      q[t].pc = "resolve" /\ q'[t].pc = "merged" =>
          \A k \in DOMAIN db.rr_l :
             LET node == db.rr_l[k]
                 r == IF node[2] = NEG THEN db.cache[node[1]] ELSE db.cache[node[1]].rr[node[2]]
             IN  node[1] # q[t].name /\ node \notin ToSet(db'.rr_l) /\ ~timedout(r) =>
                    \A m \in ToSet(db'.rr_l) : NodeTs(db.cache, node) <= NodeTs(db'.cache, m)
<1>1. Inv /\ Filing /\ [Next]_vars => \A t \in Threads : Evicted(t)
  BY StepEvicts DEF Record
<1>2. Inv /\ Filing /\ [Next]_vars => [\A t \in Threads : Evicted(t)]_vars
  BY <1>1
<1>3. QED BY <1>2, InvAlways, PTL DEF Spec, EvictsOldest

(* Whatever part of the file the exit has written, each entry in it is     *)
(* what the cache holds: write_disk_cache reads the entries with the lock  *)
(* that keeps every answer thread from changing them.                      *)
THEOREM FileOfOneMomentAlways == Spec => []FileOfOneMoment
<1>1. Filing => FileOfOneMoment
  BY DEF Filing, PartOf, FileOfOneMoment
<1>2. QED BY <1>1, InvAlways, PTL

(* A restart brings back every entry of the file, whatever order the file  *)
(* is read in, and wherever a kill or an error ended its writing, if the   *)
(* entry of the configuration file, 3 units, fits the running cache, which *)
(* that entry alone would exceed otherwise.                                *)
THEOREM RestoredExactlyAlways ==
  ASSUME 3 <= PermSize + MCSZ
  PROVE  Spec => RestoredExactly
<1>1. Inv /\ Filing /\ [Next]_vars =>
         [~up /\ up' => \A n \in Names : db'.cache[n] = disk[n]]_vars
  BY OnlyRead, ReadKeeps DEF Filing
<1>2. QED BY <1>1, InvAlways, PTL DEF Spec, RestoredExactly

=============================================================================
