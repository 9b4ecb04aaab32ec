------------------------------ MODULE DnsCache ------------------------------
(***************************************************************************)
(* pdnsd's cache (cache.c) and the queries that use it (dns_query.c): the  *)
(* entries by name, the list rr_l of everything that may be purged, oldest *)
(* first, the size accounts, and the file the cache is saved to at exit.   *)
(*                                                                         *)
(* The lock (CacheLock) makes each critical section one step; what a query *)
(* saw in one section may be gone in its next.  Record data is left out:   *)
(* an rrset is its age, its ttl and where it came from, its size is one    *)
(* unit, two with records in it.  The references c_ns and c_soa and the    *)
(* array of rare types are left out.                                       *)
(***************************************************************************)
EXTENDS Integers, FiniteSets, SequencesExt

CONSTANTS
    Names,              \* names the app asks for
    LocalName,          \* the name defined in pdnsd.conf
    Threads,            \* answer threads
    TTLs,               \* ttls the server sends
    min_ttl, max_ttl, neg_ttl, CACHE_LAT,
    PermSize,           \* perm_cache, in units
    MCSZ,               \* slack the running cache is allowed
    PurgeOptions,       \* values of the server option purge_cache (off in the app)
    MaxTime             \* bound: clock

ASSUME CacheAssumption ==
    /\ IsFiniteSet(Names) /\ LocalName \notin Names /\ TTLs \subseteq Nat
    /\ min_ttl \in Nat /\ max_ttl \in Nat /\ min_ttl <= max_ttl
    /\ neg_ttl \in Nat /\ CACHE_LAT \in Nat
    /\ PermSize \in Nat /\ MCSZ \in Nat /\ MaxTime \in Nat

VARIABLES
    db,         \* [cache, rr_l, cache_size, ent_num]
    now,        \* time(NULL)
    q,          \* what each answer thread is doing
    disk,       \* the cache file, as far as it can be read back
    up,         \* pdnsd is running
    save,       \* how far the exit has saved the cache
    purge_opt   \* purge_cache of the server this pdnsd was started with

vars == <<db, now, q, disk, up, save, purge_opt>>

AllNames == Names \cup {LocalName}
Types == {"A", "CNAME"}         \* they exclude each other
Other(i) == IF i = "A" THEN "CNAME" ELSE "A"
NEG == "NEG"                    \* node of a negatively cached domain

NoRR == [kind |-> "none", ts |-> 0, ttl |-> 0]
RRset(kind, ts, ttl) == [kind |-> kind, ts |-> ts, ttl |-> ttl]
NoRRs == [i \in Types |-> NoRR]

Has(rr, i) == rr[i].kind # "none"
Present(rr) == {i \in Types : Has(rr, i)}
SizeOf(rrset) == IF rrset.kind = "none" THEN 0 ELSE IF rrset.kind = "neg" THEN 1 ELSE 2
TotalSize(rr) == 1 + SizeOf(rr["A"]) + SizeOf(rr["CNAME"])

(* A dns_cent_t: DF_NEGATIVE with its ts and ttl, or rrsets.  An absent     *)
(* name has size 0.                                                         *)
Cent(neg, ts, ttl, rr) ==
    [neg |-> neg, ts |-> ts, ttl |-> ttl, rr |-> rr,
     cs |-> TotalSize(rr), num_rrs |-> Cardinality(Present(rr))]
OneRRset(i, kind, ts, ttl) == Cent(FALSE, 0, 0, [NoRRs EXCEPT ![i] = RRset(kind, ts, ttl)])
Absent == [neg |-> FALSE, ts |-> 0, ttl |-> 0, rr |-> NoRRs, cs |-> 0, num_rrs |-> 0]

Cached(S, n) == S.cache[n].cs > 0
-----------------------------------------------------------------------------
CLAT_ADJ(ttl) == IF ttl < CACHE_LAT THEN CACHE_LAT ELSE ttl
Expiry(r) == r.ts + CLAT_ADJ(r.ttl)
timedout(r) == Expiry(r) < now

Clamp(ttl, low) == IF ttl < low THEN low ELSE IF ttl > max_ttl THEN max_ttl ELSE ttl
LowTTL(neg) == IF neg /\ neg_ttl < min_ttl THEN neg_ttl ELSE min_ttl
adjust_ttl(r) == [r EXCEPT !.ttl = Clamp(@, LowTTL(r.kind = "neg"))]
adjust_dom_ttl(ce) == [ce EXCEPT !.ttl = Clamp(@, LowTTL(TRUE))]
-----------------------------------------------------------------------------
(* The list rr_l: nodes <<name, type>>, in order of their time stamps.     *)
NodeTs(cache, node) ==
    IF node[2] = NEG THEN cache[node[1]].ts ELSE cache[node[1]].rr[node[2]].ts

(* The place behind the last node that is not newer. *)
Place(S, node) ==
    Max({k \in DOMAIN S.rr_l : NodeTs(S.cache, node) >= NodeTs(S.cache, S.rr_l[k])}
        \cup {0}) + 1

insert_rrl(S, n, i) ==
    IF n = LocalName THEN S
    ELSE [S EXCEPT !.rr_l = InsertAt(@, Place(S, <<n, i>>), <<n, i>>)]

remove_rrl(S, n, i) == [S EXCEPT !.rr_l = RemoveFirst(@, <<n, i>>)]

(* What an entry loses with an rrset, and gains with one. *)
Without(ce, i) == [ce EXCEPT !.rr[i] = NoRR, !.num_rrs = @ - 1,
                             !.cs = @ - SizeOf(ce.rr[i])]
With(ce, i, rrs) == [ce EXCEPT !.neg = FALSE, !.rr[i] = rrs, !.num_rrs = @ + 1,
                               !.cs = @ + SizeOf(rrs)]

del_cent_rrset_by_index(S, n, i) ==
    IF ~Has(S.cache[n].rr, i) THEN S
    ELSE [remove_rrl(S, n, i) EXCEPT !.cache[n] = Without(@, i)]

\* Mutant of DropRRset: the caller forgets cache_size.
DropRRsetKeepsSize(S, n, i) == del_cent_rrset_by_index(S, n, i)

(* The same where the caller keeps cache_size. *)
DropRRset(S, n, i) ==
    LET D == del_cent_rrset_by_index(S, n, i) IN
    [D EXCEPT !.cache_size = @ - (S.cache[n].cs - D.cache[n].cs)]

del_cache_ent(S, n) ==
    [remove_rrl(remove_rrl(remove_rrl(S, n, "A"), n, "CNAME"), n, NEG)
        EXCEPT !.cache[n] = Absent, !.cache_size = @ - S.cache[n].cs, !.ent_num = @ - 1]

\* Mutant of add_cent_rrset_by_index: the node of the negation stays listed.
add_cent_rrset_by_indexKeepsNode(S, n, i, rrs) ==
    [S EXCEPT !.cache[n] = With(@, i, rrs)]

(* An rrset added to a negatively cached domain ends the negation. *)
add_cent_rrset_by_index(S, n, i, rrs) ==
    LET T == IF S.cache[n].neg THEN remove_rrl(S, n, NEG) ELSE S IN
    [T EXCEPT !.cache[n] = With(@, i, rrs)]
-----------------------------------------------------------------------------
(* Purging.  Without purge_cache the server's records carry CF_NOPURGE.    *)
MustGo(S, n, i) ==
    /\ Has(S.cache[n].rr, i) /\ purge_opt
    /\ S.cache[n].rr[i].kind # "local" /\ timedout(S.cache[n].rr[i])

purge_rrset(S, n, i) == IF MustGo(S, n, i) THEN DropRRset(S, n, i) ELSE S

purge_all_rrsets(S, n) ==
    IF S.cache[n].neg THEN S
    ELSE purge_rrset(purge_rrset(S, n, "A"), n, "CNAME")

Dispensable(S, n) ==
    /\ S.cache[n].num_rrs = 0
    /\ ~S.cache[n].neg \/ (n # LocalName /\ timedout(S.cache[n]))

purge_cent(S, n, delete) ==
    LET P == purge_all_rrsets(S, n) IN
    IF delete /\ Dispensable(P, n) THEN del_cache_ent(P, n) ELSE P

(* First timed-out records, then, if that is not enough, the oldest. *)
PurgeTimedOut(S, node) ==
    LET n == node[1]
        P == IF node[2] = NEG THEN S ELSE purge_rrset(S, n, node[2])
    IN  IF Dispensable(P, n) THEN del_cache_ent(P, n) ELSE P

PurgeOldest(S, node) ==
    LET n == node[1]
        P == IF node[2] = NEG THEN S ELSE DropRRset(S, n, node[2])
    IN  IF P.cache[n].num_rrs = 0 THEN del_cache_ent(P, n) ELSE P

(* A walk over the nodes in the list when it begins, until there is room.  *)
Walk(S, nodes, enough(_), purge(_, _)) ==
    LET T[k \in 0..Len(nodes)] ==
            IF k = 0 THEN S
            ELSE LET U == T[k - 1] IN IF enough(U) THEN U ELSE purge(U, nodes[k])
    IN  T[Len(nodes)]

\* Mutant of purge_cache: for space, the newest goes first.
purge_cacheNewest(S, sz, lazy) ==
    LET P == Walk(S, S.rr_l, LAMBDA T : lazy /\ T.cache_size <= sz, PurgeTimedOut)
    IN  Walk(P, Reverse(P.rr_l), LAMBDA T : T.cache_size <= sz, PurgeOldest)

purge_cache(S, sz, lazy) ==
    LET P == Walk(S, S.rr_l, LAMBDA T : lazy /\ T.cache_size <= sz, PurgeTimedOut)
    IN  Walk(P, P.rr_l, LAMBDA T : T.cache_size <= sz, PurgeOldest)
-----------------------------------------------------------------------------
(* Adding an entry.  The other type excludes i if it has records.          *)
Conflicts(S, n, i) == S.cache[n].rr[Other(i)].kind \notin {"none", "neg"}

RestTTL(r) == IF r.ttl + r.ts > now THEN r.ttl + r.ts - now ELSE 0

(* What cr_check_add returns. *)
MayAdd(S, n, i, rrs) ==
    \/ rrs.kind \in {"neg", "local"}
    \/ n # LocalName /\ (Conflicts(S, n, i) => rrs.ttl > RestTTL(S.cache[n].rr[Other(i)]))

\* Mutant of cr_check_add: conflicting rrsets are not looked for.
cr_check_addNone(S, n, i, rrs) == S

(* What it removes for an rrset that may be added. *)
cr_check_add(S, n, i, rrs) ==
    IF rrs.kind = "neg" \/ ~Conflicts(S, n, i) THEN S
    ELSE del_cent_rrset_by_index(S, n, Other(i))

Precedes(old, new) ==
    \/ old.kind = "local" /\ new.kind # "local"
    \/ new.kind = "add" /\ old.kind \notin {"none", "add"} /\ ~timedout(old)

MergeRRset(S, n, i, rrs) ==
    IF rrs.kind = "none" \/ Precedes(S.cache[n].rr[i], rrs) THEN S
    ELSE LET D == del_cent_rrset_by_index(S, n, i) IN
         IF ~MayAdd(D, n, i, rrs) THEN D
         ELSE insert_rrl(add_cent_rrset_by_index(cr_check_add(D, n, i, rrs), n, i,
                                                 adjust_ttl(rrs)), n, i)

InsertRRset(S, n, i) == IF Has(S.cache[n].rr, i) THEN insert_rrl(S, n, i) ELSE S

(* The entry as it is stored. *)
Adjusted(cent) ==
    IF cent.neg THEN adjust_dom_ttl(cent)
    ELSE [cent EXCEPT !.rr = [i \in Types |-> IF Has(cent.rr, i) THEN adjust_ttl(cent.rr[i])
                                              ELSE NoRR]]

NewEntry(S, n, cent) ==
    LET T == [S EXCEPT !.cache[n] = Adjusted(cent), !.ent_num = @ + 1,
                       !.cache_size = @ + cent.cs]
    IN  IF cent.neg THEN insert_rrl(T, n, NEG)
        ELSE InsertRRset(InsertRRset(T, n, "A"), n, "CNAME")

Merge(S, n, cent) ==
    LET P == purge_cent(S, n, FALSE)
        W == [P EXCEPT !.cache_size = @ - P.cache[n].cs]
        M == MergeRRset(MergeRRset(W, n, "A", cent.rr["A"]), n, "CNAME", cent.rr["CNAME"])
    IN  [M EXCEPT !.cache_size = @ + M.cache[n].cs]

HasLocal(S, n) == \E i \in Types : S.cache[n].rr[i].kind = "local"

add_cache(S, n, cent) ==
    LET empty == cent.num_rrs = 0 /\ ~cent.neg
        fits(T) == purge_cache(T, PermSize + MCSZ, TRUE)
    IN  CASE ~Cached(S, n) /\ empty -> fits(S)
          [] ~Cached(S, n) /\ ~empty -> fits(NewEntry(S, n, cent))
          [] Cached(S, n) /\ cent.neg /\ HasLocal(S, n) -> S
          [] Cached(S, n) /\ cent.neg /\ ~HasLocal(S, n) ->
                 fits(NewEntry(del_cache_ent(S, n), n, cent))
          [] Cached(S, n) /\ ~cent.neg -> fits(Merge(S, n, cent))
-----------------------------------------------------------------------------
(* Queries.  A query asks for type A, as the app's resolver does, at q.ts. *)
Idle == [pc |-> "idle", name |-> LocalName, ts |-> 0]

Empty == [cache |-> [n \in AllNames |-> Absent], rr_l |-> <<>>,
          cache_size |-> 0, ent_num |-> 0]

(* The configuration file has been read, the cache file not. *)
Configured == NewEntry(Empty, LocalName, OneRRset("A", "local", 0, max_ttl))

Nothing == [n \in Names |-> Absent]

Init ==
    /\ db = Configured /\ now = 1 /\ q = [t \in Threads |-> Idle]
    /\ disk = Nothing /\ up = TRUE /\ save = "no" /\ purge_opt \in PurgeOptions

\* Mutant of Writable: the exit writes the file without the lock.
WritableAlways == up

(* Write access: nobody has it while the exit writes the file. *)
Writable == up /\ save # "writing"

(* lookup_cache_status: the entry answers the query without a new one. *)
Fresh(ce, ts) ==
    \/ ce.neg /\ Expiry(ce) >= ts
    \/ /\ ~ce.neg
       /\ LET i == IF ce.rr["CNAME"].kind \notin {"none", "neg"} THEN "CNAME" ELSE "A"
          IN  Has(ce.rr, i) /\ Expiry(ce.rr[i]) >= ts

Answers(S, n, ts) == n = LocalName \/ (Cached(S, n) /\ Fresh(S.cache[n], ts))

After(S, t, n, ts) ==
    q' = [q EXCEPT ![t] = IF Answers(S, n, ts) THEN Idle
                          ELSE [pc |-> "resolve", name |-> n, ts |-> ts]]

MustPurge(S, n) == Cached(S, n) /\ purge_cent(S, n, TRUE) # S

(* The first half of lookup_cache, with read access. *)
lookup_cache(t, n) ==
    /\ up /\ q[t].pc = "idle"
    /\ IF MustPurge(db, n)
       THEN q' = [q EXCEPT ![t] = [pc |-> "purge", name |-> n, ts |-> now]]
       ELSE After(db, t, n, now)
    /\ UNCHANGED <<db, now, disk, up, save, purge_opt>>

(* The second half: the name is looked up again with write access. *)
lookup_cache_purge(t) ==
    LET n == q[t].name
        S == IF Cached(db, n) THEN purge_cent(db, n, TRUE) ELSE db
    IN  /\ Writable /\ q[t].pc = "purge"
        /\ db' = S /\ After(S, t, n, q[t].ts)
        /\ UNCHANGED <<now, disk, up, save, purge_opt>>

(* What an answer may hold for the name asked: address, alias, a negative  *)
(* answer for the type or for the domain, or nothing worth caching.        *)
Answer(ts) ==
    {Cent(FALSE, 0, 0, NoRRs), Cent(TRUE, ts, neg_ttl, NoRRs)} \cup
    {OneRRset(i, "ans", ts, ttl) : i \in Types, ttl \in TTLs} \cup
    {OneRRset("A", "neg", ts, neg_ttl)}

(* p_dns_resolve: the server answered. *)
p_dns_resolve(t) ==
    /\ Writable /\ q[t].pc = "resolve"
    /\ \E cent \in Answer(q[t].ts) : db' = add_cache(db, q[t].name, cent)
    /\ q' = [q EXCEPT ![t].pc = "merged"]
    /\ UNCHANGED <<now, disk, up, save, purge_opt>>

(* The additional records of an answer, for any name. *)
AddAdditional(t) ==
    /\ Writable /\ q[t].pc = "resolve"
    /\ \E n \in AllNames, ttl \in TTLs :
          db' = add_cache(db, n, OneRRset("A", "add", q[t].ts, ttl))
    /\ UNCHANGED <<now, q, disk, up, save, purge_opt>>

(* The server failed, or denies the name without authority. *)
ResolveFailed(t) ==
    /\ up /\ q[t].pc = "resolve"
    /\ q' = [q EXCEPT ![t] = Idle]
    /\ UNCHANGED <<db, now, disk, up, save, purge_opt>>

(* The merged entry is looked up; the query is answered whatever is found. *)
LookupMerged(t) ==
    /\ up /\ q[t].pc = "merged"
    /\ q' = [q EXCEPT ![t] = IF MustPurge(db, q[t].name)
                             THEN [q[t] EXCEPT !.pc = "repurge"] ELSE Idle]
    /\ UNCHANGED <<db, now, disk, up, save, purge_opt>>

LookupMergedPurge(t) ==
    /\ Writable /\ q[t].pc = "repurge"
    /\ db' = IF Cached(db, q[t].name) THEN purge_cent(db, q[t].name, TRUE) ELSE db
    /\ q' = [q EXCEPT ![t] = Idle]
    /\ UNCHANGED <<now, disk, up, save, purge_opt>>
-----------------------------------------------------------------------------
(* Exit and restart.  The answer threads go on while the exit saves the     *)
(* cache: with the lock free between the purge and the writing, they add to *)
(* what was purged.  Local records are not written.                         *)
\* Mutant of Savable: entries without records are written as well.
SavableHollow(ce) == ce.cs > 0

Savable(ce) == ce.cs > 0 /\ (ce.neg \/ Present(ce.rr) # {})

PurgeForSave ==
    /\ up /\ save = "no" /\ save' = "purged"
    /\ db' = purge_cache(db, PermSize, FALSE)
    /\ UNCHANGED <<now, q, disk, up, purge_opt>>

(* Read access, and fopen with "w": nothing is left of the older file. *)
OpenFile ==
    /\ up /\ save = "purged" /\ save' = "writing" /\ disk' = Nothing
    /\ UNCHANGED <<db, now, q, up, purge_opt>>

(* The next entry in the order of the hash, which may be any. *)
WriteEntry(n) ==
    /\ up /\ save = "writing" /\ Savable(db.cache[n]) /\ disk[n] = Absent
    /\ disk' = [disk EXCEPT ![n] = db.cache[n]]
    /\ UNCHANGED <<db, now, q, up, save, purge_opt>>

(* pdnsd ends: the file is complete, a soft lock, fopen or fwrite failed,   *)
(* or it was killed.  The file stays as it is; an entry cut short is not    *)
(* read back.                                                               *)
Ends ==
    /\ up /\ up' = FALSE /\ save' = "no"
    /\ db' = Empty /\ q' = [t \in Threads |-> Idle]
    /\ UNCHANGED <<now, disk, purge_opt>>

(* pdnsd starts and reads the cache file, in the file's order. *)
read_disk_cache ==
    /\ ~up /\ up' = TRUE
    /\ \E order \in SetToSeqs({n \in Names : Savable(disk[n])}) :
          db' = LET S[k \in 0..Len(order)] ==
                        IF k = 0 THEN Configured
                        ELSE add_cache(S[k - 1], order[k], disk[order[k]])
                IN  S[Len(order)]
    /\ UNCHANGED <<now, q, disk, save, purge_opt>>

Tick == now < MaxTime /\ now' = now + 1 /\ UNCHANGED <<db, q, disk, up, save, purge_opt>>

Next == \/ \E t \in Threads, n \in AllNames : lookup_cache(t, n)
        \/ \E t \in Threads : \/ lookup_cache_purge(t) \/ p_dns_resolve(t)
                              \/ AddAdditional(t) \/ ResolveFailed(t)
                              \/ LookupMerged(t) \/ LookupMergedPurge(t)
        \/ PurgeForSave \/ OpenFile \/ \E n \in Names : WriteEntry(n)
        \/ Ends \/ read_disk_cache \/ Tick

Spec == Init /\ [][Next]_vars
-----------------------------------------------------------------------------
SumCs(cache, names) == MapThenSumSet(LAMBDA n : cache[n].cs, names)

Nodes(cache) == {node \in Names \X Types : Has(cache[node[1]].rr, node[2])}
                \cup {node \in Names \X {NEG} : cache[node[1]].neg}

(* The books of the cache agree: each entry's size and rrset count are     *)
(* those of what it holds, and cache_size and ent_num are the sums over    *)
(* the entries.  The size is carried incrementally through merge, conflict *)
(* resolution and both purge passes, and decides what is evicted: it stays *)
(* within the limit unless nothing is left that may be purged.             *)
Accounting ==
    /\ \A n \in AllNames : Cached(db, n) =>
          LET ce == db.cache[n] IN
          ce.cs = TotalSize(ce.rr) /\ ce.num_rrs = Cardinality(Present(ce.rr))
    /\ db.cache_size = SumCs(db.cache, AllNames)
    /\ db.ent_num = Cardinality({n \in AllNames : Cached(db, n)})
    /\ db.cache_size <= PermSize + MCSZ \/ db.rr_l = <<>>

(* The purge list names exactly what may be purged, once, oldest first:    *)
(* queries add what they fetched at the time they started, so later        *)
(* additions may be older (insert_rrl).                                    *)
ListExact ==
    /\ ToSet(db.rr_l) = Nodes(db.cache) /\ Len(db.rr_l) = Cardinality(Nodes(db.cache))
    /\ \A k \in 1..(Len(db.rr_l) - 1) :
          NodeTs(db.cache, db.rr_l[k]) <= NodeTs(db.cache, db.rr_l[k + 1])

(* Every entry is one the cache may hold.  "purge_cache() will not be able *)
(* to get rid of" an entry without information, which no list node leads   *)
(* to: one is left behind only by a query that is about to look the name   *)
(* up again and will remove it.  And no entry holds records of types that  *)
(* exclude each other.                                                     *)
EntriesSound ==
    /\ \A n \in Names : Cached(db, n) /\ Dispensable(db, n) /\ ~db.cache[n].neg =>
          \E t \in Threads : q[t].name = n /\ q[t].pc \in {"merged", "repurge"}
    /\ \A n \in AllNames :
          {i \in Types : db.cache[n].rr[i].kind \in {"ans", "add", "local"}} # Types

(* Eviction for space takes the oldest: a record of another name that an   *)
(* addition removes before its time is no newer than any record it leaves. *)
EvictsOldest ==
    [][\A t \in Threads : q[t].pc = "resolve" /\ q'[t].pc = "merged" =>
          \A k \in DOMAIN db.rr_l :
             LET node == db.rr_l[k]
                 r == IF node[2] = NEG THEN db.cache[node[1]] ELSE db.cache[node[1]].rr[node[2]]
             IN  node[1] # q[t].name /\ node \notin ToSet(db'.rr_l) /\ ~timedout(r) =>
                    \A m \in ToSet(db'.rr_l) : NodeTs(db.cache, node) <= NodeTs(db'.cache, m)]_vars

(* What is written to the file is of one moment: while the exit writes     *)
(* entry after entry, no answer thread changes, evicts or purges one that  *)
(* is already there, so that a file cut short anywhere is a part of one    *)
(* cache, never a mix with what came later or with the older file.         *)
FileOfOneMoment ==
    save = "writing" => \A n \in Names : disk[n] \in {Absent, db.cache[n]}

(* A restart brings back every entry of the file, complete or cut short,   *)
(* unchanged and in any order, though entries without records and answers  *)
(* added after the exit's purge are about: reading never has to evict.     *)
RestoredExactly ==
    [][~up /\ up' => \A n \in Names : db'.cache[n] = disk[n]]_vars

(* "The memory cache is always 10kB larger than the file cache": what is   *)
(* saved is within perm_cache.                                             *)
FileWithinPerm == SumCs(disk, Names) <= PermSize
=============================================================================
